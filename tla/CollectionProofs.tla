-------------------------- MODULE CollectionProofs --------------------------
(* What a cycle publishes, for any collectors, any lists they return and    *)
(* any of them failing.                                                     *)
EXTENDS Collection, FiniteSetTheorems, SequenceTheorems, TLAPS

-----------------------------------------------------------------------------
(* Sequences without duplicates *)

(* The elements of a concatenation *)
LEMMA ConcatRange ==
  ASSUME NEW S, NEW s \in Seq(S), NEW t \in Seq(S)
  PROVE  /\ s \o t \in Seq(S)
         /\ Range(s \o t) = Range(s) \cup Range(t)
<1>1. /\ Len(s) \in Nat /\ Len(t) \in Nat
      /\ DOMAIN s = 1 .. Len(s) /\ DOMAIN t = 1 .. Len(t)
  BY LenProperties
<1>2. /\ s \o t \in Seq(S) /\ Len(s \o t) = Len(s) + Len(t)
      /\ \A i \in 1 .. Len(s) + Len(t) :
            (s \o t)[i] = IF i <= Len(s) THEN s[i] ELSE t[i - Len(s)]
  BY ConcatProperties
<1>3. DOMAIN (s \o t) = 1 .. Len(s) + Len(t)
  BY <1>2, LenProperties
<1>4. ASSUME NEW x \in Range(s \o t) PROVE x \in Range(s) \cup Range(t)
  <2>1. PICK i \in 1 .. Len(s) + Len(t) : x = (s \o t)[i]
    BY <1>3 DEF Range
  <2>2. CASE i <= Len(s)
    <3>1. i \in 1 .. Len(s) /\ x = s[i]
      BY <1>1, <1>2, <2>1, <2>2
    <3>q. QED
      BY <1>1, <3>1 DEF Range
  <2>3. CASE ~ (i <= Len(s))
    <3>1. i - Len(s) \in 1 .. Len(t) /\ x = t[i - Len(s)]
      BY <1>1, <1>2, <2>1, <2>3
    <3>q. QED
      BY <1>1, <3>1 DEF Range
  <2>q. QED
    BY <2>2, <2>3
<1>5. ASSUME NEW i \in 1 .. Len(s) PROVE s[i] \in Range(s \o t)
  <2>1. i \in 1 .. Len(s) + Len(t) /\ (s \o t)[i] = s[i]
    BY <1>1, <1>2
  <2>q. QED
    BY <1>3, <2>1 DEF Range
<1>6. ASSUME NEW i \in 1 .. Len(t) PROVE t[i] \in Range(s \o t)
  <2>1. i + Len(s) \in 1 .. Len(s) + Len(t) /\ (s \o t)[i + Len(s)] = t[i]
    BY <1>1, <1>2
  <2>q. QED
    BY <1>3, <2>1 DEF Range
<1>7. Range(s) \cup Range(t) \subseteq Range(s \o t)
  BY <1>1, <1>5, <1>6 DEF Range
<1>q. QED
  BY <1>2, <1>4, <1>7

(* Two lists without duplicates and with nothing in common make one list    *)
(* without duplicates                                                       *)
LEMMA ConcatInjective ==
  ASSUME NEW S, NEW s \in Seq(S), NEW t \in Seq(S),
         IsInjective(s), IsInjective(t), Range(s) \cap Range(t) = {}
  PROVE  IsInjective(s \o t)
<1>1. /\ Len(s) \in Nat /\ Len(t) \in Nat
      /\ DOMAIN s = 1 .. Len(s) /\ DOMAIN t = 1 .. Len(t)
  BY LenProperties
<1>2. /\ s \o t \in Seq(S) /\ Len(s \o t) = Len(s) + Len(t)
      /\ \A i \in 1 .. Len(s) + Len(t) :
            (s \o t)[i] = IF i <= Len(s) THEN s[i] ELSE t[i - Len(s)]
  BY ConcatProperties
<1>3. DOMAIN (s \o t) = 1 .. Len(s) + Len(t)
  BY <1>2, LenProperties
<1>4. ASSUME NEW i \in 1 .. Len(s), NEW j \in 1 .. Len(t) PROVE s[i] # t[j]
  BY <1>1 DEF Range
<1>5. ASSUME NEW i \in 1 .. Len(s) + Len(t), NEW j \in 1 .. Len(s) + Len(t),
             (s \o t)[i] = (s \o t)[j]
      PROVE  i = j
  <2>1. CASE i <= Len(s) /\ j <= Len(s)
    <3>1. i \in DOMAIN s /\ j \in DOMAIN s /\ s[i] = s[j]
      BY <1>1, <1>2, <1>5, <2>1
    <3>q. QED
      BY <3>1 DEF IsInjective
  <2>2. CASE i <= Len(s) /\ ~ (j <= Len(s))
    <3>1. i \in 1 .. Len(s) /\ j - Len(s) \in 1 .. Len(t) /\ s[i] = t[j - Len(s)]
      BY <1>1, <1>2, <1>5, <2>2
    <3>q. QED
      BY <1>4, <3>1
  <2>3. CASE ~ (i <= Len(s)) /\ j <= Len(s)
    <3>1. j \in 1 .. Len(s) /\ i - Len(s) \in 1 .. Len(t) /\ s[j] = t[i - Len(s)]
      BY <1>1, <1>2, <1>5, <2>3
    <3>q. QED
      BY <1>4, <3>1
  <2>4. CASE ~ (i <= Len(s)) /\ ~ (j <= Len(s))
    <3>1. /\ i - Len(s) \in DOMAIN t /\ j - Len(s) \in DOMAIN t
          /\ t[i - Len(s)] = t[j - Len(s)]
      BY <1>1, <1>2, <1>5, <2>4
    <3>2. i - Len(s) = j - Len(s)
      BY <3>1 DEF IsInjective
    <3>q. QED
      BY <1>1, <3>2
  <2>q. QED
    BY <2>1, <2>2, <2>3, <2>4
<1>q. QED
  BY <1>3, <1>5 DEF IsInjective

(* SetToSeq lists each element of a finite set once *)
LEMMA SetToSeqLists ==
  ASSUME NEW S, IsFiniteSet(S)
  PROVE  /\ SetToSeq(S) \in Seq(S) /\ IsInjective(SetToSeq(S))
         /\ Range(SetToSeq(S)) = S
<1>1. Cardinality(S) \in Nat /\ ExistsBijection(1 .. Cardinality(S), S)
  BY FS_CardinalityType
<1>2. PICK f \in [1 .. Cardinality(S) -> S] : IsInjective(f)
  BY <1>1 DEF ExistsBijection, Bijection, Injection
<1>3. /\ SetToSeq(S) \in [1 .. Cardinality(S) -> S]
      /\ IsInjective(SetToSeq(S))
  BY <1>2 DEF SetToSeq
<1>4. SetToSeq(S) \in Seq(S)
  BY <1>1, <1>3
<1>5. SetToSeq(S) \in Surjection(1 .. Cardinality(S), S)
  <2>1. SetToSeq(S) \in Injection(1 .. Cardinality(S), S)
    BY <1>3 DEF Injection
  <2>2. Cardinality(1 .. Cardinality(S)) = Cardinality(S)
    BY <1>1, FS_Interval
  <2>q. QED
    BY <2>1, <2>2, FS_Injection
<1>6. Range(SetToSeq(S)) = S
  BY <1>3, <1>5 DEF Surjection, Range
<1>q. QED
  BY <1>3, <1>4, <1>6

-----------------------------------------------------------------------------
(* The diagnostics and the values of a turn *)

(* The names are finitely many                                              *)
LEMMA NamesFinite == IsFiniteSet(Names)
<1>1. /\ Len(Order) \in Nat /\ Order \in [1 .. Len(Order) -> STRING]
      /\ DOMAIN Order = 1 .. Len(Order)
  BY CollectionAssumption, LenProperties
<1>2. Order \in Surjection(1 .. Len(Order), Names)
  BY <1>1 DEF Surjection, Names, Range
<1>3. IsFiniteSet(1 .. Len(Order))
  BY <1>1, FS_Interval
<1>q. QED
  BY <1>1, <1>2, <1>3, FS_Surjection DEF Names, Range

(* Each name asked, and Normalization if it failed, has its diagnostic once *)
LEMMA DiagnosticsListed ==
  ASSUME NEW D \in SUBSET (Names \cup {Normalization})
  PROVE  LET s == SetToSeq({Diagnostic(n) : n \in D}) IN
           /\ s \in Seq(Series) /\ IsInjective(s)
           /\ Range(s) \subseteq Reserved
<1> DEFINE T == {Diagnostic(n) : n \in D}
<1>1. T \subseteq Reserved /\ T \subseteq Series
  <2>1. ASSUME NEW n \in D
        PROVE  Diagnostic(n) \in Reserved /\ Diagnostic(n) \in Series
    <3>1. Diagnostic(n) \in Series
      BY CollectionAssumption
    <3>q. QED
      BY <3>1 DEF Diagnostic, Reserved
  <2>q. QED
    BY <2>1
<1>2. IsFiniteSet(D)
  BY NamesFinite, FS_AddElement, FS_Subset
<1>3. IsFiniteSet(T)
  <2> DEFINE f == [n \in D |-> Diagnostic(n)]
  <2>1. f \in Surjection(D, T)
    BY DEF Surjection
  <2>q. QED
    BY <1>2, <2>1, FS_Surjection
<1> HIDE DEF T
<1>4. SetToSeq(T) \in Seq(T) /\ IsInjective(SetToSeq(T)) /\ Range(SetToSeq(T)) = T
  BY <1>3, SetToSeqLists
<1>5. SetToSeq(T) \in Seq(Series)
  BY <1>1, <1>4, SeqMonotonic
<1>q. QED
  BY <1>1, <1>4, <1>5 DEF T

(* What a valid list adds: its series, none of them twice or reserved       *)
LEMMA ValidAdds ==
  ASSUME NEW s \in Seq(Series), NEW n \in Names, NEW values \in Returns[n],
         Range(s) \cap Reserved = {}, Range(values) \cap Reserved = {}
  PROVE  /\ values \in Seq(Series) /\ s \o values \in Seq(Series)
         /\ Range(s \o values) = Range(s) \cup Range(values)
         /\ Range(s \o values) \cap Reserved = {}
<1>1. values \in Seq(Series)
  BY CollectionAssumption
<1>2. s \o values \in Seq(Series) /\ Range(s \o values) = Range(s) \cup Range(values)
  BY <1>1, ConcatRange
<1>q. QED
  BY <1>1, <1>2

-----------------------------------------------------------------------------
(* Nothing returned yet *)

(* A cycle begins with nothing taken                                        *)
LEMMA NothingYet ==
  /\ <<>> \in Seq(Series) /\ Range(<<>>) = {} /\ IsInjective(<<>>)
  /\ None \in [Names -> Seq(Series)]
  /\ \A n \in Names : None[n] = <<>>
<1>1. <<>> \in Seq(Series) /\ Len(<<>>) = 0
  BY EmptySeq
<1>2. DOMAIN <<>> = {}
  BY <1>1, LenProperties
<1>3. Range(<<>>) = {} /\ IsInjective(<<>>)
  BY <1>2 DEF Range, IsInjective
<1>q. QED
  BY <1>1, <1>3 DEF None

(* A cycle number and the number of a last success are within the bound     *)
LEMMA NoSuccessYet == [n \in Names |-> 0] \in [Names -> 0 .. MaxCycles]
BY CollectionAssumption

-----------------------------------------------------------------------------
(* Every step keeps the types *)

(* The turn of a collector keeps them                                       *)
LEMMA TurnTyped ==
  ASSUME CollectionInv, NEW n \in Names, Collect(n) \/ Fail(n)
  PROVE  TypeOK'
<1>1. /\ n \in todo /\ todo \subseteq selected /\ stage = "collecting"
      /\ samples \in Seq(Series) /\ cycle \in 0 .. MaxCycles
      /\ lastSuccess \in [Names -> 0 .. MaxCycles]
      /\ returned \in [Names -> Seq(Series)]
      /\ errors \subseteq selected /\ Range(samples) \cap Reserved = {}
  BY DEF Collect, Fail, Turn, CollectionInv, TypeOK, TurnInv
<1>2. CASE Collect(n)
  <2>1. PICK values \in Returns[n] : Succeed(n, values)
    BY <1>2 DEF Collect
  <2>2. values \in Seq(Series)
    BY CollectionAssumption
  <2>3. returned' \in [Names -> Seq(Series)]
    BY <1>1, <2>1, <2>2 DEF Succeed
  <2>4. samples' \in {samples, samples \o values}
    BY <2>1 DEF Succeed
  <2>5. samples \o values \in Seq(Series)
    BY <1>1, <2>2, ConcatRange
  <2>6. lastSuccess' \in {lastSuccess, [lastSuccess EXCEPT ![n] = cycle]}
    BY <2>1 DEF Succeed
  <2>7. errors' \in {errors, errors \cup {n}}
    BY <2>1 DEF Succeed
  <2>8. lastSuccess' \in [Names -> 0 .. MaxCycles]
    BY <1>1, <2>6
  <2>q. QED
    BY <1>1, <1>2, <2>3, <2>4, <2>5, <2>7, <2>8 DEF Collect, CollectionInv, TypeOK
<1>3. CASE Fail(n)
  BY <1>1, <1>3 DEF Fail, CollectionInv, TypeOK
<1>q. QED
  BY <1>2, <1>3

(* What is published are the data and the diagnostics                       *)
LEMMA PublishLists ==
  ASSUME CollectionInv, NEW data \in Seq(Series), IsInjective(data),
         Range(data) \cap Reserved = {}, NEW E \in SUBSET (selected \cup {Normalization}),
         Publish(data, E)
  PROVE  /\ samples' \in Seq(Series) /\ IsInjective(samples')
         /\ Range(samples') \ Reserved = Range(data)
<1> DEFINE D == SetToSeq({Diagnostic(n) : n \in Diagnosed(E)})
<1>1. Diagnosed(E) \in SUBSET (Names \cup {Normalization})
  BY DEF Diagnosed, CollectionInv, TypeOK
<1>2. D \in Seq(Series) /\ IsInjective(D) /\ Range(D) \subseteq Reserved
  BY <1>1, DiagnosticsListed
<1>3. samples' = data \o D
  BY DEF Publish
<1> HIDE DEF D
<1>4. data \o D \in Seq(Series) /\ Range(data \o D) = Range(data) \cup Range(D)
  BY <1>2, ConcatRange
<1>5. IsInjective(data \o D)
  <2>1. Range(data) \cap Range(D) = {}
    BY <1>2
  <2>q. QED
    BY <1>2, <2>1, ConcatInjective
<1>q. QED
  BY <1>2, <1>3, <1>4, <1>5

-----------------------------------------------------------------------------
(* Every step keeps the invariant *)

(* A valid list adds its series to the samples, an invalid one and a        *)
(* failure nothing: in each case the samples are those of the names taken.  *)
LEMMA TurnKeeps ==
  ASSUME CollectionInv, NEW n \in Names, Collect(n) \/ Fail(n)
  PROVE  CollectionInv'
<1>1. TypeOK'
  BY TurnTyped
<1>2. /\ n \in todo /\ todo \subseteq selected /\ stage = "collecting"
      /\ samples \in Seq(Series) /\ selected \subseteq Names
      /\ returned \in [Names -> Seq(Series)] /\ returned[n] = <<>>
      /\ errors \subseteq selected \ todo /\ Range(samples) \cap Reserved = {}
      /\ IsInjective(samples) /\ \A m \in todo : returned[m] = <<>>
      /\ Range(samples) = UNION {Range(returned[m]) : m \in Taken}
  BY DEF Collect, Fail, Turn, CollectionInv, TypeOK, TurnInv
<1>3. /\ stage' = "collecting" /\ todo' = todo \ {n} /\ selected' = selected
      /\ n \notin errors /\ n \notin Taken
  BY <1>2 DEF Collect, Fail, Taken
<1>4. CASE Fail(n)
  <2>1. /\ errors' = errors \cup {n} /\ samples' = samples /\ returned' = returned
    BY <1>4 DEF Fail
  <2>2. Taken' = Taken
    BY <1>2, <1>3, <2>1 DEF Taken
  <2>3. TurnInv'
    BY <1>2, <1>3, <2>1, <2>2 DEF TurnInv
  <2>q. QED
    BY <1>1, <1>3, <2>1, <2>3 DEF CollectionInv, ReturnsOnly, PublishedInv
<1>5. ASSUME NEW values \in Returns[n], Succeed(n, values), n \notin errors
      PROVE  CollectionInv'
  <2>1. /\ returned' = [returned EXCEPT ![n] = values]
        /\ returned'[n] = values
        /\ \A m \in Names \ {n} : returned'[m] = returned[m]
    BY <1>2, <1>5 DEF Succeed
  <2>2. ReturnsOnly'
    BY <2>1 DEF ReturnsOnly, CollectionInv
  <2>3. \A m \in todo' : returned'[m] = <<>>
    BY <1>2, <1>3, <2>1
  <2>4. \A m \in Taken : returned'[m] = returned[m]
    BY <1>2, <1>3, <2>1 DEF Taken
  <2>5. CASE Valid(values)
    <3>1. samples' = samples \o values /\ errors' = errors
      BY <1>5, <2>5 DEF Succeed
    <3>2. /\ IsInjective(samples') /\ Range(values) \cap Reserved = {}
      BY <2>5, <3>1 DEF Valid
    <3>3. /\ Range(samples') = Range(samples) \cup Range(values)
          /\ Range(samples') \cap Reserved = {}
      BY <1>2, <3>1, <3>2, ValidAdds
    <3>4. Taken' = Taken \cup {n}
      BY <1>2, <1>3, <3>1 DEF Taken
    <3>5. UNION {Range(returned'[m]) : m \in Taken'}
            = (UNION {Range(returned[m]) : m \in Taken}) \cup Range(values)
      BY <2>1, <2>4, <3>4
    <3>6. TurnInv'
      BY <1>2, <1>3, <2>3, <3>1, <3>2, <3>3, <3>5 DEF TurnInv
    <3>q. QED
      BY <1>1, <1>3, <2>2, <3>6 DEF CollectionInv, PublishedInv
  <2>6. CASE ~ Valid(values)
    <3>1. samples' = samples /\ errors' = errors \cup {n}
      BY <1>5, <2>6 DEF Succeed
    <3>2. Taken' = Taken
      BY <1>2, <1>3, <3>1 DEF Taken
    <3>3. UNION {Range(returned'[m]) : m \in Taken'}
            = UNION {Range(returned[m]) : m \in Taken}
      BY <2>4, <3>2
    <3>4. TurnInv'
      BY <1>2, <1>3, <2>3, <3>1, <3>3 DEF TurnInv
    <3>q. QED
      BY <1>1, <1>3, <2>2, <3>4 DEF CollectionInv, PublishedInv
  <2>q. QED
    BY <2>5, <2>6
<1>q. QED
  BY <1>3, <1>4, <1>5 DEF Collect

(* What is published are the data and the diagnostics                       *)
LEMMA PublishKeeps ==
  ASSUME CollectionInv, Normalized \/ NormalizeFails
  PROVE  CollectionInv'
<1>1. /\ todo = {} /\ stage = "collecting"
      /\ samples \in Seq(Series) /\ IsInjective(samples)
      /\ Range(samples) \cap Reserved = {} /\ errors \subseteq selected
      /\ Range(samples) = UNION {Range(returned[m]) : m \in selected \ errors}
      /\ selected \subseteq Names /\ Normalization \notin selected
  BY CollectionAssumption
     DEF Normalized, NormalizeFails, Publish, CollectionInv, TypeOK, TurnInv, Taken
<1>2. /\ stage' = "published" /\ todo' = todo
      /\ UNCHANGED <<selected, startup, lastSuccess, cycle, returned>>
  BY DEF Normalized, NormalizeFails, Publish
<1>3. CASE Normalized
  <2>1. Publish(samples, errors)
    BY <1>3 DEF Normalized
  <2>2. /\ samples' \in Seq(Series) /\ IsInjective(samples')
        /\ Range(samples') \ Reserved = Range(samples)
    BY <1>1, <2>1, PublishLists
  <2>3. errors' = errors
    BY <2>1 DEF Publish
  <2>q. QED
    BY <1>1, <1>2, <2>2, <2>3
       DEF CollectionInv, TypeOK, ReturnsOnly, TurnInv, PublishedInv
<1>4. CASE NormalizeFails
  <2>1. Publish(<<>>, errors \cup {Normalization})
    BY <1>4 DEF NormalizeFails
  <2>2. /\ samples' \in Seq(Series) /\ IsInjective(samples')
        /\ Range(samples') \ Reserved = {}
    <3>1. <<>> \in Seq(Series) /\ IsInjective(<<>>) /\ Range(<<>>) = {}
      BY NothingYet
    <3>2. errors \cup {Normalization} \in SUBSET (selected \cup {Normalization})
      BY <1>1
    <3>q. QED
      BY <2>1, <3>1, <3>2, PublishLists
  <2>3. errors' = errors \cup {Normalization}
    BY <2>1 DEF Publish
  <2>q. QED
    BY <1>1, <1>2, <2>2, <2>3
       DEF CollectionInv, TypeOK, ReturnsOnly, TurnInv, PublishedInv
<1>q. QED
  BY <1>3, <1>4

(* Every step keeps it *)
LEMMA CollectionStep ==
  ASSUME CollectionInv, [Next]_vars
  PROVE  CollectionInv'
<1>1. CASE Start
  <2>1. /\ startup' \in SUBSET selected /\ selected' = selected /\ todo' = todo
        /\ lastSuccess' \in [Names -> 0 .. MaxCycles] /\ cycle' = 0
        /\ stage' = "idle" /\ samples' = <<>> /\ errors' = {} /\ returned' = None
    BY <1>1, NoSuccessYet DEF Start
  <2>2. TypeOK'
    BY <2>1, NothingYet, CollectionAssumption DEF CollectionInv, TypeOK
  <2>q. QED
    BY <2>1, <2>2, NothingYet DEF CollectionInv, ReturnsOnly, TurnInv, PublishedInv
<1>2. CASE Stop
  BY <1>2 DEF Stop, CollectionInv, TypeOK, ReturnsOnly, TurnInv, PublishedInv
<1>3. CASE Begin
  <2>1. /\ stage' = "collecting" /\ cycle' = cycle + 1 /\ cycle < MaxCycles
        /\ todo' = selected /\ samples' = <<>> /\ errors' = {} /\ returned' = None
        /\ UNCHANGED <<selected, startup, lastSuccess>>
    BY <1>3 DEF Begin
  <2>2. TypeOK'
    <3>1. cycle' \in 0 .. MaxCycles
      BY <2>1, CollectionAssumption DEF CollectionInv, TypeOK
    <3>q. QED
      BY <2>1, <3>1, NothingYet DEF CollectionInv, TypeOK
  <2>3. Taken' = {}
    BY <2>1 DEF Taken
  <2>4. TurnInv'
    <3>1. \A n \in todo' : returned'[n] = <<>>
      BY <2>1, NothingYet DEF CollectionInv, TypeOK
    <3>q. QED
      BY <2>1, <2>3, <3>1, NothingYet DEF TurnInv
  <2>q. QED
    BY <2>1, <2>2, <2>4, NothingYet DEF CollectionInv, ReturnsOnly, PublishedInv
<1>4. CASE Normalized \/ NormalizeFails
  BY <1>4, PublishKeeps
<1>5. ASSUME NEW n \in Names, Collect(n) \/ Fail(n) PROVE CollectionInv'
  BY <1>5, TurnKeeps
<1>6. CASE UNCHANGED vars
  BY <1>6 DEF vars, CollectionInv, TypeOK, ReturnsOnly, TurnInv, PublishedInv, Taken
<1>q. QED
  BY <1>1, <1>2, <1>3, <1>4, <1>5, <1>6 DEF Next

(* The invariant holds of every cycle                                       *)
LEMMA CollectionInvariant == Spec => []CollectionInv
<1>1. Init => CollectionInv
  <2> SUFFICES ASSUME Init PROVE CollectionInv
    OBVIOUS
  <2>1. selected \subseteq Names
    BY CollectionAssumption DEF Init
  <2>2. /\ startup = {} /\ stage = "down" /\ todo = {} /\ samples = <<>>
        /\ errors = {} /\ cycle = 0 /\ returned = None
        /\ lastSuccess \in [Names -> 0 .. MaxCycles]
    BY NoSuccessYet DEF Init
  <2>3. TypeOK
    BY <2>1, <2>2, NothingYet, CollectionAssumption DEF TypeOK
  <2>q. QED
    BY <2>2, <2>3, NothingYet DEF CollectionInv, ReturnsOnly, TurnInv, PublishedInv
<1>2. CollectionInv /\ [Next]_vars => CollectionInv'
  BY CollectionStep
<1>q. QED
  BY <1>1, <1>2, PTL DEF Spec

-----------------------------------------------------------------------------
(* The properties *)

(* Every variable of a cycle keeps its type *)
THEOREM TypeCorrect == Spec => []TypeOK
<1>1. CollectionInv => TypeOK
  BY DEF CollectionInv
<1>q. QED
  BY <1>1, CollectionInvariant, PTL

(* _collect_once contains failures: what is published are all the samples   *)
(* of the collectors that succeeded and none of the others, for any number  *)
(* of collectors, any lists they return and any of them failing.            *)
THEOREM FailuresContained == Spec => []FailureContained
<1>1. CollectionInv => FailureContained
  BY DEF CollectionInv, PublishedInv, FailureContained, Published
<1>q. QED
  BY <1>1, CollectionInvariant, PTL

(* What _collect_once publishes can be rendered: the series of the          *)
(* collectors and the diagnostics together have no duplicate.               *)
THEOREM AlwaysRenderable == Spec => []RenderSafe
<1>1. CollectionInv => RenderSafe
  BY DEF CollectionInv, PublishedInv, RenderSafe, Published
<1>q. QED
  BY <1>1, CollectionInvariant, PTL

(* _availability and get_health tell the truth: "available" means that all  *)
(* a category needs came from its own collectors in this cycle, and no      *)
(* failure of theirs or of normalize is called "unavailable" or healthy.    *)
THEOREM StatusTrue == Spec => []StatusHonest
<1>1. ASSUME CollectionInv, Published, NEW c \in Categories, Status(c) = "available"
      PROVE  /\ Owners[c] \cap errors = {}
             /\ Whole[c] \subseteq UNION {Range(returned[n]) : n \in Owners[c]}
  <2>1. ~ Failed(c) /\ ~ Partial(c)
    BY <1>1 DEF Status
  <2>2. Owners[c] \cap errors = {} /\ Normalization \notin errors
    BY <2>1 DEF Failed
  <2>3. Whole[c] \subseteq Range(samples) \ Reserved
    BY <2>1, CollectionAssumption DEF Partial
  <2>4. ASSUME NEW x \in Whole[c]
        PROVE  x \in UNION {Range(returned[n]) : n \in Owners[c]}
    <3>1. PICK n \in selected \ errors : x \in Range(returned[n])
      BY <1>1, <2>2, <2>3 DEF CollectionInv, PublishedInv, Published
    <3>2. n \in Names /\ (returned[n] \in Returns[n] \/ returned[n] = <<>>)
      BY <1>1, <3>1 DEF CollectionInv, TypeOK, ReturnsOnly
    <3>3. returned[n] \in Returns[n]
      BY <3>1, <3>2, NothingYet
    <3>4. n \in Owners[c]
      BY <3>1, <3>2, <3>3, CollectionAssumption
    <3>q. QED
      BY <3>1, <3>4
  <2>q. QED
    BY <2>2, <2>4
<1>2. ASSUME CollectionInv, Published, NEW c \in Categories,
             Status(c) = "unavailable" \/ Health = "healthy"
      PROVE  errors \cap (Owners[c] \cup {Normalization}) = {}
  <2>1. CASE Status(c) = "unavailable"
    BY <2>1 DEF Status, Failed
  <2>2. CASE Health = "healthy"
    BY <2>2 DEF Health
  <2>q. QED
    BY <1>2, <2>1, <2>2
<1>3. CollectionInv => StatusHonest
  BY <1>1, <1>2 DEF StatusHonest
<1>q. QED
  BY <1>3, CollectionInvariant, PTL
=============================================================================
