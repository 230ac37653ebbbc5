---------------------------- MODULE Collection -----------------------------
(***************************************************************************)
(* What a cycle of monitor.py publishes: _collect_once and _availability   *)
(* with the failures of collectors, of their construction and of           *)
(* normalize, and what get_health says of it.                              *)
(*                                                                         *)
(* The worker is alone in a cycle and the snapshot is published in one     *)
(* step (Monitor); here a step is a collector's turn.  A sample is the     *)
(* series it belongs to, a pair of a metric and a label; what normalize    *)
(* makes of the samples is which series a category has data from.          *)
(***************************************************************************)
EXTENDS Naturals, Sequences, FiniteSets, SequencesExt

CONSTANTS
    Order,          \* names of collectors, in the order of the factories
    Normalization,  \* "normalization"
    Series,         \* metrics with their labels
    Returns,        \* [name -> lists of series its collector may return]
    Categories,
    Owners,         \* [category -> names of the collectors it depends on]
    Main,           \* [category -> series of which one makes it available]
    Whole,          \* [category -> series without which it is partial]
    MaxCycles

Names == Range(Order)

(* The series with the prefix monix_collector_, and those of a name *)
Reserved == {x \in Series : x[1] = "monix_collector"}
Diagnostic(n) == <<"monix_collector", n>>

(* What a category needs is returned by nobody but its owners *)
ASSUME CollectionAssumption ==
    /\ Order \in Seq(STRING) /\ IsInjective(Order)
    /\ Normalization \notin Names /\ MaxCycles \in Nat
    /\ \A n \in Names \cup {Normalization} : Diagnostic(n) \in Series
    /\ \A n \in Names : Returns[n] \subseteq Seq(Series)
    /\ \A c \in Categories :
          /\ Owners[c] \subseteq Names
          /\ (Main[c] \cup Whole[c]) \cap Reserved = {}
          /\ \A n \in Names \ Owners[c] : \A values \in Returns[n] :
                Range(values) \cap Whole[c] = {}

VARIABLES
    selected,       \* collectors of the configured categories
    startup,        \* _startup_errors
    stage,          \* "down", "idle", "collecting", "published"
    todo,           \* names still to be asked in this cycle
    samples,        \* samples
    errors,         \* names whose diagnostics tell an error
    lastSuccess,    \* _last_success, as the number of the cycle, 0 for none
    cycle,          \* sequence of the snapshot being made
    returned        \* history: what the collectors returned in this cycle

vars == <<selected, startup, stage, todo, samples, errors, lastSuccess, cycle, returned>>

None == [n \in Names |-> <<>>]

Init ==
    /\ \E C \in SUBSET Categories \ {{}} : selected = UNION {Owners[c] : c \in C}
    /\ startup = {} /\ stage = "down" /\ todo = {} /\ samples = <<>>
    /\ errors = {} /\ cycle = 0 /\ returned = None
    /\ lastSuccess = [n \in Names |-> 0]

(* _initialize_collectors: any of the factories may raise *)
Start ==
    /\ stage = "down"
    /\ startup' \in SUBSET selected
    /\ lastSuccess' = [n \in Names |-> 0]
    /\ cycle' = 0 /\ stage' = "idle"
    /\ samples' = <<>> /\ errors' = {} /\ returned' = None
    /\ UNCHANGED <<selected, todo>>

Stop ==
    /\ stage = "published" /\ stage' = "down"
    /\ UNCHANGED <<selected, startup, todo, samples, errors, lastSuccess, cycle, returned>>

(* Every collector is asked, and those that could not be made told of *)
Begin ==
    /\ stage \in {"idle", "published"} /\ cycle < MaxCycles
    /\ stage' = "collecting" /\ cycle' = cycle + 1
    /\ todo' = selected
    /\ samples' = <<>> /\ errors' = {} /\ returned' = None
    /\ UNCHANGED <<selected, startup, lastSuccess>>

Place(n) == CHOOSE i \in DOMAIN Order : Order[i] = n

(* The collectors in order, then those that could not be made              *)
Before(m, n) == \/ m \notin startup /\ n \in startup
                \/ (m \in startup) = (n \in startup) /\ Place(m) < Place(n)

Turn(n) == /\ stage = "collecting" /\ n \in todo
           /\ \A m \in todo \ {n} : Before(n, m)

(* Fault: the prefix is not reserved *)
Valid_AnyName(values) == IsInjective(samples \o values)

(* No reserved name, and validate_samples([*samples, *values]) *)
Valid(values) == /\ Range(values) \cap Reserved = {}
                 /\ IsInjective(samples \o values)

(* Fault: the values are added before they are validated *)
Succeed_Adds(n, values) ==
    /\ returned' = [returned EXCEPT ![n] = values]
    /\ samples' = samples \o SelectSeq(values, LAMBDA x : x \notin Range(samples))
    /\ IF Valid(values)
         THEN lastSuccess' = [lastSuccess EXCEPT ![n] = cycle] /\ UNCHANGED errors
         ELSE errors' = errors \cup {n} /\ UNCHANGED lastSuccess

(* collect returns: its values are taken, all of them or none *)
Succeed(n, values) ==
    /\ returned' = [returned EXCEPT ![n] = values]
    /\ IF Valid(values)
         THEN /\ samples' = samples \o values
              /\ lastSuccess' = [lastSuccess EXCEPT ![n] = cycle]
              /\ UNCHANGED errors
         ELSE errors' = errors \cup {n} /\ UNCHANGED <<samples, lastSuccess>>

Collect(n) ==
    /\ Turn(n) /\ n \notin startup
    /\ \E values \in Returns[n] : Succeed(n, values)
    /\ todo' = todo \ {n}
    /\ UNCHANGED <<selected, startup, stage, cycle>>

(* collect raises, or there is no collector to ask *)
Fail(n) ==
    /\ Turn(n)
    /\ errors' = errors \cup {n}
    /\ todo' = todo \ {n}
    /\ UNCHANGED <<selected, startup, stage, samples, lastSuccess, cycle, returned>>

(* Every name asked and, if normalize raised, Normalization *)
Diagnosed(E) == selected \cup (E \cap {Normalization})

Publish(data, E) ==
    /\ stage = "collecting" /\ todo = {}
    /\ stage' = "published" /\ errors' = E
    /\ samples' = data \o SetToSeq({Diagnostic(n) : n \in Diagnosed(E)})
    /\ UNCHANGED <<selected, startup, todo, lastSuccess, cycle, returned>>

Normalized == Publish(samples, errors)

(* "data, samples = _empty_data(), []" *)
NormalizeFails == Publish(<<>>, errors \cup {Normalization})

Next == \/ Start \/ Stop \/ Begin \/ Normalized \/ NormalizeFails
        \/ \E n \in Names : Collect(n) \/ Fail(n)

Spec == Init /\ [][Next]_vars

-----------------------------------------------------------------------------
(* What readers are told of a published cycle                               *)

(* Fault: a failing normalize is nobody's error *)
Failed_Collectors(c) == Owners[c] \cap errors # {}

(* A collector of c failed, or normalize did *)
Failed(c) == Owners[c] \cap errors # {} \/ Normalization \in errors

Available(c) == Main[c] \cap Range(samples) # {}

Partial(c) == ~ (Whole[c] \subseteq Range(samples))

Status(c) == IF Available(c)
               THEN IF Partial(c) \/ Failed(c) THEN "partial" ELSE "available"
               ELSE IF Failed(c) THEN "error" ELSE "unavailable"

(* The status of a running monitor whose snapshot is fresh *)
Health == IF errors # {} THEN "degraded"
          ELSE IF \A c \in Categories : ~ Available(c) THEN "starting"
          ELSE "healthy"

-----------------------------------------------------------------------------
(* Properties *)

Published == stage = "published"

(* A cycle publishes everything that the collectors without an error        *)
(* returned and nothing of the others: a failing or clashing collector      *)
(* neither loses the samples of another nor leaves part of its own.         *)
FailureContained ==
    Published /\ Normalization \notin errors =>
        Range(samples) \ Reserved = UNION {Range(returned[n]) : n \in selected \ errors}

(* No series is published twice, so that render, which validates the        *)
(* samples again with those of the diagnostics, raises for no scrape.       *)
RenderSafe == Published => IsInjective(samples)

(* A category is called available only when all it needs was returned in    *)
(* this cycle by its own collectors and all of these succeeded, and one     *)
(* without data is called unavailable only when nothing it needs failed.    *)
(* Health calls the monitor healthy only if that is so of all of them.      *)
StatusHonest ==
    Published => \A c \in Categories :
        /\ Status(c) = "available" =>
             /\ Owners[c] \cap errors = {}
             /\ Whole[c] \subseteq UNION {Range(returned[n]) : n \in Owners[c]}
        /\ Status(c) = "unavailable" \/ Health = "healthy" =>
             errors \cap (Owners[c] \cup {Normalization}) = {}

-----------------------------------------------------------------------------
(* What makes them inductive *)

TypeOK ==
    /\ selected \subseteq Names /\ startup \subseteq selected
    /\ stage \in {"down", "idle", "collecting", "published"}
    /\ todo \subseteq selected /\ samples \in Seq(Series)
    /\ errors \subseteq selected \cup {Normalization}
    /\ cycle \in 0 .. MaxCycles /\ lastSuccess \in [Names -> 0 .. MaxCycles]
    /\ returned \in [Names -> Seq(Series)]

(* What a collector returned is one of its lists, or nothing *)
ReturnsOnly ==
    \A n \in Names : returned[n] \in Returns[n] \/ returned[n] = <<>>

(* The names whose values are in the samples *)
Taken == selected \ (errors \cup todo)

(* Between two turns the samples are what those asked so far returned, but  *)
(* for those that failed; nothing is told of those still to be asked.       *)
TurnInv ==
    stage = "collecting" =>
        /\ errors \subseteq selected \ todo
        /\ \A n \in todo : returned[n] = <<>>
        /\ Range(samples) = UNION {Range(returned[n]) : n \in Taken}
        /\ Range(samples) \cap Reserved = {}
        /\ IsInjective(samples)

(* Without normalized data only diagnostics are published *)
PublishedInv ==
    stage = "published" =>
        /\ IsInjective(samples)
        /\ Range(samples) \ Reserved =
              IF Normalization \in errors THEN {}
              ELSE UNION {Range(returned[n]) : n \in selected \ errors}

CollectionInv == TypeOK /\ ReturnsOnly /\ TurnInv /\ PublishedInv
=============================================================================
