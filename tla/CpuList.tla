------------------------------ MODULE CpuList ------------------------------
(***************************************************************************)
(* The lists of CPUs in /sys/devices/system/cpu, as cpu_usage.c reads them *)
(* ("0-3,5"): the possible CPUs, whose order names the slots of a per-CPU  *)
(* map, and the CPUs online.  A line is a sequence of tokens: a number,    *)
(* Dash, Comma, or Other for whatever no list contains.                    *)
(***************************************************************************)
EXTENDS Integers, SequencesExt, FiniteSetsExt

CONSTANT IntMax     \* INT_MAX

ASSUME CpuListAssumption == IntMax \in Nat

Dash == -1
Comma == -2
Other == -3
Ids == 0 .. IntMax

(* IntMax + 1 stands for the numbers that are too large *)
Tokens == 0 .. IntMax + 1 \cup {Dash, Comma, Other}

Invalid == [first |-> 1, last |-> 0]

IdAt(line, i) == i <= Len(line) /\ line[i] \in Ids

(* Fault: the end of a range is not compared with its beginning *)
RangeAt_Backwards(line, i) ==
    IF ~IdAt(line, i) THEN Invalid
    ELSE IF i + 1 > Len(line) \/ line[i + 1] # Dash
           THEN [first |-> line[i], last |-> line[i]]
    ELSE IF IdAt(line, i + 2) THEN [first |-> line[i], last |-> line[i + 2]]
    ELSE Invalid

(* The number or range at position i *)
RangeAt(line, i) ==
    IF ~IdAt(line, i) THEN Invalid
    ELSE IF i + 1 > Len(line) \/ line[i + 1] # Dash
           THEN [first |-> line[i], last |-> line[i]]
    ELSE IF IdAt(line, i + 2) /\ line[i] <= line[i + 2]
           THEN [first |-> line[i], last |-> line[i + 2]]
    ELSE Invalid

(* What follows the number or range at position i *)
After(line, i) == i + IF i < Len(line) /\ line[i + 1] = Dash THEN 3 ELSE 1

(* One turn of the loop over a line, found being what was found up to a     *)
(* position.  After a range the line ends or has a comma, which need not be *)
(* followed; the first thing that is not a range ends the line.             *)
ReadRange(line, found) ==
    LET range == RangeAt(line, found.at)
        next == After(line, found.at)
    IN IF found.at > Len(line) THEN found
       ELSE IF range = Invalid
              THEN [at |-> Len(line) + 1, ranges |-> Append(found.ranges, Invalid)]
       ELSE IF next <= Len(line) /\ line[next] # Comma
              THEN [at |-> Len(line) + 1,
                    ranges |-> Append(Append(found.ranges, range), Invalid)]
       ELSE [at |-> next + 1, ranges |-> Append(found.ranges, range)]

(* The ranges of a line; no line has more than tokens *)
Ranges(line) ==
    LET read[k \in 0 .. Len(line)] ==
            IF k = 0 THEN [at |-> 1, ranges |-> <<>>] ELSE ReadRange(line, read[k - 1])
    IN read[Len(line)].ranges

Numbers(range) == [k \in 1 .. range.last - range.first + 1 |-> range.first + k - 1]

(* A range is written to ids if there is room for all of it *)
Place(found, range, count) ==
    IF ~found.ok \/ range = Invalid
         \/ range.last - range.first >= count - Len(found.ids)
      THEN [found EXCEPT !.ok = FALSE]
      ELSE [found EXCEPT !.ids = @ \o Numbers(range)]

(* possible_cpu_ids: what was written to ids, and whether it returned 0 *)
PossibleIds(line, count) ==
    LET ranges == Ranges(line)
        found[k \in 0 .. Len(ranges)] ==
            IF k = 0 THEN [ok |-> TRUE, ids |-> <<>>]
                     ELSE Place(found[k - 1], ranges[k], count)
        all == found[Len(ranges)]
    IN [all EXCEPT !.ok = @ /\ Len(all.ids) = count]

(* online_cpus: the slots set in online, and whether it returned 0 *)
OnlineSlots(line, ids) ==
    [ok |-> ~Contains(Ranges(line), Invalid),
     slots |-> {slot \in DOMAIN ids :
                  \E k \in DOMAIN Ranges(line) :
                     ids[slot] \in Ranges(line)[k].first .. Ranges(line)[k].last}]

-----------------------------------------------------------------------------
(* What a line means, without reading it from left to right *)

(* The CPUs it covers: the numbers in it, and those a dash stands for *)
Covered(line) ==
    {n \in Ids : \/ Contains(line, n)
                 \/ \E i \in 2 .. Len(line) - 1 :
                       line[i] = Dash /\ line[i - 1] < n /\ n < line[i + 1]}

(* The lines the kernel prints: ascending numbers joined by commas or       *)
(* dashes, where no two dashes share a number.                              *)
KernelLine(line) ==
    /\ Len(line) % 2 = 1
    /\ \A i \in DOMAIN line :
          IF i % 2 = 1 THEN line[i] \in Ids ELSE line[i] \in {Dash, Comma}
    /\ \A i \in DOMAIN line : i % 2 = 1 /\ i > 1 => line[i - 2] < line[i]
    /\ \A i \in DOMAIN line : i > 2 /\ line[i] = Dash => line[i - 2] = Comma
=============================================================================
