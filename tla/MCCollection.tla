--------------------------- MODULE MCCollection ----------------------------
(* Three collectors.  "cpu" may return the temperature that "thermal"       *)
(* returns and "memory" a reserved name, as collectors that are injected    *)
(* may.                                                                     *)
EXTENDS Collection

Usage == <<"usage", "cpu">>
Heat == <<"temperature", "cpu">>
Total == <<"total", "memory">>
Sensor == <<"temperature", "sensor">>

MCOrder == <<"cpu", "memory", "thermal">>
Emits == [cpu |-> {Usage, Heat}, memory |-> {Total, Diagnostic("cpu")},
          thermal |-> {Heat, Sensor}]

(* Some of the series of a collector, one of them perhaps twice *)
Lists(E) == UNION {LET s == SetToSeq(S) IN {s} \cup {Append(s, x) : x \in S}
                     : S \in SUBSET E}

MCSeries == (UNION {Emits[n] : n \in DOMAIN Emits})
              \cup {Diagnostic(n) : n \in DOMAIN Emits \cup {Normalization}}
MCReturns == [n \in DOMAIN Emits |-> Lists(Emits[n])]
MCCategories == {"cpu", "memory", "thermal"}
MCOwners == [cpu |-> {"cpu", "thermal"}, memory |-> {"memory"}, thermal |-> {"thermal"}]
MCMain == [cpu |-> {Usage, Heat}, memory |-> {Total}, thermal |-> {Sensor}]
MCWhole == [cpu |-> {Usage, Heat}, memory |-> {Total}, thermal |-> {}]
=============================================================================
