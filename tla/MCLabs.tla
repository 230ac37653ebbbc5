------------------------------- MODULE MCLabs -------------------------------
(* A small instance of Labs for TLC. *)
EXTENDS Labs

(* curl, what only begins like it, and another program beside it *)
MCPaths == {[start |-> "/usr/bin/curl", end |-> ""],
            [start |-> "/usr/bin/curl", end |-> "-extra"],
            [start |-> "/usr/bin/ping", end |-> ""]}

(* Packets that end before or at the end of a header, with and without      *)
(* options: TCP with its port, with 80 elsewhere, and fragments without     *)
(* one; ICMP; and what is no IPv4 at all                                    *)
MCPackets ==
    {[size |-> at[1], type |-> "IPv4", options |-> at[2], protocol |-> "TCP",
      later |-> port[1], dest |-> port[2], rest |-> port[3]] :
        at \in {<<33, 0>>, <<37, 0>>, <<38, 0>>, <<38, 1>>, <<41, 1>>, <<42, 1>>},
        port \in {<<FALSE, 80, 81>>, <<FALSE, 81, 80>>, <<TRUE, 80, 80>>, <<TRUE, 80, 81>>}}
      \cup [size : {33, 34, 38}, type : {"IPv4"}, options : {0, 1}, protocol : {"ICMP"},
            later : {FALSE}, dest : {80}, rest : {80}]
      \cup [size : {13, 42}, type : {"other"}, options : {0}, protocol : {"ICMP", "TCP"},
            later : {FALSE}, dest : {80}, rest : {80}]
=============================================================================
