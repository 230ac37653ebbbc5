---------------------------- MODULE LabPrograms ----------------------------
(***************************************************************************)
(* The eBPF programs of the two labs, as functions of what they look at:   *)
(* the Kprobe and the LSM program of Lab 1, the XDP and the TC filter of   *)
(* Lab 2.                                                                  *)
(*                                                                         *)
(* A packet is what its sender put together: an Ethernet header for "type",*)
(* an IPv4 header for "protocol" with "options" words of options, and, but *)
(* in a later fragment, a transport header with the port "dest".  "rest" is*)
(* what stands elsewhere, in options or data.  Of all that, a filter may   *)
(* read the first "size" bytes, and finds a port only by where it looks.   *)
(* A path is its first 13 characters, "start", and the rest of it, "end".  *)
(***************************************************************************)
EXTENDS Integers

PacketLayers ==
    [size : Nat, type : {"IPv4", "other"}, options : 0 .. 10,
     protocol : {"ICMP", "TCP", "other"}, later : BOOLEAN, dest : Nat, rest : Nat]

EthEnd == 14            \* end of struct ethhdr
IpEnd == EthEnd + 20    \* end of struct iphdr, which has no options

(* Where the sender's stack puts what follows the IPv4 header *)
TransportStart(p) == 34 + 4 * p.options

(* The 16 bits at a place of the packet: only there is a port a port *)
PortAt(p, place) ==
    IF ~p.later /\ place = TransportStart(p) + 2 THEN p.dest ELSE p.rest

(* The field "ihl" of the IPv4 header: its length in words *)
Ihl(p) == 5 + p.options

(* How both filters begin: bounds, type, bounds *)
SeesIpv4(p) ==
    /\ EthEnd <= p.size
    /\ p.type = "IPv4"
    /\ IpEnd <= p.size

(* xdp_drop_icmp.bpf.c: is the packet dropped? *)
xdp_firewall(p) == SeesIpv4(p) /\ p.protocol = "ICMP"

(* Fault: TCP follows the basic header, whatever ihl is *)
tc_egress_filter_FixedHeader(p) ==
    /\ SeesIpv4(p) /\ p.protocol = "TCP"
    /\ IpEnd + 4 <= p.size
    /\ PortAt(p, IpEnd + 2) = 80

(* tc_egress_drop.bpf.c: is the packet dropped? *)
tc_egress_filter(p) ==
    /\ SeesIpv4(p) /\ p.protocol = "TCP"
    /\ LET tcp == EthEnd + 4 * Ihl(p)
       IN tcp + 4 <= p.size /\ PortAt(p, tcp + 2) = 80

(* kprobe_exec.bpf.c: the name in the line it prints, that of the task as   *)
(* it enters execve                                                         *)
trace_exec(task) == task.comm

(* lsm_block.bpf.c: the execution is refused *)
restrict_execution(path) == path.start = "/usr/bin/curl"
=============================================================================
