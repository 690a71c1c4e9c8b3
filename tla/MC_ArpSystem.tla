--------------------------- MODULE MC_ArpSystem -----------------------------
(***************************************************************************)
(* Small instances of ArpSystem for TLC.  One interface that resolves      *)
(* (e1) and one name that does not (bad); two packet-socket descriptors so *)
(* that a deleted interface's descriptor can come back; one QinQ segment   *)
(* (stag 10, ctag 20) with one host on it; tags 0 to exercise add_ip's     *)
(* range check.                                                            *)
(***************************************************************************)
EXTENDS ArpSystem

CONSTANTS e1, e2, bad, ipA, ipB, macH, macH2, macE1, macE2

MC_Fds == {4, 5}

\* add_ip on the served segment, overwriting with another address, and an
\* out-of-range stag
MC_IpArgs ==
    {[interface |-> e1, stag |-> 10, ctag |-> 20, ip |-> ipA],
     [interface |-> e1, stag |-> 0,  ctag |-> 20, ip |-> ipA]}

Tuple(n, s, c) == [iface_name |-> n, stag |-> s, ctag |-> c]

\* resolve ipB on the segment, under index 0 or index 1
MC_RequestMacArgs ==
    { << [index |-> 0, ip |-> ipB, tuples |-> << Tuple(e1, 10, 20) >>] >>,
      << [index |-> 1, ip |-> ipB, tuples |-> << Tuple(e1, 10, 20) >>] >> }

\* resolve ipB on the segment under index 0
MC_OneIndexArgs ==
    { << [index |-> 0, ip |-> ipB, tuples |-> << Tuple(e1, 10, 20) >>] >> }

\* resolve ipB, then ipA, both under index 0
MC_TwoAddressArgs ==
    { << [index |-> 0, ip |-> ipB, tuples |-> << Tuple(e1, 10, 20) >>] >>,
      << [index |-> 0, ip |-> ipA, tuples |-> << Tuple(e1, 10, 20) >>] >> }

MC_Hosts == {[iface |-> e1, stag |-> 10, ctag |-> 20, ip |-> ipB, mac |-> macH]}

MC_IfMac == [n \in {e1} |-> macE1]

\* two interfaces that resolve, each with a host at ipB on segment (10, 20)
MC_IfMac2 == (e1 :> macE1) @@ (e2 :> macE2)

MC_Hosts2 == MC_Hosts \cup {[iface |-> e2, stag |-> 10, ctag |-> 20, ip |-> ipB, mac |-> macH2]}

MC_IPs == {ipA, ipB}
=============================================================================
