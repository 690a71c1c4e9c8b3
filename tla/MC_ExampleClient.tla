-------------------------- MODULE MC_ExampleClient --------------------------
(***************************************************************************)
(* The example session with one host behind eth0: the host at 0x11223344  *)
(* on segment (10, 20), the address the first batch resolves.  It asks for *)
(* the configured address or for its own, and answers, late or twice, the *)
(* requests it sees.                                                       *)
(***************************************************************************)
EXTENDS ExampleClient

CONSTANTS macX, macEth0

MC_ExampleIfMac == Eth0 :> macEth0

MC_ExampleArgs == {PrepareTuples}

MC_ExampleHosts == {[iface |-> Eth0, stag |-> 10, ctag |-> 20, ip |-> IpX, mac |-> macX]}

MC_ExampleIPs == {Ip1020, IpX}
=============================================================================
