---------------------------- MODULE MC_ArpIngress ----------------------------
(* Frames for the ingress runs: the QinQ ARP frames MSEEArp builds, the    *)
(* same with priority bits in the outer TCI, with the opcode 0x0101, with  *)
(* two 802.1Q tags, QinQ IPv4, one 802.1Q tag and no tag, each unpadded    *)
(* (50 bytes) and padded to the 60-byte Ethernet minimum.                  *)
EXTENDS ArpIngress

QinQ(outer, stci, etype, op) == <<outer, stci, ETH_P_8021Q, 20, etype, op>>

MC_Lens == {50, 60}

MC_WireFrames ==
    { [words |-> w, len |-> l] : l \in MC_Lens,
        w \in { MSEEArpFrame(10, 20, ARPOP_REQUEST), MSEEArpFrame(10, 20, ARPOP_REPLY),
                QinQ(ETH_P_8021AD, 24586, ETHERTYPE_ARP, ARPOP_REQUEST),   \* PCP 3, VID 10
                QinQ(ETH_P_8021AD, 10, ETHERTYPE_ARP, 257),                \* opcode 0x0101
                QinQ(ETH_P_8021Q, 10, ETHERTYPE_ARP, ARPOP_REQUEST),       \* 802.1Q in 802.1Q
                QinQ(ETH_P_8021AD, 10, 2048, ARPOP_REQUEST),               \* IPv4
                <<ETH_P_8021Q, 20, ETHERTYPE_ARP, ARPOP_REQUEST>>,         \* one tag
                <<ETHERTYPE_ARP, ARPOP_REQUEST>> } }                      \* untagged

MC_StripTpids == {ETH_P_8021Q, ETH_P_8021AD}

=============================================================================
