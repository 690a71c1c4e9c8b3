----------------------------- MODULE ArpIngress ------------------------------
(***************************************************************************)
(* The path of one frame from the wire to ARPResponder::process_intf on an *)
(* MSEE interface, and on to the next frame:                               *)
(*   - the NIC's VLAN offload, which strips the outer tag into the packet's *)
(*     metadata (environment);                                             *)
(*   - the socket filter add_interface attaches (arp_code_bpf);            *)
(*   - Interface::recv, which copies at most the buffer's length and       *)
(*     splices the stripped tag back after the two MAC addresses           *)
(*     (src/arp_responder/intf.cc);                                        *)
(*   - MSEEArp::is_valid, get_type, get_stag and get_ctag                  *)
(*     (src/MSEE/arp_responder/arp.h).                                     *)
(*                                                                         *)
(* A frame is the sequence of 16-bit words after the two MAC addresses up  *)
(* to the ARP opcode -- outer TPID, outer TCI, inner TPID, inner TCI,      *)
(* ether type, opcode; the ARP fields between the ether type and the       *)
(* opcode are left out, as nothing here reads them -- and its length in    *)
(* bytes.  Word k of a frame is at byte offset 12 + 2 * (k - 1).           *)
(***************************************************************************)
EXTENDS Integers, Sequences

CONSTANTS
    WireFrames,     \* [words, len]: frames a segment may carry
    StripTpids      \* outer TPIDs the NIC's VLAN offload strips

ETH_P_8021Q  == 33024   \* 0x8100
ETH_P_8021AD == 34984   \* 0x88a8
ETHERTYPE_ARP == 2054   \* 0x0806
ARPOP_REQUEST == 1
ARPOP_REPLY   == 2

\* msee_arp_packet_len: Ethernet header, two tags and the ARP body
msee_arp_packet_len == 14 + 4 + 4 + 28

\* The words of a frame built by MSEEArp(iface, stag, ctag) (constructor
\* and init) whose opcode make_request or make_reply_from_request set.
MSEEArpFrame(stag, ctag, op) ==
    <<ETH_P_8021AD, stag, ETH_P_8021Q, ctag, ETHERTYPE_ARP, op>>

VARIABLES
    wire,           \* the frame on the wire
    offload,        \* the NIC strips VLAN tags into the packet metadata
    tpidKnown,      \* the kernel reports the stripped TPID (TP_STATUS_VLAN_TPID_VALID)
    stage,          \* "wire", "socket", "queued", "user", "done"
    data,           \* the words the packet socket holds
    len,            \* the bytes the packet socket holds
    aux,            \* the tpacket_auxdata delivered with the packet
    buf,            \* the words of the MSEEArp buffer after recv
    written,        \* the highest byte offset recv wrote, plus one
    verdict,        \* "filtered", "invalid", "request", "reply", "ignored"
    stag, ctag      \* get_stag(), get_ctag() of a valid frame

ingressVars == <<wire, offload, tpidKnown, stage, data, len, aux, buf, written,
                 verdict, stag, ctag>>

NoAux == [vlan_valid |-> FALSE, tci |-> 0, tpid |-> 0, tpid_valid |-> FALSE]

\* the 16-bit word at byte offset 12 + 2 * (k - 1); past the end, BPF_LD
\* fails and the filter returns 0
At(s, k) == IF k <= Len(s) THEN s[k] ELSE -1

\* A frame arrives at the socket's interface; the kernel metadata depends
\* on the NIC (offload: it strips VLAN tags) and on the kernel (tpidKnown:
\* it reports the stripped TPID).
Init ==
    /\ wire \in WireFrames
    /\ offload \in BOOLEAN
    /\ tpidKnown \in BOOLEAN
    /\ stage = "wire"
    /\ data = <<>> /\ len = 0 /\ aux = NoAux /\ buf = <<>> /\ written = 0
    /\ verdict = "none" /\ stag = 0 /\ ctag = 0

\* The NIC strips an outer tag it knows into the metadata (environment).
Strip ==
    /\ stage = "wire"
    /\ IF offload /\ At(wire.words, 1) \in StripTpids
       THEN /\ data' = SubSeq(wire.words, 3, Len(wire.words))
            /\ len' = wire.len - 4
            /\ aux' = [vlan_valid |-> TRUE, tci |-> wire.words[2],
                       tpid |-> IF tpidKnown THEN wire.words[1] ELSE 0,
                       tpid_valid |-> tpidKnown]
       ELSE /\ data' = wire.words /\ len' = wire.len /\ aux' = NoAux
    /\ stage' = "socket"
    /\ UNCHANGED <<wire, offload, tpidKnown, buf, written, verdict, stag, ctag>>

\* A filter written for the tag as it is on the wire, 0x88a8 at [12].
BpfAccepts_wire_tpid(d, a) ==
    /\ a.vlan_valid
    /\ At(d, 1) = ETH_P_8021AD
    /\ At(d, 3) = ETHERTYPE_ARP

\* arp_code_bpf: vlan_avail == 1, ether[12:2] == 0x8100, ether[16:2] == 0x0806
BpfAccepts(d, a) ==
    /\ a.vlan_valid
    /\ At(d, 1) = ETH_P_8021Q
    /\ At(d, 3) = ETHERTYPE_ARP

Filter ==
    /\ stage = "socket"
    /\ IF BpfAccepts(data, aux)
       THEN stage' = "queued" /\ UNCHANGED verdict
       ELSE stage' = "done" /\ verdict' = "filtered"
    /\ UNCHANGED <<wire, offload, tpidKnown, data, len, aux, buf, written, stag, ctag>>

\* VLAN_TPID(hdr, hv) of intf.h
VLAN_TPID(a) == IF a.tpid # 0 \/ a.tpid_valid THEN a.tpid ELSE ETH_P_8021Q

\* Mutant: the length of the frame rather than of the copy, as recvmsg
\* returns with MSG_TRUNC.
Copied_frame_len(n) == n

\* recvmsg copies at most the buffer; no MSG_TRUNC, so it returns the copy.
Copied(n) == IF n < msee_arp_packet_len THEN n ELSE msee_arp_packet_len

\* Interface::recv into the MSEEArp buffer: with a VLAN aux record, memmove
\* the bytes after the MACs 4 further and write the tag in the gap.
Recv ==
    LET packet_len == Copied(len) IN
    /\ stage = "queued"
    /\ IF (aux.tci # 0 \/ aux.vlan_valid) /\ packet_len >= 12
       THEN /\ buf' = <<VLAN_TPID(aux), aux.tci>> \o data
            /\ written' = 12 + 4 + (packet_len - 12)
       ELSE /\ buf' = data
            /\ written' = packet_len
    /\ stage' = "user"
    /\ UNCHANGED <<wire, offload, tpidKnown, data, len, aux, verdict, stag, ctag>>

\* is_valid without the check of the outer TPID.
is_valid_inner_only(b) ==
    /\ At(b, 3) = ETH_P_8021Q
    /\ At(b, 5) = ETHERTYPE_ARP

\* MSEEArp::is_valid
is_valid(b) ==
    /\ At(b, 1) = ETH_P_8021AD
    /\ At(b, 3) = ETH_P_8021Q
    /\ At(b, 5) = ETHERTYPE_ARP

\* Arp::get_type: the 16-bit opcode returned as uint8_t
get_type(b) == At(b, 6) % 256

\* MSEEArp::get_stag, get_ctag: ntohs of the whole TCI
get_stag(b) == b[2]
get_ctag(b) == b[4]

\* process_intf: drop what is not valid, dispatch on the type.
Classify ==
    /\ stage = "user"
    /\ IF ~is_valid(buf)
       THEN verdict' = "invalid" /\ UNCHANGED <<stag, ctag>>
       ELSE /\ verdict' = CASE get_type(buf) = ARPOP_REQUEST -> "request"
                            [] get_type(buf) = ARPOP_REPLY   -> "reply"
                            [] OTHER                         -> "ignored"
            /\ stag' = get_stag(buf)
            /\ ctag' = get_ctag(buf)
    /\ stage' = "done"
    /\ UNCHANGED <<wire, offload, tpidKnown, data, len, aux, buf, written>>

\* The socket receives the next frame.
NextFrame ==
    /\ stage = "done"
    /\ wire' \in WireFrames
    /\ offload' \in BOOLEAN
    /\ tpidKnown' \in BOOLEAN
    /\ stage' = "wire"
    /\ data' = <<>> /\ len' = 0 /\ aux' = NoAux /\ buf' = <<>> /\ written' = 0
    /\ verdict' = "none" /\ stag' = 0 /\ ctag' = 0

Next == Strip \/ Filter \/ Recv \/ Classify \/ NextFrame

Spec == Init /\ [][Next]_ingressVars

----------------------------------------------------------------------------

TypeOK ==
    /\ stage \in {"wire", "socket", "queued", "user", "done"}
    /\ offload \in BOOLEAN /\ tpidKnown \in BOOLEAN
    /\ written \in 0..msee_arp_packet_len + 4
    /\ verdict \in {"none", "filtered", "invalid", "request", "reply", "ignored"}

\* A frame in the layout MSEEArp builds, with tags add_ip accepts and an
\* ARP opcode.
IsMSEEArp(w) ==
    /\ Len(w) = 6
    /\ w = MSEEArpFrame(w[2], w[4], w[6])
    /\ w[2] \in 1..4095 /\ w[4] \in 1..4095
    /\ w[6] \in {ARPOP_REQUEST, ARPOP_REPLY}

\* A QinQ ARP frame in MSEEArp's layout reaches process_intf as what it
\* is, under its own tags, when the NIC strips the outer tag and the
\* kernel reports its TPID: the filter passes it, the recv splice puts
\* the tag back, and is_valid, get_type, get_stag and get_ctag read it.
QinQArpDelivered ==
    stage = "done" /\ IsMSEEArp(wire.words) /\ offload /\ tpidKnown
    /\ wire.words[1] \in StripTpids
        => /\ verdict = IF wire.words[6] = ARPOP_REQUEST THEN "request" ELSE "reply"
           /\ stag = wire.words[2]
           /\ ctag = wire.words[4]

\* process_intf dispatches only frames that were QinQ ARP on the wire
\* (88a8 / 8100 / 0806): the filter and the splice never turn another
\* encapsulation into one is_valid accepts.
OnlyQinQArpDispatched ==
    verdict \in {"request", "reply", "ignored"} =>
        /\ wire.words[1] = ETH_P_8021AD
        /\ wire.words[3] = ETH_P_8021Q
        /\ wire.words[5] = ETHERTYPE_ARP

(* What the code's own buffer size promises of Interface::recv.          *)

\* recv writes inside the buffer it is given (arp.size() bytes).
SpliceInBounds == written <= msee_arp_packet_len

=============================================================================
