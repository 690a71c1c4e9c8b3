---------------------------- MODULE ArpResponder ----------------------------
(***************************************************************************)
(* The resolution engine of the MSEE ARP responder                         *)
(* (src/arp_responder/arpresponder_msee.cc, class ARPResponder): its       *)
(* tables, the handlers of the eight control requests, the handling of an  *)
(* ARP frame received on an interface, the timeout sweep and the           *)
(* single-threaded poll loop that drives them (ARPResponder::run).         *)
(*                                                                         *)
(* The engine talks to the world through variables it shares with the     *)
(* modules that compose it: the control socket (ctrl_in, ctrl_out), the    *)
(* receive queue of every packet socket (sock), the epoll ready list       *)
(* (notified) and the frames it puts on the wire (sent).                   *)
(*                                                                         *)
(* Time: time(0) has a resolution of one second; real time advances in     *)
(* TicksPerSec ticks per second.  Only differences of time matter to the   *)
(* code, so a waitlist entry keeps its age instead of its timestamp: age   *)
(* is time(0) - requested_time (what the code compares), real is the real *)
(* time since the request in ticks (what the spec's promises are about).   *)
(***************************************************************************)
EXTENDS Integers, Sequences, SequencesExt, FiniteSets, TLC

CONSTANTS
    IfNames,        \* interface names a caller may pass
    ValidIfNames,   \* the names if_nametoindex() resolves
    Fds,            \* descriptor numbers the kernel may give a packet socket
    CtrlFd,         \* the engine's end of the control socket pair
    TicksPerSec,    \* real-time ticks per time(0) second
    IfMac           \* name -> the hardware address SIOCGIFHWADDR reports

ASSUME ValidIfNames \subseteq IfNames
ASSUME CtrlFd \notin Fds /\ Cardinality(Fds) >= Cardinality(ValidIfNames)
ASSUME TicksPerSec \in Nat \ {0}
ASSUME DOMAIN IfMac = ValidIfNames

\* const int REPLY_TIMEOUT = 2;
REPLY_TIMEOUT == 2
\* ages are capped one past the point where the code stops telling them apart
AgeCap  == REPLY_TIMEOUT + 1
RealCap == (REPLY_TIMEOUT + 1) * TicksPerSec + 1

\* Mutant: epoll_wait with no timeout (-1); it need not return while idle.
EPOLL_TIMEOUT_blocking == RealCap + 1

\* EPOLL_TIMEOUT (1000 ms) in ticks: epoll_wait returns, and the loop runs
\* timeout_requests, at least this often.
EPOLL_TIMEOUT == TicksPerSec

VARIABLES
    fd_interfaces,  \* interface name -> descriptor of its packet socket
    registered,     \* descriptors in the epoll set (Poller::add_fd/del_fd)
    proxy_arp,      \* <<name, stag, ctag>> -> ip
    mac_request,    \* tuples of the batch being assembled
    mac_requests,   \* completed batches waiting for REQUEST_MAC_DO
    waitlist,       \* <<stag, ctag, ip>> -> [index, age, real, fds]
    ready,          \* index -> [status, iface, stag, ctag, mac]
    phase,          \* "poll": in epoll_wait; "process": walking the fds
    batch,          \* the descriptors epoll_wait returned, not yet processed
    sub,            \* real ticks since the current time(0) second began
    waited,         \* real ticks since the last timeout_requests sweep
    sock,           \* descriptor -> frames queued on the packet socket
    notified,       \* descriptors on the epoll ready list
    ctrl_in,        \* requests queued on the engine's control socket
    ctrl_out,       \* responses queued for the client
    sent,           \* frames the engine transmitted
    crashed         \* the process aborted

engineVars == <<fd_interfaces, registered, proxy_arp, mac_request, mac_requests,
                waitlist, ready, phase, batch, sub, waited>>
ioVars == <<sock, notified, ctrl_in, ctrl_out, sent, crashed>>

NoMac == "none"
Codes == {"ADD_INTERFACE", "DEL_INTERFACE", "ADD_IP", "DEL_IP", "REQUEST_MAC_ADD",
          "REQUEST_MAC_COMPLETE", "REQUEST_MAC_DO", "REQUEST_MAC_POLL"}
ResponseCodes == {"INTERFACE_ADDED", "INTERFACE_DELETED", "INVALID_INTERFACE", "IP_ADDED",
                  "IP_DELETED", "INVALID_IP", "REQUEST_MAC_ADDED", "REQUEST_MAC_COMPLETED",
                  "REQUEST_MAC_DONE", "REQUEST_MAC_FOUND", "REQUEST_MAC_NOT_FOUND",
                  "REQUEST_MAC_NOT_READY"}
Statuses == {"MAC_NOT_READY", "MAC_NOT_FOUND", "MAC_FOUND"}

\* std::make_tuple(status, "", 0, 0, "") of the code
Unresolved(status) == [status |-> status, iface |-> "", stag |-> 0, ctag |-> 0, mac |-> NoMac]

\* cmd_response; only REQUEST_MAC_FOUND fills the fields after the code
Response(code) == [code |-> code, iface |-> "", stag |-> 0, ctag |-> 0, mac |-> NoMac]

Reply(resp) == ctrl_out' = Append(ctrl_out, resp)

TypeOK ==
    /\ fd_interfaces \in [DOMAIN fd_interfaces -> Fds] /\ DOMAIN fd_interfaces \subseteq ValidIfNames
    /\ registered \subseteq Fds \cup {CtrlFd}
    /\ \A k \in DOMAIN waitlist : waitlist[k].age \in 0..AgeCap /\ waitlist[k].real \in 0..RealCap
                                  /\ waitlist[k].fds \subseteq Fds
    /\ \A i \in DOMAIN ready : ready[i].status \in Statuses
    /\ phase \in {"poll", "process"}
    /\ sub \in 0..TicksPerSec-1
    /\ waited \in 0..EPOLL_TIMEOUT_blocking
    /\ notified \subseteq Fds \cup {CtrlFd}
    /\ \A r \in ToSet(ctrl_in) : r.code \in Codes
    /\ \A r \in ToSet(ctrl_out) : r.code \in ResponseCodes
    /\ crashed \in BOOLEAN

EngineInit ==
    /\ fd_interfaces = <<>>
    /\ registered = {CtrlFd}                 \* poller->add_fd(ctrl_fd)
    /\ proxy_arp = <<>>
    /\ mac_request = <<>>
    /\ mac_requests = <<>>
    /\ waitlist = <<>>
    /\ ready = <<>>
    /\ phase = "poll"
    /\ batch = <<>>
    /\ sub = 0
    /\ waited = 0
    /\ sock = [fd \in Fds |-> <<>>]
    /\ notified = {}
    /\ ctrl_in = <<>>
    /\ ctrl_out = <<>>
    /\ sent = {}
    /\ crashed = FALSE

Erase(f, k) == [x \in DOMAIN f \ {k} |-> f[x]]

\* The variables a handler may change, grouped by the state they belong to
ifVars    == <<fd_interfaces, registered, sock, notified>>
batchVars == <<mac_request, mac_requests>>
lookupVars == <<waitlist, ready, sent>>

\* Interface::Interface: if_nametoindex() must resolve the name, else it throws.
Openable(name) == name \in ValidIfNames

\* Interface::open: a fresh AF_PACKET socket, bound, with an empty queue.
open(fd) == sock' = [sock EXCEPT ![fd] = <<>>]

\* Interface::close: the socket and whatever was queued on it are gone.
close(fd) == sock' = [sock EXCEPT ![fd] = <<>>]

\* Poller::add_fd: EPOLL_CTL_ADD with EPOLLIN | EPOLLET.
add_fd(fd) == registered' = registered \cup {fd}

\* Poller::del_fd: EPOLL_CTL_DEL also drops the fd from the ready list.
del_fd(fd) == /\ registered' = registered \ {fd}
              /\ notified' = notified \ {fd}

\* Poller::poll: the orders in which epoll_wait may report the ready list.
poll_ready == SetToSeqs(notified)

\* Interface::recv: one recvmsg, the head of the queue (the VLAN tag the
\* kernel strips is spliced back, so the frame is as it was sent).
recv(fd) == sock' = [sock EXCEPT ![fd] = Tail(@)]

\* Interface::send: the frame goes out, or sendto fails and send returns -1
\* (ENETDOWN while the link is down); one outcome per frame of a batch.
SendResults(n) == [1..n -> BOOLEAN]

\* MSEEArp::is_valid: ether types 88a8 / 8100 / 0806.
is_valid(f) == f.op \in {"REQUEST", "REPLY"}

----------------------------------------------------------------------------
(* Control request handlers. Each one is the whole method, response included. *)

\* Mutant: the if_nametoindex check of the Interface constructor dropped.
add_interface_unvalidated(req) ==
    LET name == req.interface IN
    /\ \/ /\ name \in DOMAIN fd_interfaces
          /\ UNCHANGED ifVars
       \/ /\ name \notin DOMAIN fd_interfaces
          /\ \E fd \in Fds \ Range(fd_interfaces) :
               /\ fd_interfaces' = (name :> fd) @@ fd_interfaces
               /\ add_fd(fd)
               /\ open(fd)
               /\ UNCHANGED notified
    /\ Reply(Response("INTERFACE_ADDED"))
    /\ UNCHANGED <<proxy_arp, batchVars, lookupVars>>

add_interface(req) ==
    LET name == req.interface IN
    /\ \/ /\ name \in DOMAIN fd_interfaces              \* "already exists"
          /\ UNCHANGED ifVars
       \/ /\ name \notin DOMAIN fd_interfaces
          /\ ~Openable(name)                           \* Interface() throws
          /\ UNCHANGED ifVars
       \/ /\ name \notin DOMAIN fd_interfaces
          /\ Openable(name)
          \* socket() returns a descriptor no open file holds
          /\ \E fd \in Fds \ Range(fd_interfaces) :
               /\ fd_interfaces' = (name :> fd) @@ fd_interfaces
               /\ add_fd(fd)
               /\ open(fd)
               /\ UNCHANGED notified
    /\ Reply(Response(IF name \notin DOMAIN fd_interfaces /\ ~Openable(name)
                      THEN "INVALID_INTERFACE" ELSE "INTERFACE_ADDED"))
    /\ UNCHANGED <<proxy_arp, batchVars, lookupVars>>

\* Mutant: poller->del_fd(intf_fd) forgotten.
del_interface_keep_fd(req) ==
    LET name == req.interface IN
    /\ IF name \in DOMAIN fd_interfaces
       THEN LET fd == fd_interfaces[name] IN
            /\ fd_interfaces' = Erase(fd_interfaces, name)
            /\ notified' = notified \ {fd}
            /\ close(fd)
            /\ UNCHANGED registered
       ELSE UNCHANGED ifVars
    /\ Reply(Response("INTERFACE_DELETED"))
    /\ UNCHANGED <<proxy_arp, batchVars, lookupVars>>

del_interface(req) ==
    LET name == req.interface IN
    /\ IF name \in DOMAIN fd_interfaces
       THEN LET fd == fd_interfaces[name] IN
            /\ fd_interfaces' = Erase(fd_interfaces, name)
            /\ del_fd(fd)
            /\ close(fd)
       ELSE UNCHANGED ifVars
    /\ Reply(Response("INTERFACE_DELETED"))
    /\ UNCHANGED <<proxy_arp, batchVars, lookupVars>>

ValidTag(t) == t # 0 /\ t <= 4095

add_ip(req) ==
    /\ UNCHANGED <<ifVars, batchVars, lookupVars>>
    /\ IF ValidTag(req.stag) /\ ValidTag(req.ctag) /\ req.interface \in DOMAIN fd_interfaces
       THEN /\ proxy_arp' = (<<req.interface, req.stag, req.ctag>> :> req.ip) @@ proxy_arp
            /\ Reply(Response("IP_ADDED"))
       ELSE /\ Reply(Response("INVALID_IP"))
            /\ UNCHANGED proxy_arp

del_ip(req) ==
    LET key == <<req.interface, req.stag, req.ctag>> IN
    /\ UNCHANGED <<ifVars, batchVars, lookupVars>>
    /\ IF key \in DOMAIN proxy_arp
       THEN /\ proxy_arp' = Erase(proxy_arp, key)
            /\ Reply(Response("IP_DELETED"))
       ELSE /\ Reply(Response("INVALID_IP"))
            /\ UNCHANGED proxy_arp

request_mac_add(req) ==
    /\ IF req.interface \in DOMAIN fd_interfaces
       THEN mac_request' = Append(mac_request,
                [iface_name |-> req.interface, stag |-> req.stag, ctag |-> req.ctag])
       ELSE UNCHANGED mac_request
    /\ Reply(Response("REQUEST_MAC_ADDED"))
    /\ UNCHANGED <<ifVars, proxy_arp, mac_requests, lookupVars>>

request_mac_complete(req) ==
    /\ mac_requests' = Append(mac_requests,
            [tuples |-> mac_request, ip |-> req.ip, index |-> req.index])
    /\ mac_request' = <<>>
    /\ Reply(Response("REQUEST_MAC_COMPLETED"))
    /\ UNCHANGED <<ifVars, proxy_arp, lookupVars>>

\* The loop of request_mac_do flattened: one record per (batch, tuple) pair,
\* in the order the two nested for-loops visit them.
Flat(reqs) == FlattenSeq([b \in 1..Len(reqs) |->
                  [t \in 1..Len(reqs[b].tuples) |->
                      [iface |-> reqs[b].tuples[t].iface_name, stag |-> reqs[b].tuples[t].stag,
                       ctag |-> reqs[b].tuples[t].ctag, ip |-> reqs[b].ip, index |-> reqs[b].index]]])

ProxyKey(p) == <<p.iface, p.stag, p.ctag>>
WaitKey(p)  == <<p.stag, p.ctag, p.ip>>

\* Arp::populate_src_info: the sender hardware address is the interface's.
populate_src_info(name) == IfMac[name]

\* MSEEArp(iface, stag, ctag): the 88a8/8100/0806 header for the tags.
QinQHeader(name, stag, ctag) ==
    [iface |-> name, stag |-> stag, ctag |-> ctag, smac |-> populate_src_info(name)]

\* The ARP request MSEEArp::make_request(r.ip, proxy_arp[key]) builds for p.
RequestFrame(p) == [op |-> "REQUEST", sip |-> proxy_arp[ProxyKey(p)], tip |-> p.ip]
                       @@ QinQHeader(p.iface, p.stag, p.ctag)

\* Mutant: ready[r.index] = MAC_NOT_READY placed before the two continues,
\* so it is written for pairs whose request was never sent.
request_mac_do_with_unsent(ok) ==
    LET F    == Flat(mac_requests)
        Done == {j \in 1..Len(F) : ProxyKey(F[j]) \in DOMAIN proxy_arp /\ ok[j]}
        Of(k) == {j \in Done : WaitKey(F[j]) = k}
        Keys == {WaitKey(F[j]) : j \in Done}
        Fd(j) == fd_interfaces[F[j].iface]
        Indices == {F[j].index : j \in 1..Len(F)}
    IN
    /\ waitlist' = [k \in DOMAIN waitlist \cup Keys |->
            IF k \in DOMAIN waitlist
            THEN [waitlist[k] EXCEPT !.fds = @ \cup {Fd(j) : j \in Of(k)}]
            ELSE [index |-> F[Min(Of(k))].index, age |-> 0, real |-> 0,
                  fds |-> {Fd(j) : j \in Of(k)}]]
    /\ ready' = [i \in DOMAIN ready \cup Indices |->
            IF i \in Indices THEN Unresolved("MAC_NOT_READY") ELSE ready[i]]
    /\ sent' = sent \cup {RequestFrame(F[j]) : j \in Done}
    /\ mac_requests' = <<>>

\* ok[j]: whether iface->send succeeded for the j-th pair (-1 on ENETDOWN).
request_mac_do_with(ok) ==
    LET F    == Flat(mac_requests)
        \* pairs with a proxy_arp entry (else "Interface ip doesn't exist")
        \* whose frame went out
        Done == {j \in 1..Len(F) : ProxyKey(F[j]) \in DOMAIN proxy_arp /\ ok[j]}
        Of(k) == {j \in Done : WaitKey(F[j]) = k}
        Keys == {WaitKey(F[j]) : j \in Done}
        Fd(j) == fd_interfaces[F[j].iface]
        Indices == {F[j].index : j \in Done}
    IN
    /\ waitlist' = [k \in DOMAIN waitlist \cup Keys |->
            IF k \in DOMAIN waitlist
            THEN [waitlist[k] EXCEPT !.fds = @ \cup {Fd(j) : j \in Of(k)}]
            \* created by the first pair with this key: its index, time(0)
            ELSE [index |-> F[Min(Of(k))].index, age |-> 0, real |-> 0,
                  fds |-> {Fd(j) : j \in Of(k)}]]
    /\ ready' = [i \in DOMAIN ready \cup Indices |->
            IF i \in Indices THEN Unresolved("MAC_NOT_READY") ELSE ready[i]]
    /\ sent' = sent \cup {RequestFrame(F[j]) : j \in Done}
    /\ mac_requests' = <<>>

request_mac_do(req) ==
    /\ \E ok \in SendResults(Len(Flat(mac_requests))) : request_mac_do_with(ok)
    /\ Reply(Response("REQUEST_MAC_DONE"))
    /\ UNCHANGED <<ifVars, proxy_arp, mac_request>>

\* Mutant: the early return for an unknown index sends no response.
request_mac_poll_silent_unknown(req) ==
    LET i == req.index IN
    /\ IF i \notin DOMAIN ready
       THEN UNCHANGED ctrl_out
       ELSE Reply(CASE ready[i].status = "MAC_NOT_READY" -> Response("REQUEST_MAC_NOT_READY")
                    [] ready[i].status = "MAC_NOT_FOUND" -> Response("REQUEST_MAC_NOT_FOUND")
                    [] OTHER -> [Response("REQUEST_MAC_FOUND") EXCEPT !.iface = ready[i].iface,
                                    !.stag = ready[i].stag, !.ctag = ready[i].ctag, !.mac = ready[i].mac])
    /\ UNCHANGED <<ifVars, proxy_arp, batchVars, lookupVars>>

request_mac_poll(req) ==
    LET i == req.index IN
    /\ Reply(CASE i \notin DOMAIN ready                  -> Response("REQUEST_MAC_NOT_FOUND")
               [] ready[i].status = "MAC_NOT_READY" -> Response("REQUEST_MAC_NOT_READY")
               [] ready[i].status = "MAC_NOT_FOUND" -> Response("REQUEST_MAC_NOT_FOUND")
               [] OTHER -> [Response("REQUEST_MAC_FOUND") EXCEPT !.iface = ready[i].iface,
                               !.stag = ready[i].stag, !.ctag = ready[i].ctag, !.mac = ready[i].mac])
    /\ UNCHANGED <<ifVars, proxy_arp, batchVars, lookupVars>>

\* ARPResponder::process_ctrl: one recv of a whole request, then dispatch.
process_ctrl ==
    LET req == Head(ctrl_in) IN
    /\ ctrl_in # <<>>
    /\ ctrl_in' = Tail(ctrl_in)
    /\ CASE req.code = "ADD_INTERFACE"        -> add_interface(req)
         [] req.code = "DEL_INTERFACE"        -> del_interface(req)
         [] req.code = "ADD_IP"               -> add_ip(req)
         [] req.code = "DEL_IP"               -> del_ip(req)
         [] req.code = "REQUEST_MAC_ADD"      -> request_mac_add(req)
         [] req.code = "REQUEST_MAC_COMPLETE" -> request_mac_complete(req)
         [] req.code = "REQUEST_MAC_DO"       -> request_mac_do(req)
         [] req.code = "REQUEST_MAC_POLL"     -> request_mac_poll(req)

----------------------------------------------------------------------------
(* ARPResponder::process_intf: one recv on the socket, then the frame.     *)

\* Arp::make_reply_from_request, in place on request f received on name:
\* opcode REPLY, protocol addresses swapped, sender MAC the interface's.
ReplyFrame(name, f) == [iface |-> name, op |-> "REPLY", stag |-> f.stag, ctag |-> f.ctag,
                        sip |-> f.tip, tip |-> f.sip, smac |-> populate_src_info(name)]

\* Mutant: waitlist.erase(key) forgotten after a reply is accepted.
resolve_keep_entry(fd, name, f) ==
    LET key == <<f.stag, f.ctag, f.sip>> IN
    IF key \in DOMAIN waitlist /\ fd \in waitlist[key].fds
    THEN /\ ready' = (waitlist[key].index :>
                [status |-> "MAC_FOUND", iface |-> name, stag |-> f.stag,
                 ctag |-> f.ctag, mac |-> f.smac]) @@ ready
         /\ UNCHANGED waitlist
    ELSE UNCHANGED <<waitlist, ready>>

\* The ARPOP_REPLY branch of process_intf for frame f on descriptor fd.
resolve(fd, name, f) ==
    LET key == <<f.stag, f.ctag, f.sip>> IN
    IF key \in DOMAIN waitlist /\ fd \in waitlist[key].fds
    THEN /\ ready' = (waitlist[key].index :>
                [status |-> "MAC_FOUND", iface |-> name, stag |-> f.stag,
                 ctag |-> f.ctag, mac |-> f.smac]) @@ ready
         /\ waitlist' = Erase(waitlist, key)
    ELSE UNCHANGED <<waitlist, ready>>

\* The two branches test arp.get_type() one after the other on the same
\* buffer: a request answered by proxy has become a reply when the second
\* test runs, and goes through the reply branch too.
handle_frame(fd, name, f) ==
    LET proxied == <<name, f.stag, f.ctag>> \in DOMAIN proxy_arp IN
    \/ /\ f.op = "REQUEST" /\ ~proxied
       /\ UNCHANGED <<waitlist, ready, sent>>
    \/ /\ f.op = "REQUEST" /\ proxied
       /\ sent' = sent \cup {ReplyFrame(name, f)}
       /\ resolve(fd, name, ReplyFrame(name, f))
    \/ /\ f.op = "REPLY"
       /\ resolve(fd, name, f)
       /\ UNCHANGED sent
    \* !arp.is_valid(): the ether-type chain is not 88a8/8100/0806
    \/ /\ ~is_valid(f)
       /\ UNCHANGED <<waitlist, ready, sent>>

process_intf(fd) ==
    \/ /\ fd \in Range(fd_interfaces)
       /\ sock[fd] # <<>>
       /\ recv(fd)
       /\ handle_frame(fd, CHOOSE n \in DOMAIN fd_interfaces : fd_interfaces[n] = fd, Head(sock[fd]))
       /\ UNCHANGED crashed
    \* interfaces[fd] was deleted by a DEL_INTERFACE earlier in the same
    \* batch: recv through the freed Interface reads fd -1, recvmsg fails
    \* with EBADF, the runtime_error escapes the thread: std::terminate.
    \/ /\ fd \notin Range(fd_interfaces)
       /\ crashed' = TRUE
       /\ UNCHANGED <<sock, waitlist, ready, sent>>

----------------------------------------------------------------------------
(* ARPResponder::run                                                       *)

\* poller->poll(fds): epoll_wait returns the ready list (or nothing after
\* EPOLL_TIMEOUT); edge-triggered, so returning clears the list.
Poll ==
    /\ ~crashed
    /\ phase = "poll"
    /\ \E order \in poll_ready : batch' = order
    /\ notified' = {}
    /\ phase' = "process"
    /\ UNCHANGED <<fd_interfaces, registered, proxy_arp, batchVars, lookupVars, sub, waited,
                   sock, ctrl_in, ctrl_out, crashed>>

\* process(fd) for the next descriptor of the batch
ProcessCtrl ==
    /\ ~crashed
    /\ phase = "process" /\ batch # <<>> /\ Head(batch) = CtrlFd
    /\ batch' = Tail(batch)
    /\ process_ctrl
    /\ UNCHANGED <<phase, sub, waited, crashed>>

ProcessIntf ==
    /\ ~crashed
    /\ phase = "process" /\ batch # <<>> /\ Head(batch) # CtrlFd
    /\ batch' = Tail(batch)
    /\ process_intf(Head(batch))
    /\ UNCHANGED <<fd_interfaces, registered, proxy_arp, batchVars, phase, sub, waited,
                   notified, ctrl_in, ctrl_out>>

\* Mutant: the off-by-one test "requested_time + REPLY_TIMEOUT >= time(0)".
Expired_late == {k \in DOMAIN waitlist : waitlist[k].age > REPLY_TIMEOUT}

\* timeout_requests(), run after every batch
Expired == {k \in DOMAIN waitlist : waitlist[k].age >= REPLY_TIMEOUT}

TimeoutRequests ==
    /\ ~crashed
    /\ phase = "process" /\ batch = <<>>
    /\ LET Idx == {waitlist[k].index : k \in Expired} IN
       ready' = [i \in DOMAIN ready \cup Idx |->
                    IF i \in Idx THEN Unresolved("MAC_NOT_FOUND") ELSE ready[i]]
    /\ waitlist' = [k \in DOMAIN waitlist \ Expired |-> waitlist[k]]
    /\ phase' = "poll"
    /\ waited' = 0
    /\ UNCHANGED <<ifVars, proxy_arp, batchVars, batch, sub, sent,
                   notified, ctrl_in, ctrl_out, crashed>>

\* Real time advances one tick; time(0) moves on when a second completes.
\* A tick does not take the loop past the epoll timeout without a sweep:
\* epoll_wait has returned by then.  Once the process is gone its waitlist
\* is memory nobody reads, and it is left as it was.
Aged(w) ==
    [k \in DOMAIN w |->
        [w[k] EXCEPT !.age  = IF sub' = 0 THEN Min({@ + 1, AgeCap}) ELSE @,
                     !.real = Min({@ + 1, RealCap})]]

Tick ==
    /\ crashed \/ waited < EPOLL_TIMEOUT
    /\ sub' = (sub + 1) % TicksPerSec
    /\ IF crashed
       THEN UNCHANGED <<waited, waitlist>>
       ELSE waited' = waited + 1 /\ waitlist' = Aged(waitlist)
    /\ UNCHANGED <<ifVars, proxy_arp, batchVars, ready, phase, batch, sent,
                   notified, ctrl_in, ctrl_out, crashed>>

EngineNext == Poll \/ ProcessCtrl \/ ProcessIntf \/ TimeoutRequests

=============================================================================
