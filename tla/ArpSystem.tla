----------------------------- MODULE ArpSystem ------------------------------
(***************************************************************************)
(* The MSEE ARP responder as deployed by arpresponder_msee_main.cc: the    *)
(* engine thread (module ArpResponder) driven over a SOCK_DGRAM socket     *)
(* pair by the Cmd client the thrift handler calls (src/arp_responder/     *)
(* cmd.cc), and the hosts on the QinQ segments behind the interfaces.      *)
(*                                                                         *)
(* The thrift server is a TSimpleServer: one call at a time, so the client *)
(* is one sequential process.  The hosts are the environment: they may     *)
(* ask for any address, answer the engine's ARP requests late, twice or    *)
(* never; none of that is fair.                                            *)
(***************************************************************************)
EXTENDS ArpResponder

CONSTANTS
    IpArgs,         \* [interface, stag, ctag, ip] a caller passes to add_ip/del_ip
    RequestMacArgs, \* the request vectors a caller passes to request_mac
    Hosts,          \* [iface, stag, ctag, ip, mac]: a host, its segment and addresses
    IPs,            \* addresses a host may ask for
    MaxQueue        \* frames a packet socket's receive queue holds

VARIABLES
    cpc,            \* "idle", "call" (sending cmds), "poll" (request_mac's poll loop)
    cmds,           \* the requests of the current call still to be answered
    waiting,        \* a request is on the socket, its response not yet read
    poll,           \* request_mac: indices not yet resolved
    round,          \* indices of poll not yet polled in this pass
    polled,         \* the index of the outstanding REQUEST_MAC_POLL
    answers,        \* index -> the response request_mac returns for it
    call            \* the request vector of the current request_mac

clientVars == <<cpc, cmds, waiting, poll, round, polled, answers, call>>
vars == <<engineVars, ioVars, clientVars>>

\* bzero(&request, request_len) and then the fields the method sets
Request(code, name, stag, ctag, ip, index) ==
    [code |-> code, interface |-> name, stag |-> stag, ctag |-> ctag, ip |-> ip, index |-> index]
Simple(code, name) == Request(code, name, 0, 0, 0, 0)

Init ==
    /\ EngineInit
    /\ cpc = "idle" /\ cmds = <<>> /\ waiting = FALSE
    /\ poll = {} /\ round = {} /\ polled = 0 /\ answers = <<>> /\ call = <<>>

----------------------------------------------------------------------------
(* Cmd: the calls of the thrift handler                                    *)

StartCall(reqs) ==
    /\ cpc = "idle"
    /\ cpc' = "call"
    /\ cmds' = reqs
    /\ UNCHANGED <<waiting, poll, round, polled, answers, call, ctrl_in, ctrl_out, notified>>

CallInterface ==
    \E n \in IfNames, code \in {"ADD_INTERFACE", "DEL_INTERFACE"} :
        StartCall(<<Simple(code, n)>>)

CallIp ==
    \E a \in IpArgs :
        \/ StartCall(<<Request("ADD_IP", a.interface, a.stag, a.ctag, a.ip, 0)>>)
        \/ StartCall(<<Request("DEL_IP", a.interface, a.stag, a.ctag, 0, 0)>>)

\* Cmd::request_mac: per batch one request_mac_intf per tuple and one
\* request_mac_complete(ip), then request_mac_do.  request_mac_complete
\* sets only request.ip: the index stays 0 from bzero.
MacCmds(reqs) ==
    FlattenSeq([b \in 1..Len(reqs) |->
        [t \in 1..Len(reqs[b].tuples) |->
            Request("REQUEST_MAC_ADD", reqs[b].tuples[t].iface_name, reqs[b].tuples[t].stag,
                    reqs[b].tuples[t].ctag, 0, reqs[b].index)]
        \o <<Request("REQUEST_MAC_COMPLETE", "", 0, 0, reqs[b].ip, 0)>>])
    \o <<Simple("REQUEST_MAC_DO", "")>>

StartRequestMac(reqs) ==
    /\ cpc = "idle"
    /\ cpc' = "call"
    /\ cmds' = MacCmds(reqs)
    /\ poll' = {reqs[b].index : b \in 1..Len(reqs)}
    /\ answers' = <<>>
    /\ call' = reqs
    /\ UNCHANGED <<waiting, round, polled, ctrl_in, ctrl_out, notified>>

CallRequestMac == \E reqs \in RequestMacArgs : StartRequestMac(reqs)

\* Cmd::send_request: a whole record on the datagram socket
SendRequest(req) ==
    /\ ctrl_in' = Append(ctrl_in, req)
    /\ notified' = notified \cup {CtrlFd}
    /\ waiting' = TRUE

ClientSend ==
    /\ cpc = "call" /\ ~waiting
    /\ SendRequest(Head(cmds))
    /\ UNCHANGED <<cpc, cmds, poll, round, polled, answers, call, ctrl_out>>

\* Cmd::recv_response of a call's request; after request_mac_do the poll loop
ClientRecv ==
    /\ cpc = "call" /\ waiting /\ ctrl_out # <<>>
    /\ ctrl_out' = Tail(ctrl_out)
    /\ waiting' = FALSE
    /\ cmds' = Tail(cmds)
    /\ cpc' = IF Tail(cmds) # <<>> THEN "call" ELSE IF poll # {} THEN "poll" ELSE "idle"
    /\ round' = poll
    /\ UNCHANGED <<poll, polled, answers, call, ctrl_in, notified>>

\* Cmd::request_mac_poll for one index of the pass over poll
ClientPoll ==
    /\ cpc = "poll" /\ ~waiting
    /\ \E i \in round :
         /\ SendRequest(Request("REQUEST_MAC_POLL", "", 0, 0, 0, i))
         /\ polled' = i
    /\ UNCHANGED <<cpc, cmds, poll, round, answers, call, ctrl_out>>

\* Mutant: the while loop does not start a new pass over poll.
ClientPollRecv_no_refill ==
    LET i == polled
        resp == Head(ctrl_out)
        final == resp.code # "REQUEST_MAC_NOT_READY"
        poll1 == IF final THEN poll \ {i} ELSE poll
    IN
    /\ cpc = "poll" /\ waiting /\ ctrl_out # <<>>
    /\ ctrl_out' = Tail(ctrl_out)
    /\ waiting' = FALSE
    /\ answers' = IF final THEN (i :> resp) @@ answers ELSE answers
    /\ poll' = poll1
    /\ round' = round \ {i}
    /\ cpc' = IF poll1 = {} THEN "idle" ELSE "poll"
    /\ UNCHANGED <<cmds, polled, call, ctrl_in, notified>>

\* The response to a poll: NOT_READY keeps the index for the next pass
\* (after nanosleep of 500ms); anything else is the index's answer.
ClientPollRecv ==
    LET i == polled
        resp == Head(ctrl_out)
        final == resp.code # "REQUEST_MAC_NOT_READY"
        poll1 == IF final THEN poll \ {i} ELSE poll
        round1 == round \ {i}
    IN
    /\ cpc = "poll" /\ waiting /\ ctrl_out # <<>>
    /\ ctrl_out' = Tail(ctrl_out)
    /\ waiting' = FALSE
    /\ answers' = IF final THEN (i :> resp) @@ answers ELSE answers
    /\ poll' = poll1
    /\ round' = IF round1 = {} THEN poll1 ELSE round1
    /\ cpc' = IF poll1 = {} THEN "idle" ELSE "poll"
    /\ UNCHANGED <<cmds, polled, call, ctrl_in, notified>>

ClientNext == CallInterface \/ CallIp \/ CallRequestMac \/ ClientSend \/ ClientRecv
              \/ ClientPoll \/ ClientPollRecv

----------------------------------------------------------------------------
(* The hosts on the segments                                               *)

\* A frame reaches the packet socket of the interface named iface, if open.
Deliver(iface, frame) ==
    /\ iface \in DOMAIN fd_interfaces
    /\ LET fd == fd_interfaces[iface] IN
       /\ Len(sock[fd]) < MaxQueue
       /\ sock' = [sock EXCEPT ![fd] = Append(@, frame)]
       /\ notified' = notified \cup {fd}
    /\ UNCHANGED <<engineVars, ctrl_in, ctrl_out, sent, crashed, clientVars>>

\* A host broadcasts an ARP request for address tip on its segment.
HostAsks ==
    \E h \in Hosts, tip \in IPs :
        Deliver(h.iface, [op |-> "REQUEST", stag |-> h.stag, ctag |-> h.ctag,
                          sip |-> h.ip, tip |-> tip, smac |-> h.mac])

\* A host answers an ARP request for its address sent on its segment;
\* sent keeps every request, so the answer may come late or twice.
HostAnswers ==
    \E h \in Hosts, f \in sent :
        /\ f.op = "REQUEST" /\ f.iface = h.iface /\ f.stag = h.stag
        /\ f.ctag = h.ctag /\ f.tip = h.ip
        /\ Deliver(h.iface, [op |-> "REPLY", stag |-> h.stag, ctag |-> h.ctag,
                             sip |-> h.ip, tip |-> f.sip, smac |-> h.mac])

\* A host announces its address with a gratuitous ARP reply.
HostAnnounces ==
    \E h \in Hosts :
        Deliver(h.iface, [op |-> "REPLY", stag |-> h.stag, ctag |-> h.ctag,
                          sip |-> h.ip, tip |-> h.ip, smac |-> h.mac])

\* A frame that passes the socket filter but not MSEEArp::is_valid (an
\* 802.1Q frame inside an 802.1Q tag: outer TPID 0x8100, not 0x88a8).
Garbage ==
    \E h \in Hosts :
        Deliver(h.iface, [op |-> "INVALID", stag |-> 0, ctag |-> 0, sip |-> 0, tip |-> 0, smac |-> h.mac])

NetNext == HostAsks \/ HostAnswers \/ HostAnnounces \/ Garbage

----------------------------------------------------------------------------

Next ==
    \/ EngineNext /\ UNCHANGED clientVars
    \/ Tick /\ UNCHANGED clientVars
    \/ ClientNext /\ UNCHANGED <<engineVars, sock, sent, crashed>>
    \/ NetNext

\* The engine thread never stops by itself (the loop is while(true)), time
\* passes, and the thrift thread runs the client's calls to their end.
Fairness ==
    /\ WF_vars(EngineNext /\ UNCHANGED clientVars)
    /\ WF_vars(Tick /\ UNCHANGED clientVars)
    /\ WF_vars((ClientSend \/ ClientRecv \/ ClientPoll \/ ClientPollRecv)
                  /\ UNCHANGED <<engineVars, sock, sent, crashed>>)

Spec == Init /\ [][Next]_vars /\ Fairness

----------------------------------------------------------------------------
(* Properties                                                              *)

\* The indices the engine files lookups under: those the client sends.
LookupIndices == {0} \cup UNION {{reqs[b].index : b \in 1..Len(reqs)} : reqs \in RequestMacArgs}

\* The ready table seen as the abstract lookup table: an index's status is
\* the status stored for it; the table stops when the process aborts.
Lookup == INSTANCE LookupTable WITH
    Indices <- LookupIndices,
    status  <- [i \in DOMAIN ready |-> ready[i].status],
    up      <- ~crashed

\* The engine implements the lookup table: request_mac_do issues, and a
\* reply (process_intf) or a timeout (timeout_requests) settles a pending
\* index once, never overwriting a settled answer; every pending index
\* settles while the engine runs.
LookupRefinement == Lookup!Spec

\* An index request_mac_poll reports as not ready has a waitlist entry that
\* will settle it: only an accepted reply (process_intf) or a timeout
\* (timeout_requests) of an entry carrying that index ever moves ready[i]
\* off MAC_NOT_READY, so without one the client's poll loop spins forever.
NotReadyHasPendingLookup ==
    \A i \in DOMAIN ready :
        ready[i].status = "MAC_NOT_READY" => \E k \in DOMAIN waitlist : waitlist[k].index = i

\* The epoll set is exactly the control socket and the sockets of the open
\* interfaces, one descriptor per interface: add_interface never registers
\* a descriptor twice (epoll_ctl would fail with EEXIST and abort), and a
\* deleted interface's descriptor, which the kernel hands out again, is
\* no longer watched.
PollerMatchesInterfaces ==
    /\ registered = {CtrlFd} \cup Range(fd_interfaces)
    /\ IsInjective(fd_interfaces)

\* Every request_mac call returns (unless the process aborted): each index
\* it polls eventually stops being MAC_NOT_READY, by a reply or by the
\* 2-second timeout.
RequestMacReturns ==
    (cpc # "idle") ~> (cpc = "idle" \/ crashed)


(* What the spec (spec.md section 8) says of the program, checked against  *)
(* what the code does.                                                     *)

\* A proxy reply claims the address configured for the segment: process_intf
\* answers an ARP request on (interface, stag, ctag) "with sender fields
\* equal to the interface's MAC and the tuple's configured IP".
ProxyReplyClaimsConfiguredIp ==
    [][\A f \in sent' \ sent :
          f.op = "REPLY" =>
             /\ <<f.iface, f.stag, f.ctag>> \in DOMAIN proxy_arp
             /\ f.sip = proxy_arp[<<f.iface, f.stag, f.ctag>>]]_vars

\* timeout_requests gives up on a lookup "no later than 2 seconds + one
\* multiplexer wait interval" after request_mac_do sent it: while the
\* process runs, no waitlist entry has waited longer.  It rests on
\* epoll_wait returning after EPOLL_TIMEOUT and the loop sweeping after
\* every return, and on an entry's time(0) stamp never being refreshed.
TimeoutNotLate ==
    ~crashed => \A k \in DOMAIN waitlist :
                    waitlist[k].real <= (REPLY_TIMEOUT + 1) * TicksPerSec

\* A reply is stranded on descriptor fd when it sits in the socket's
\* receive queue with no edge pending: the loop reads fd only after a
\* wakeup, one frame per wakeup (Poller::poll with EPOLLET, one recv per
\* descriptor in process_intf), so it waits for a later frame.
Stranded(fd, k) ==
    /\ fd \notin notified
    /\ \E j \in 1..Len(sock[fd]) :
          /\ sock[fd][j].op = "REPLY"
          /\ <<sock[fd][j].stag, sock[fd][j].ctag, sock[fd][j].sip>> = k

\* A lookup that "receives a matching REPLY on a tracked interface before
\* timeout transitions to found": timeout_requests never gives up on a
\* waitlist entry while the reply that resolves it has reached one of its
\* sockets and lies there unread for want of a wakeup.
ReplyNotStranded ==
    [][TimeoutRequests =>
          \A k \in Expired : \A fd \in waitlist[k].fds : ~Stranded(fd, k)]_vars

\* The lookups of batch b of the current request_mac that are still waiting
\* for a reply: entries for its address on the tags of one of its tuples.
Pending(b) ==
    \E k \in DOMAIN waitlist, t \in ToSet(call[b].tuples) :
        k = <<t.stag, t.ctag, call[b].ip>>

\* request_mac does not report an index as not found while the ARP
\* request sent for it can still be answered: a reply "before timeout"
\* makes it found.
NoPrematureNotFound ==
    \A b \in 1..Len(call) :
        LET i == call[b].index IN
        (i \in DOMAIN answers /\ answers[i].code = "REQUEST_MAC_NOT_FOUND") => ~Pending(b)

\* A MAC request_mac reports as found for an index is the MAC of a host
\* that has the address asked for under that index, on one of the
\* segments asked for ("never found" when no request could be sent).
FoundIsForRequestedIp ==
    \A b \in 1..Len(call) :
        LET i == call[b].index IN
        (i \in DOMAIN answers /\ answers[i].code = "REQUEST_MAC_FOUND") =>
            /\ \E h \in Hosts : h.mac = answers[i].mac /\ h.ip = call[b].ip
            /\ \E t \in ToSet(call[b].tuples) :
                  <<answers[i].iface, answers[i].stag, answers[i].ctag>> = <<t.iface_name, t.stag, t.ctag>>

\* A MAC the engine records as found belongs to a host on the segment, not
\* to one of the responder's own interfaces: process_intf resolves a lookup
\* with "the frame source hardware address" of a reply a host sent.
FoundMacIsNotOwn ==
    \A i \in DOMAIN ready :
        ready[i].status = "MAC_FOUND" => ready[i].mac \notin Range(IfMac)

\* A lookup is resolved only by a reply on an interface and segment its ARP
\* request went out on: process_intf accepts a reply only from "the entry's
\* tracked descriptors", the descriptors request_mac_do sent on.
FoundWhereAsked ==
    \A i \in DOMAIN ready :
        ready[i].status = "MAC_FOUND" =>
            \E f \in sent : /\ f.op = "REQUEST"
                           /\ <<f.iface, f.stag, f.ctag>> = <<ready[i].iface, ready[i].stag, ready[i].ctag>>

\* The engine never aborts: deleting an interface and handling its traffic
\* "cannot occur" concurrently in the single engine thread (spec section 5).
NoAbort == ~crashed

=============================================================================
