---------------------------- MODULE ExampleClient ----------------------------
(***************************************************************************)
(* The session of the example client (src/arp_responder/                  *)
(* arpresponder_msee_client.cc) run against the responder: add eth0,       *)
(* configure 10.20.0.1 on (10, 20) and 50.100.0.1 on (50, 100), resolve    *)
(* the two batches prepare_tuples builds, remove both addresses and the    *)
(* interface.  The thrift calls go one at a time through the Cmd client   *)
(* of ArpSystem; the hosts behind eth0 behave as in ArpSystem.             *)
(***************************************************************************)
EXTENDS ArpSystem

CONSTANTS Eth0          \* the interface "eth0"

VARIABLE step           \* the next call of the session

\* Addresses of the example, as the integers the client passes.
Ip1020  == 169082881    \* 0x0a140001, 10.20.0.1
Ip50100 == 845414401    \* 0x32640001, 50.100.0.1
IpX     == 287454020    \* 0x11223344
IpY     == 1432748032   \* 0x55660000

T(s, c) == [iface_name |-> Eth0, stag |-> s, ctag |-> c]

\* prepare_tuples: the tuple vector is not cleared between the two batches,
\* so the second batch holds all four tuples.
PrepareTuples ==
    << [index |-> 0, ip |-> IpX, tuples |-> <<T(10, 20), T(50, 100)>>],
       [index |-> 1, ip |-> IpY, tuples |-> <<T(10, 20), T(50, 100), T(20, 30), T(60, 110)>>] >>

Call(c)  == [kind |-> "call", cmds |-> c, reqs |-> <<>>]
Mac(r)   == [kind |-> "request_mac", cmds |-> <<>>, reqs |-> r]

\* main: the calls in the order the client makes them
Script ==
    << Call(<<Simple("ADD_INTERFACE", Eth0)>>),
       Call(<<Request("ADD_IP", Eth0, 10, 20, Ip1020, 0)>>),
       Call(<<Request("ADD_IP", Eth0, 50, 100, Ip50100, 0)>>),
       Mac(PrepareTuples),
       Call(<<Request("DEL_IP", Eth0, 50, 100, 0, 0)>>),
       Call(<<Request("DEL_IP", Eth0, 10, 20, 0, 0)>>),
       Call(<<Simple("DEL_INTERFACE", Eth0)>>) >>

\* The client makes its next call once the previous one has returned.
ScriptStep ==
    /\ step <= Len(Script)
    /\ IF Script[step].kind = "call"
       THEN StartCall(Script[step].cmds)
       ELSE StartRequestMac(Script[step].reqs)
    /\ step' = step + 1

ExampleInit == Init /\ step = 1

ClientSteps == ClientSend \/ ClientRecv \/ ClientPoll \/ ClientPollRecv

ExampleNext ==
    \/ EngineNext /\ UNCHANGED <<clientVars, step>>
    \/ Tick /\ UNCHANGED <<clientVars, step>>
    \/ ScriptStep /\ UNCHANGED <<engineVars, sock, sent, crashed>>
    \/ ClientSteps /\ UNCHANGED <<engineVars, sock, sent, crashed, step>>
    \/ NetNext /\ UNCHANGED step

exampleVars == <<vars, step>>

\* The client program runs its calls to the end, as the engine and time
\* proceed in ArpSystem.
ExampleFairness ==
    /\ WF_exampleVars(EngineNext /\ UNCHANGED <<clientVars, step>>)
    /\ WF_exampleVars(Tick /\ UNCHANGED <<clientVars, step>>)
    /\ WF_exampleVars(ScriptStep /\ UNCHANGED <<engineVars, sock, sent, crashed>>)
    /\ WF_exampleVars(ClientSteps /\ UNCHANGED <<engineVars, sock, sent, crashed, step>>)

ExampleSpec == ExampleInit /\ [][ExampleNext]_exampleVars /\ ExampleFairness

----------------------------------------------------------------------------

\* The example session runs to its end: every call, request_mac with its
\* two batches included, returns, whether or not a host ever answers,
\* unless the engine aborted.
SessionCompletes ==
    <>((step > Len(Script) /\ cpc = "idle") \/ crashed)

=============================================================================
