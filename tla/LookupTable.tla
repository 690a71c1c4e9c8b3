---------------------------- MODULE LookupTable -----------------------------
(***************************************************************************)
(* What the resolution engine promises the client that polls it: for each *)
(* index, a lookup is issued (the index reads "not ready"), and it then    *)
(* settles exactly once, as found or as not found, unless it is issued     *)
(* again.  A settled answer is final until the next issue.  While the      *)
(* process runs, every issued lookup eventually settles.                   *)
(*                                                                         *)
(* This is the abstract view of the ready table of ARPResponder            *)
(* (src/arp_responder/arpresponder_msee.cc); ArpSystem maps its state to   *)
(* this module's and checks that it implements Spec.                       *)
(***************************************************************************)
CONSTANTS Indices       \* the indices a caller may use

VARIABLES
    status,             \* index -> "MAC_NOT_READY" | "MAC_FOUND" | "MAC_NOT_FOUND"
    up                  \* the process is running

vars == <<status, up>>

Settled == {"MAC_FOUND", "MAC_NOT_FOUND"}

Init == status = <<>> /\ up = TRUE

\* A batch of lookups is started: each index in I now reads "not ready",
\* whatever it read before.
Issue(I) ==
    /\ up
    /\ status' = [i \in DOMAIN status \cup I |->
                     IF i \in I THEN "MAC_NOT_READY" ELSE status[i]]
    /\ UNCHANGED up

\* Some of the lookups still pending settle, each to an answer of its own.
Settle(S) ==
    /\ up
    /\ S # {}
    /\ \A i \in S : i \in DOMAIN status /\ status[i] = "MAC_NOT_READY"
    /\ \E r \in [S -> Settled] :
          status' = [i \in DOMAIN status |-> IF i \in S THEN r[i] ELSE status[i]]
    /\ UNCHANGED up

\* The process stops; nothing settles afterwards.
Halt == up /\ up' = FALSE /\ UNCHANGED status

Next ==
    \/ \E I \in SUBSET Indices : Issue(I)
    \/ \E S \in SUBSET Indices : Settle(S)
    \/ Halt

\* A pending lookup is not left pending for ever while the process runs.
Fairness ==
    \A i \in Indices : WF_vars(\E S \in SUBSET Indices : i \in S /\ Settle(S))

Spec == Init /\ [][Next]_vars /\ Fairness

TypeOK ==
    /\ DOMAIN status \subseteq Indices
    /\ \A i \in DOMAIN status : status[i] \in Settled \cup {"MAC_NOT_READY"}
    /\ up \in BOOLEAN

=============================================================================
