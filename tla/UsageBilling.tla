---------------------------- MODULE UsageBilling ----------------------------
(***************************************************************************)
(* What the usage pipeline promises, without topics, workers or tables:    *)
(* an accepted event is billed, or parked for an administrator or a log    *)
(* reader; nothing is billed that was not accepted.  With ExactlyOnce an   *)
(* event is billed once, otherwise at least once.                          *)
(***************************************************************************)
EXTENDS Naturals

CONSTANTS Events, ExactlyOnce

VARIABLES accepted, billed, parked

billingVars == <<accepted, billed, parked>>

Init ==
    /\ accepted = {}
    /\ billed = [e \in Events |-> 0]
    /\ parked = {}

Accept(e) ==
    /\ e \notin accepted
    /\ accepted' = accepted \union {e}
    /\ UNCHANGED <<billed, parked>>

Bill(e) ==
    /\ e \in accepted
    /\ ExactlyOnce => billed[e] = 0
    /\ billed' = [billed EXCEPT ![e] = @ + 1]
    /\ UNCHANGED <<accepted, parked>>

Park(e) ==
    /\ e \in accepted
    /\ parked' = parked \union {e}
    /\ UNCHANGED <<accepted, billed>>

Next == \E e \in Events : Accept(e) \/ Bill(e) \/ Park(e)

Spec == Init /\ [][Next]_billingVars

Settled(e) == billed[e] > 0 \/ e \in parked

\* An accepted event is not left waiting forever.
Settle(e) == ~Settled(e) /\ (Bill(e) \/ Park(e))

FairSpec == Spec /\ \A e \in Events : WF_billingVars(Settle(e))

=============================================================================
