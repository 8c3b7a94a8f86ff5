---------------------------- MODULE VerdictLedger ----------------------------
(***************************************************************************)
(* What the server promises of the domains table, whatever happens inside:  *)
(* a domain is blocked by Layer 1 only on the strength of a cluster that    *)
(* two distinct Layer 2 confirmations on one host built (the cold start:    *)
(* nothing is pre-empted before there is evidence), and a false-positive    *)
(* report takes a domain off the list at once.                              *)
(***************************************************************************)
CONSTANTS Domain, NoValue, SameHost(_, _)

VARIABLES verdicts, confirmed

vars == <<verdicts, confirmed>>

Init ==
    /\ verdicts \in [Domain -> [status : {"absent", "candidate"}, source : {NoValue}]]
    /\ confirmed = {}

\* A domain is seen for the first time.
Register(d) ==
    /\ verdicts[d].status = "absent"
    /\ verdicts' = [verdicts EXCEPT ![d].status = "candidate"]
    /\ UNCHANGED confirmed

\* Layer 2 confirms a domain that is on record.
Confirm(d) ==
    /\ verdicts[d].status # "absent"
    /\ verdicts' = [verdicts EXCEPT ![d] = [status |-> "blocked", source |-> "L2"]]
    /\ confirmed' = confirmed \cup {d}

\* Two confirmed domains share a host: there is a cluster to match against.
Evidence == \E e, f \in confirmed : e # f /\ SameHost(e, f)

Preempt(d) ==
    /\ verdicts[d].status # "absent"
    /\ Evidence
    /\ verdicts' = [verdicts EXCEPT ![d] = [status |-> "blocked", source |-> "L1"]]
    /\ UNCHANGED confirmed

Retract(d) ==
    /\ verdicts[d].status # "absent"
    /\ verdicts' = [verdicts EXCEPT ![d].status = "false_pos"]
    /\ UNCHANGED confirmed

Next == \E d \in Domain : Register(d) \/ Confirm(d) \/ Preempt(d) \/ Retract(d)

Spec == Init /\ [][Next]_vars
=============================================================================
