---------------------------- MODULE EnforcedList ----------------------------
(***************************************************************************)
(* What the extension promises of the redirects Chrome enforces: each call  *)
(* asks for a list, and the redirects go from what one call asked for to    *)
(* what a later one asks for at once.  A site that is listed before and     *)
(* after is not open for a moment in between.  The promise is for the       *)
(* domains that are held; which they are may change with every step.        *)
(***************************************************************************)
CONSTANTS Domain, Details, NoValue

VARIABLES
    asked,      \* what the calls so far ask for: the details of each domain
    enforced,   \* what Chrome redirects, with the details the page shows
    held        \* the domains the promise is for

vars == <<asked, enforced, held>>

Lists == [Domain -> Details \cup {NoValue}]

Init ==
    /\ asked = [d \in Domain |-> NoValue]
    /\ enforced = asked
    /\ held \subseteq Domain

Ask ==
    /\ asked' \in Lists
    /\ held' \subseteq Domain
    /\ UNCHANGED enforced

Enforce ==
    /\ enforced' \in Lists
    /\ held' \subseteq Domain
    /\ \A d \in held' : enforced'[d] = asked[d]
    /\ UNCHANGED asked

Next == Ask \/ Enforce

Spec == Init /\ [][Next]_vars
=============================================================================
