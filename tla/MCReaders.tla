------------------------------ MODULE MCReaders ------------------------------
(***************************************************************************)
(* The infrastructure of MCFeedbackLoop.  The script's file names far, which *)
(* nobody visits in the interesting behaviours, and near2, which Layer 2     *)
(* may confirm before or while the script runs.                             *)
(***************************************************************************)
EXTENDS Readers, TLC

CONSTANTS near1, near2, far, w1, w2, ip1, ip2, ns1, reg1, site

MCDomain == {near1, near2, far}
MCSeeded == {far}
MCListed == {near2, far}
NoDomain == {}

Site(d, ip, t) == [domain |-> d, ip |-> ip, ns |-> ns1, registrar |-> reg1,
                   tld |-> site, registered |-> t]

MCActual == (near1 :> Site(near1, ip1, 0)) @@ (near2 :> Site(near2, ip1, 30))
              @@ (far :> Site(far, ip2, 5000))

MCFilters == {NoFilter, [status |-> "blocked", source |-> "L2"]}

OwnFiles == [d \in MCDomain |-> d]

NoFailures   == {{}}

TwoWorkers == {w1, w2}

WorkerSymmetry == Permutations(Worker)
=============================================================================
