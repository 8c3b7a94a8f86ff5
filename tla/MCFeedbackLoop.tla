--------------------------- MODULE MCFeedbackLoop ---------------------------
(***************************************************************************)
(* Three domains: near1 and near2 share a host, a nameserver and a          *)
(* registration hour; far lives elsewhere but uses the same nameserver and  *)
(* registrar, so that only the burst can bring it over the threshold.       *)
(***************************************************************************)
EXTENDS FeedbackLoop, TLC

CONSTANTS near1, near2, far, w1, w2, ip1, ip2, ns1, reg1, site

MCDomain == {near1, near2, far}
MCSeeded == {far}
NoDomain == {}

Site(d, ip, t) == [domain |-> d, ip |-> ip, ns |-> ns1, registrar |-> reg1,
                   tld |-> site, registered |-> t]

MCActual == (near1 :> Site(near1, ip1, 0)) @@ (near2 :> Site(near2, ip1, 30))
              @@ (far :> Site(far, ip2, 5000))

\* A file for each domain, or one that near1 and near2 share, as "a:b" and
\* "a_b" do.
OwnFiles    == [d \in MCDomain |-> d]
SharedFiles == (near1 :> near1) @@ (near2 :> near1) @@ (far :> far)

NoFailures   == {{}}
SomeFailures == {{}, {"ip"}}

OneWorker  == {w1}
TwoWorkers == {w1, w2}

WorkerSymmetry == Permutations(Worker)
=============================================================================
