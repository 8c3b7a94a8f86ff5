------------------------------- MODULE Layer1 -------------------------------
(***************************************************************************)
(* core/layer1: what the Extractor can learn of a domain, how BuildClusters *)
(* groups confirmed domains by hosting IP, the registration-burst score,    *)
(* and the weighted Match of a fingerprint against the clusters.            *)
(*                                                                          *)
(* Go's nil pointers and its empty strings both mean "not known"; every     *)
(* comparison in the code treats them alike, so both are NoValue here.      *)
(* Scores are exact: a burst is a fraction num/den, a score a fraction of   *)
(* hundredths.  Registration times are minutes, so that the ceiling to      *)
(* whole hours is visible.                                                  *)
(***************************************************************************)
EXTENDS Integers, Sequences, FiniteSets

CONSTANT NoValue

(***************************************************************************)
(* A fingerprint is [domain, ip, ns, registrar, tld, registered].  The      *)
(* three lookups of Extract fail independently; an error leaves the fields  *)
(* it would have filled nil and is not reported: Extract never fails.       *)
(***************************************************************************)
Lookups == {"ip", "ns", "rdap"}

Unless(failed, lookup, value) == IF lookup \in failed THEN NoValue ELSE value

Extract(actual, failed) ==
    [actual EXCEPT !.ip         = Unless(failed, "ip", @),
                   !.ns         = Unless(failed, "ns", @),
                   !.registrar  = Unless(failed, "rdap", @),
                   !.registered = Unless(failed, "rdap", @)]

-----------------------------------------------------------------------------
(* cluster.go: records is the sequence of fingerprints BuildClusters gets. *)

\* Mutant: records without an IP are grouped too (no nil check).
AllIPs(records) == {records[i].ip : i \in DOMAIN records}

KnownIPs(records) == {records[i].ip : i \in DOMAIN records} \ {NoValue}

Group(records, ip) == {i \in DOMAIN records : records[i].ip = ip}

\* Mutant: one record is enough for a cluster.
SingletonIPs(records) == KnownIPs(records)

\* The IPs that become clusters: those of at least two records.
ClusterIPs(records) ==
    {ip \in KnownIPs(records) :
        \E i, j \in Group(records, ip) : i # j}

\* The first known value of a field among the group, in the order of records.
FirstKnown(records, group, field) ==
    LET known == {i \in group : records[i][field] # NoValue}
    IN  IF known = {} THEN NoValue
        ELSE records[CHOOSE i \in known : \A j \in known : i <= j][field]

Earliest(times) == CHOOSE t \in times : \A u \in times : t <= u
Latest(times)   == CHOOSE t \in times : \A u \in times : u <= t

\* Mutant: the window is rounded down.
FloorHours(times) ==
    LET hours == (Latest(times) - Earliest(times)) \div 60
    IN  IF hours < 1 THEN 1 ELSE hours

\* Whole hours between the first and the last registration, at least one.
WindowHours(times) ==
    LET hours == (Latest(times) - Earliest(times) + 59) \div 60
    IN  IF hours < 1 THEN 1 ELSE hours

\* Mutant: the rate is not capped.
Uncapped(count, times) ==
    IF times = {} THEN NoValue ELSE [num |-> count, den |-> WindowHours(times)]

\* domains per hour, capped at 1; not known when no member has a date.
BurstScore(count, times) ==
    IF times = {} THEN NoValue
    ELSE LET hours == WindowHours(times)
         IN  [num |-> IF count > hours THEN hours ELSE count, den |-> hours]

RegistrationTimes(records, group) ==
    {records[i].registered : i \in group} \ {NoValue}

BuildCluster(records, ip) ==
    LET group == Group(records, ip)
    IN  [ip        |-> ip,
         ns        |-> FirstKnown(records, group, "ns"),
         registrar |-> FirstKnown(records, group, "registrar"),
         tld       |-> FirstKnown(records, group, "tld"),
         domains   |-> {records[i].domain : i \in group},
         count     |-> Cardinality(group),
         burst     |-> BurstScore(Cardinality(group),
                                  RegistrationTimes(records, group))]

-----------------------------------------------------------------------------
(* matcher.go: weights in hundredths, the threshold 0.6 likewise. *)

Weight == [hosting_ip |-> 30, nameserver |-> 25, registration_burst |-> 25,
           registrar |-> 10, tld |-> 10]

\* Mutant: the host and a full burst are enough.
LowThreshold == 55

MatchThreshold == 60

Same(x, y) == x # NoValue /\ x = y

\* Mutant: any burst that is known counts in full.
AnyBurst(c) == c.burst # NoValue

\* The burst counts from one half upwards.
Bursting(c) == c.burst # NoValue /\ 2 * c.burst.num >= c.burst.den

MatchedFields(fp, c) ==
    {f \in DOMAIN Weight :
        \/ f = "hosting_ip"         /\ Same(fp.ip, c.ip)
        \/ f = "nameserver"         /\ Same(fp.ns, c.ns)
        \/ f = "registrar"          /\ Same(fp.registrar, c.registrar)
        \/ f = "tld"                /\ Same(fp.tld, c.tld)
        \/ f = "registration_burst" /\ Bursting(c)}

\* What a field that does not depend on the burst adds.
Points(fields, f) == IF f \in fields THEN Weight[f] ELSE 0

FixedPoints(fields) ==
    Points(fields, "hosting_ip") + Points(fields, "nameserver")
      + Points(fields, "registrar") + Points(fields, "tld")

\* The score in hundredths, as a fraction: the burst adds 25 * num/den.
Score(fp, c) ==
    LET fields == MatchedFields(fp, c)
    IN  IF Bursting(c)
        THEN [num |-> FixedPoints(fields) * c.burst.den
                        + Weight.registration_burst * c.burst.num,
              den |-> c.burst.den]
        ELSE [num |-> FixedPoints(fields), den |-> 1]

Reaches(score, hundredths) == score.num >= hundredths * score.den
Exceeds(s, t) == s.num * t.den > t.num * s.den

Qualifies(fp, c) == Reaches(Score(fp, c), MatchThreshold)

\* Mutant: the last of the best wins over a better one seen before.
KeepLast(fp, clusters) ==
    LET best[n \in 0..Len(clusters)] ==
          IF n = 0 THEN 0
          ELSE IF Qualifies(fp, clusters[n]) THEN n ELSE best[n - 1]
    IN  best[Len(clusters)]

\* The loop of Match: the position of its result among the clusters, 0 for
\* nil.  A later cluster wins only with a strictly higher score.
Match(fp, clusters) ==
    LET best[n \in 0..Len(clusters)] ==
          LET before == best[n - 1]
          IN  IF n = 0 THEN 0
              ELSE IF /\ Qualifies(fp, clusters[n])
                      /\ \/ before = 0
                         \/ Exceeds(Score(fp, clusters[n]),
                                    Score(fp, clusters[before]))
                   THEN n ELSE before
    IN  best[Len(clusters)]

\* What MatchSiblings asks of Match: is there a result at all?
Matches(fp, clusters) == \E i \in DOMAIN clusters : Qualifies(fp, clusters[i])
=============================================================================
