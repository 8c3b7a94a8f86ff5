---------------------------- MODULE Layer1Growth ----------------------------
(***************************************************************************)
(* The algorithms of core/layer1 over every list of confirmed domains up to *)
(* a bound: records arrive one at a time, in every order and with any of    *)
(* their fields unknown, clusters are rebuilt from the whole list as        *)
(* Feedback does, and every fingerprint is matched against them.            *)
(***************************************************************************)
EXTENDS Layer1

CONSTANTS
    IPs, Nameservers, Registrars, Times,    \* what lookups can return
    Tlds, OtherTlds,                        \* suffixes of records, of probes
    Horizon,                                \* no date is later
    MaxRecords,                             \* bound on the list
    MaxUnknown                              \* bound on its unknown fields

ASSUME GrowthAssumption ==
    /\ Horizon \in Nat
    /\ Times \subseteq 0..Horizon

VARIABLE records

\* Each lookup finds its value or nothing, and of one RDAP answer either the
\* registrar or the date may be missing without the other.
Arrivals(domain) ==
    [domain : {domain}, tld : Tlds,
     ip : IPs \cup {NoValue}, ns : Nameservers \cup {NoValue},
     registrar : Registrars \cup {NoValue}, registered : Times \cup {NoValue}]

Unknown(list) ==
    {cell \in (DOMAIN list) \X {"ip", "ns", "registrar", "registered"} :
        list[cell[1]][cell[2]] = NoValue}

Init == records = <<>>

Arrive ==
    /\ Len(records) < MaxRecords
    /\ \E fp \in Arrivals(Len(records) + 1) : records' = Append(records, fp)
    /\ Cardinality(Unknown(records')) <= MaxUnknown

Next == Arrive

Spec == Init /\ [][Next]_records

-----------------------------------------------------------------------------
Clusters == {BuildCluster(records, ip) : ip \in ClusterIPs(records)}

\* The orders in which the database may list the clusters.
Listings ==
    {list \in [1..Cardinality(Clusters) -> Clusters] :
        {list[i] : i \in DOMAIN list} = Clusters}

\* Domains asked about, also under suffixes no record has.  Match does not
\* read their date.
Probes ==
    [domain : {0}, tld : Tlds \cup OtherTlds,
     ip : IPs \cup {NoValue}, ns : Nameservers \cup {NoValue},
     registrar : Registrars \cup {NoValue}, registered : {NoValue}]

\* BuildClusters is the GROUP BY the design asks for: two distinct records
\* share a cluster exactly when they share a known host, no record without an
\* IP is in one, and the count that is stored is the number of its domains.
GroupsByHost ==
    /\ \A i, j \in DOMAIN records :
          i # j =>
            (Same(records[i].ip, records[j].ip)
               <=> \E c \in Clusters : {records[i].domain, records[j].domain}
                                          \subseteq c.domains)
    /\ \A c \in Clusters :
          c.ip # NoValue /\ c.count = Cardinality(c.domains) /\ c.count >= 2

\* The window a burst is measured over covers the registrations of all
\* members and is the shortest whole number of hours that does.
WindowTight ==
    \A ip \in ClusterIPs(records) :
        LET times == RegistrationTimes(records, Group(records, ip))
            gaps  == {t - u : t, u \in times}
            h     == WindowHours(times)
        IN  times # {} =>
              /\ \A g \in gaps : g <= 60 * h
              /\ h = 1 \/ \E g \in gaps : g > 60 * (h - 1)

\* No two fields are enough: whatever a domain and a cluster share, a match
\* cites at least three signals, and the host or the nameserver is one.
ThreeSignals ==
    \A c \in Clusters, fp \in Probes :
        Qualifies(fp, c) =>
            LET fields == MatchedFields(fp, c)
            IN  /\ \A f, g \in DOMAIN Weight : ~ (fields \subseteq {f, g})
                /\ {"hosting_ip", "nameserver"} \cap fields # {}

\* A sparse cluster is no burst: unless the members registered at a rate of at
\* least one in two hours, a match never rests on the registration window, it
\* needs both the host and the nameserver.
SparseNeedsHost ==
    \A ip \in ClusterIPs(records) :
        LET c     == BuildCluster(records, ip)
            times == RegistrationTimes(records, Group(records, ip))
        IN  times = {} \/ 2 * c.count < WindowHours(times) =>
              \A fp \in Probes :
                  Qualifies(fp, c)
                    => {"hosting_ip", "nameserver"} \subseteq MatchedFields(fp, c)

\* The loop of Match, in whatever order the clusters are listed, ends with one
\* of the best clusters over the threshold, and with nil only if none is.
MatchFindsBest ==
    \A fp \in Probes, list \in Listings :
        LET m == Match(fp, list)
        IN  IF m = 0 THEN ~ Matches(fp, list)
            ELSE /\ Qualifies(fp, list[m])
                 /\ \A i \in DOMAIN list :
                       ~ Exceeds(Score(fp, list[i]), Score(fp, list[m]))
=============================================================================
