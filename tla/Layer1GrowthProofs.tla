------------------------- MODULE Layer1GrowthProofs -------------------------
(***************************************************************************)
(* What BuildClusters and Match promise, for every list of records and      *)
(* every set of hosts, nameservers and dates: the facts of Layer1Proofs     *)
(* applied to the lists that can arrive.                                    *)
(***************************************************************************)
EXTENDS Layer1Growth, Layer1Proofs, FunctionTheorems

\* The dates of the records are those RDAP can return.
Dated ==
    /\ DOMAIN records \in SUBSET Nat
    /\ IsFiniteSet(DOMAIN records)
    /\ \A i \in DOMAIN records : records[i].registered \in Times \cup {NoValue}

RecordsType ==
    records \in Seq(UNION {Arrivals(n) : n \in Nat})

LEMMA RecordsTyped == Spec => []RecordsType
<1>. DEFINE All == UNION {Arrivals(n) : n \in Nat}
<1>1. Init => RecordsType
  BY DEF Init, RecordsType
<1>2. RecordsType /\ [Next]_records => RecordsType'
  <2>1. SUFFICES ASSUME RecordsType, Arrive PROVE RecordsType'
    BY DEF Next, RecordsType
  <2>2. PICK fp \in Arrivals(Len(records) + 1) : records' = Append(records, fp)
    BY <2>1 DEF Arrive
  <2>3. records \in Seq(All)
    BY <2>1 DEF RecordsType
  <2>4. Len(records) + 1 \in Nat
    BY <2>3
  <2>5. fp \in All
    BY <2>2, <2>4
  <2>. HIDE DEF All
  <2>6. Append(records, fp) \in Seq(All)
    BY <2>3, <2>5
  <2>. QED  BY <2>2, <2>6 DEF RecordsType, All
<1>. QED  BY <1>1, <1>2, PTL DEF Spec

LEMMA DatedRecords == RecordsType => Dated
<1>. DEFINE All == UNION {Arrivals(n) : n \in Nat}
<1>1. SUFFICES ASSUME records \in Seq(All) PROVE Dated
  BY DEF RecordsType
<1>2. \A r \in All : r.registered \in Times \cup {NoValue}
  BY DEF Arrivals
<1>. HIDE DEF All
<1>3. DOMAIN records = 1..Len(records) /\ Len(records) \in Nat
  BY <1>1
<1>4. IsFiniteSet(1..Len(records))
  BY <1>3, FS_Interval
<1>5. \A i \in DOMAIN records : records[i] \in All
  BY <1>1
<1>. QED  BY <1>2, <1>3, <1>4, <1>5 DEF Dated

\* Every cluster that is built has a burst the matcher can weigh.
LEMMA BuiltBurst ==
    ASSUME Dated, NEW ip
    PROVE  IsBurst(BuildCluster(records, ip).burst)
<1>. DEFINE group == Group(records, ip)
            times == RegistrationTimes(records, group)
<1>1. group \subseteq DOMAIN records
  BY DEF Group
<1>2. Cardinality(group) \in Nat
  BY <1>1, FS_Subset, FS_CardinalityType DEF Dated
<1>3. times \in SUBSET (0..Horizon)
  BY <1>1, GrowthAssumption DEF Dated, RegistrationTimes
<1>4. IsBurst(BurstScore(Cardinality(group), times))
  BY <1>2, <1>3, BurstIsFraction, GrowthAssumption DEF IsBurst
<1>. QED  BY <1>4 DEF BuildCluster

\* Whatever the confirmed domains and the domain asked about: two fields are
\* never enough for a match.
THEOREM AlwaysThreeSignals == Spec => []ThreeSignals
<1>1. Dated => ThreeSignals
  <2>1. SUFFICES ASSUME Dated, NEW fp \in Probes, NEW c \in Clusters,
                        Qualifies(fp, c)
                 PROVE  /\ \A f, g \in DOMAIN Weight :
                              ~ (MatchedFields(fp, c) \subseteq {f, g})
                        /\ {"hosting_ip", "nameserver"} \cap MatchedFields(fp, c) # {}
    BY DEF ThreeSignals
  <2>2. PICK ip : c = BuildCluster(records, ip)
    BY <2>1 DEF Clusters
  <2>3. IsBurst(c.burst)
    BY <2>1, <2>2, BuiltBurst
  <2>4. \A f, g : ~ (MatchedFields(fp, c) \subseteq {f, g})
    BY <2>1, <2>3, MatchCitesThree
  <2>5. Same(fp.ip, c.ip) \/ Same(fp.ns, c.ns)
    BY <2>1, <2>3, MatchNeedsHostOrName
  <2>6. {"hosting_ip", "nameserver"} \cap MatchedFields(fp, c) # {}
    BY <2>5 DEF MatchedFields, Weight
  <2>. QED  BY <2>4, <2>6
<1>. QED  BY <1>1, RecordsTyped, DatedRecords, PTL

-----------------------------------------------------------------------------
(* Groups *)

\* The domain of a record is its place in the list.
Numbered == \A i \in DOMAIN records : records[i].domain = i

LEMMA RecordsNumbered == Spec => []Numbered
<1>. DEFINE All == UNION {Arrivals(n) : n \in Nat}
<1>1. Init => Numbered
  BY DEF Init, Numbered
<1>2. RecordsType /\ Numbered /\ [Next]_records => Numbered'
  <2>1. SUFFICES ASSUME RecordsType, Numbered, Arrive PROVE Numbered'
    BY DEF Next, Numbered
  <2>2. PICK fp \in Arrivals(Len(records) + 1) : records' = Append(records, fp)
    BY <2>1 DEF Arrive
  <2>3. fp.domain = Len(records) + 1
    BY <2>2 DEF Arrivals
  <2>4. records \in Seq(All)
    BY <2>1 DEF RecordsType
  <2>. HIDE DEF All
  <2>5. /\ DOMAIN records' = 1..Len(records) + 1 /\ Len(records) \in Nat
        /\ DOMAIN records = 1..Len(records)
        /\ \A i \in DOMAIN records : records'[i] = records[i]
        /\ records'[Len(records) + 1] = fp
    BY <2>2, <2>4
  <2>6. \A i \in DOMAIN records' : i \in DOMAIN records \/ i = Len(records) + 1
    BY <2>5
  <2>. QED  BY <2>1, <2>3, <2>5, <2>6 DEF Numbered
<1>. QED  BY <1>1, <1>2, RecordsTyped, PTL DEF Spec

\* The domains of a cluster are the records of its host: two at least.
LEMMA BuiltGroup ==
    ASSUME Dated, Numbered, NEW ip \in ClusterIPs(records)
    PROVE  LET c == BuildCluster(records, ip)
           IN  /\ c.ip = ip /\ ip # NoValue
               /\ c.domains = Group(records, ip)
               /\ c.count = Cardinality(Group(records, ip))
               /\ c.count \in Nat /\ c.count >= 2
<1>. DEFINE group == Group(records, ip)
<1>1. ip # NoValue
  BY DEF ClusterIPs, KnownIPs
<1>2. group \in SUBSET DOMAIN records
  BY DEF Group
<1>3. {records[i].domain : i \in group} = group
  BY <1>2 DEF Numbered
<1>4. IsFiniteSet(group) /\ Cardinality(group) \in Nat
  BY <1>2, FS_Subset, FS_CardinalityType DEF Dated
<1>5. PICK i \in group, j \in group : i # j
  BY DEF ClusterIPs
<1>6. Cardinality({i} \cup {j}) = 2 /\ {i} \cup {j} \in SUBSET group
  <2>1. IsFiniteSet({i}) /\ Cardinality({i}) = 1 /\ j \notin {i}
    BY <1>5, FS_Singleton
  <2>. QED  BY <2>1, FS_AddElement
<1>7. Cardinality(group) >= 2
  <2>1. Cardinality({i} \cup {j}) <= Cardinality(group)
    BY <1>4, <1>6, FS_Subset
  <2>. QED  BY <1>4, <1>6, <2>1
<1>. HIDE DEF group
<1>8. BuildCluster(records, ip).domains = {records[n].domain : n \in group}
      /\ BuildCluster(records, ip).count = Cardinality(group)
      /\ BuildCluster(records, ip).ip = ip
  BY DEF BuildCluster, group
<1>. QED  BY <1>1, <1>3, <1>4, <1>7, <1>8 DEF group

\* Whatever arrives in whatever order, BuildClusters groups by known host: two
\* records share a cluster exactly when they share one, and the stored count
\* is the number of its domains.
THEOREM AlwaysGroupsByHost == Spec => []GroupsByHost
<1>1. Dated /\ Numbered => GroupsByHost
  <2>1. SUFFICES ASSUME Dated, Numbered PROVE GroupsByHost
    OBVIOUS
  <2>2. ASSUME NEW c \in Clusters
        PROVE  c.ip # NoValue /\ c.count = Cardinality(c.domains) /\ c.count >= 2
    <3>1. PICK ip \in ClusterIPs(records) : c = BuildCluster(records, ip)
      BY DEF Clusters
    <3>. QED  BY <2>1, <3>1, BuiltGroup
  <2>3. ASSUME NEW i \in DOMAIN records, NEW j \in DOMAIN records, i # j
        PROVE  Same(records[i].ip, records[j].ip)
                 <=> \E c \in Clusters : {records[i].domain, records[j].domain}
                                           \subseteq c.domains
    <3>1. records[i].domain = i /\ records[j].domain = j
      BY <2>1 DEF Numbered
    <3>2. ASSUME Same(records[i].ip, records[j].ip)
          PROVE  \E c \in Clusters : {i, j} \subseteq c.domains
      <4>1. i \in Group(records, records[i].ip) /\ j \in Group(records, records[i].ip)
        BY <3>2 DEF Group, Same
      <4>2. records[i].ip \in ClusterIPs(records)
        BY <2>3, <3>2, <4>1 DEF ClusterIPs, KnownIPs, Same
      <4>3. BuildCluster(records, records[i].ip) \in Clusters
        BY <4>2 DEF Clusters
      <4>4. {i, j} \subseteq BuildCluster(records, records[i].ip).domains
        BY <2>1, <4>1, <4>2, BuiltGroup
      <4>. QED  BY <4>3, <4>4
    <3>3. ASSUME NEW c \in Clusters, {i, j} \subseteq c.domains
          PROVE  Same(records[i].ip, records[j].ip)
      <4>1. PICK ip \in ClusterIPs(records) : c = BuildCluster(records, ip)
        BY DEF Clusters
      <4>2. c.domains = Group(records, ip) /\ ip # NoValue
        BY <2>1, <4>1, BuiltGroup
      <4>. QED  BY <3>3, <4>2 DEF Group, Same
    <3>. QED  BY <3>1, <3>2, <3>3
  <2>. QED  BY <2>2, <2>3 DEF GroupsByHost
<1>. QED  BY <1>1, RecordsTyped, DatedRecords, RecordsNumbered, PTL

-----------------------------------------------------------------------------
(* Bursts *)

LEMMA TimesBounded ==
    ASSUME Dated, NEW ip
    PROVE  RegistrationTimes(records, Group(records, ip)) \in SUBSET (0..Horizon)
BY GrowthAssumption DEF Dated, RegistrationTimes, Group

\* The window of a burst is the shortest number of whole hours that covers the
\* registrations of all members, whatever their dates.
THEOREM AlwaysWindowTight == Spec => []WindowTight
<1>1. Dated => WindowTight
  <2>1. SUFFICES ASSUME Dated, NEW ip \in ClusterIPs(records),
                        RegistrationTimes(records, Group(records, ip)) # {}
                 PROVE  LET times == RegistrationTimes(records, Group(records, ip))
                            gaps  == {t - u : t, u \in times}
                            h     == WindowHours(times)
                        IN  /\ \A g \in gaps : g <= 60 * h
                            /\ h = 1 \/ \E g \in gaps : g > 60 * (h - 1)
    BY DEF WindowTight
  <2>. DEFINE times == RegistrationTimes(records, Group(records, ip))
  <2>2. times \in SUBSET (0..Horizon)
    BY <2>1, TimesBounded
  <2>3. /\ \A t, u \in times : t - u <= 60 * WindowHours(times)
        /\ \/ WindowHours(times) = 1
           \/ \E t, u \in times : t - u > 60 * (WindowHours(times) - 1)
    BY <2>1, <2>2, WindowCovers, GrowthAssumption
  <2>. HIDE DEF times
  <2>4. /\ \A g \in {t - u : t, u \in times} : g <= 60 * WindowHours(times)
        /\ \/ WindowHours(times) = 1
           \/ \E g \in {t - u : t, u \in times} : g > 60 * (WindowHours(times) - 1)
    BY <2>3
  <2>. QED  BY <2>4 DEF times
<1>. QED  BY <1>1, RecordsTyped, DatedRecords, PTL

\* Members that registered at less than one in two hours are no burst: to match
\* their cluster a domain needs both its host and its nameserver.
THEOREM AlwaysSparseNeedsHost == Spec => []SparseNeedsHost
<1>1. Dated /\ Numbered => SparseNeedsHost
  <2>1. SUFFICES ASSUME Dated, Numbered, NEW fp \in Probes, NEW ip \in ClusterIPs(records),
                        Qualifies(fp, BuildCluster(records, ip)),
                        LET times == RegistrationTimes(records, Group(records, ip))
                        IN  \/ times = {}
                            \/ 2 * BuildCluster(records, ip).count < WindowHours(times)
                 PROVE  {"hosting_ip", "nameserver"}
                           \subseteq MatchedFields(fp, BuildCluster(records, ip))
    BY DEF SparseNeedsHost
  <2>. DEFINE c      == BuildCluster(records, ip)
              times  == RegistrationTimes(records, Group(records, ip))
              fields == MatchedFields(fp, c)
  <2>2. c.count \in Nat /\ c.burst = BurstScore(c.count, times)
    BY <2>1, BuiltGroup DEF BuildCluster
  <2>3. ~ Bursting(c)
    <3>1. CASE times = {}
      BY <2>2, <3>1 DEF BurstScore, Bursting
    <3>2. CASE times # {}
      <4>1. WindowHours(times) \in Nat \ {0}
        BY <2>1, <3>2, TimesBounded, WindowIsPositive, GrowthAssumption
      <4>2. 2 * c.count < WindowHours(times)
        BY <2>1, <3>2
      <4>3. c.burst = [num |-> c.count, den |-> WindowHours(times)]
        BY <2>2, <3>2, <4>1, <4>2 DEF BurstScore
      <4>. QED  BY <2>2, <4>1, <4>2, <4>3 DEF Bursting
    <3>. QED  BY <3>1, <3>2
  <2>4. FixedPoints(fields) >= 60
    <3>1. IsBurst(c.burst)
      BY <2>1, BuiltBurst
    <3>2. FixedPoints(fields) + (IF Bursting(c) THEN 25 ELSE 0) >= 60
      BY <2>1, <3>1, QualifiesBound
    <3>3. FixedPoints(fields) \in Nat
      BY FixedPointsValue
    <3>. QED  BY <2>3, <3>2, <3>3
  <2>5. "hosting_ip" \in fields /\ "nameserver" \in fields
    <3>. HIDE DEF fields
    <3>. QED  BY <2>4, FixedPointsValue
  <2>. QED  BY <2>5
<1>. QED  BY <1>1, RecordsTyped, DatedRecords, RecordsNumbered, PTL

-----------------------------------------------------------------------------
(* Matching *)

LEMMA ListingTyped ==
    ASSUME Dated, NEW list \in Listings
    PROVE  /\ Len(list) \in Nat /\ DOMAIN list = 1..Len(list)
           /\ \A i \in DOMAIN list : list[i] \in Clusters
<1>. DEFINE D == {i \in DOMAIN records : records[i].ip \in ClusterIPs(records)}
            f == [i \in D |-> BuildCluster(records, records[i].ip)]
<1>1. IsFiniteSet(D)
  BY FS_Subset DEF Dated
<1>2. f \in [D -> Clusters]
  BY DEF Clusters
<1>3. ASSUME NEW c \in Clusters PROVE \E i \in D : f[i] = c
  <2>1. PICK ip \in ClusterIPs(records) : c = BuildCluster(records, ip)
    BY DEF Clusters
  <2>2. PICK i \in DOMAIN records : records[i].ip = ip
    BY DEF ClusterIPs, KnownIPs
  <2>. QED  BY <2>1, <2>2
<1>. HIDE DEF f, D
<1>4. f \in Surjection(D, Clusters)
  BY <1>2, <1>3, Fun_IsSurj
<1>5. Cardinality(Clusters) \in Nat
  BY <1>1, <1>4, FS_Surjection, FS_CardinalityType
<1>6. list \in [1..Cardinality(Clusters) -> Clusters]
  BY DEF Listings
<1>7. list \in Seq(Clusters)
  BY <1>5, <1>6
<1>. QED  BY <1>6, <1>7

\* Whatever order the clusters are listed in, Match returns one of the best of
\* those over the threshold, and nil only if there is none.
THEOREM AlwaysMatchFindsBest == Spec => []MatchFindsBest
<1>1. Dated => MatchFindsBest
  <2>1. SUFFICES ASSUME Dated, NEW fp \in Probes, NEW list \in Listings
                 PROVE  LET m == Match(fp, list)
                        IN  IF m = 0 THEN ~ Matches(fp, list)
                            ELSE /\ Qualifies(fp, list[m])
                                 /\ \A i \in DOMAIN list :
                                       ~ Exceeds(Score(fp, list[i]), Score(fp, list[m]))
    BY DEF MatchFindsBest
  <2>2. /\ Len(list) \in Nat /\ DOMAIN list = 1..Len(list)
        /\ \A i \in DOMAIN list : list[i] \in Clusters
    BY <2>1, ListingTyped
  <2>3. \A i \in DOMAIN list : IsBurst(list[i].burst)
    BY <2>1, <2>2, BuiltBurst DEF Clusters
  <2>4. BestOf(fp, list, Match(fp, list), Len(list))
    BY <2>2, <2>3, MatchIsBest
  <2>. QED  BY <2>2, <2>4 DEF BestOf, Matches
<1>. QED  BY <1>1, RecordsTyped, DatedRecords, PTL
=============================================================================
