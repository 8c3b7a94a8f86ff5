---------------------------- MODULE ReadersProofs ----------------------------
(***************************************************************************)
(* Theorems about Readers: what a page or the script puts together from     *)
(* several statements is true of the tables at its end, because what each   *)
(* statement found stays true while the loop goes on (Growing).             *)
(***************************************************************************)
EXTENDS Readers, FeedbackLoopProofs

-----------------------------------------------------------------------------
(* The inductive invariant *)

\* Decide logs first: every confirmation has its detection.
ConfirmedLogged == \A d \in confirmed : <<d, "judol">> \in logged

\* The row a page began with still tells of the host its domain is on ...
PageTrue ==
    /\ reader.at \in {"detections", "cluster"} => reader.cluster # 0
    /\ reader.at \in {"domain", "detections", "cluster", "detail"} =>
          /\ reader.domain \in Domain
          /\ reader.cluster # 0 =>
                /\ reader.domain \in confirmed
                /\ reader.cluster \in DOMAIN clusters
                /\ Actual[reader.domain].ip = clusters[reader.cluster].ip

\* ... and so does what it has added since.
AdditionsTrue ==
    /\ reader.at \in {"detections", "cluster", "detail"} /\ reader.cluster # 0 =>
          "judol" \in reader.detections
    /\ reader.at \in {"cluster", "detail"} /\ reader.shared # NoValue =>
          \E g \in confirmed : /\ Actual[g].ns = reader.shared
                               /\ Actual[g].ip = Actual[reader.domain].ip
    /\ reader.at = "detail" =>
          \A e \in reader.siblings : e \in confirmed /\ SameHost(e, reader.domain)

ReadersInv == ConfirmedLogged /\ PageTrue /\ AdditionsTrue /\ CatchesEarned

-----------------------------------------------------------------------------
(* Its steps *)

\* The loop adds to the confirmed domains only what it has logged.
LEMMA LoggedStep ==
    ASSUME IInv, ConfirmedLogged, [Next]_vars
    PROVE  ConfirmedLogged'
<1>1. logged \subseteq logged'
  BY TablesGrow DEF Growing
<1>2. ASSUME NEW w \in Worker, Confirm(w) PROVE ConfirmedLogged'
  BY <1>1, <1>2 DEF Confirm, ConfirmedLogged, IInv, WorkerInv, Justified
<1>3. CASE confirmed' = confirmed
  BY <1>1, <1>3 DEF ConfirmedLogged
<1>. QED
  BY <1>2, <1>3
     DEF Next, Step, vars, history, Analyze, VisionFails, VisionAnswers,
         EnsureForLog, InsertDetection, ListConfirmed, ExtractCached, ExtractMiss,
         LookupDone, ScoreFingerprint, GroupByIP, SelectCluster, WriteCluster,
         AttachDomains, FeedbackDone, ListCandidates, ListClusters,
         BlockSibling, SweepDone, Report, DbError, Crash

\* What a reader has found stays true while the loop goes on.
LEMMA FindingsStay ==
    ASSUME Growing, ReadersInv, UNCHANGED reader
    PROVE  PageTrue' /\ AdditionsTrue' /\ CatchesEarned'
<1>1. PageTrue' /\ AdditionsTrue'
  BY DEF Growing, ReadersInv, PageTrue, AdditionsTrue
<1>2. CatchesEarned'
  <2>1. confirmed \subseteq confirmed' /\ reader' = reader
    BY DEF Growing
  <2>2. ASSUME reader.at = "run", NEW d \in reader.caught
        PROVE  d \notin reader.confirmed /\ (Leaks(d) \/ ImplicatedBy(confirmed \ {d}, d))'
    <3>1. d \notin reader.confirmed /\ (Leaks(d) \/ ImplicatedBy(confirmed \ {d}, d))
      BY <2>2 DEF ReadersInv, CatchesEarned
    <3>2. ImplicatedBy(confirmed \ {d}, d) => ImplicatedBy(confirmed \ {d}, d)'
      BY <2>1 DEF ImplicatedBy
    <3>. QED  BY <2>1, <3>1, <3>2 DEF Leaks
  <2>. QED  BY <2>1, <2>2 DEF CatchesEarned
<1>. QED  BY <1>1, <1>2

\* A row leads to a cluster of its own host, whose domains are confirmed.
LEMMA MembersFound ==
    ASSUME IInv, NEW d \in Domain, row[d].cluster # 0
    PROVE  /\ d \in confirmed
           /\ row[d].cluster \in DOMAIN clusters
           /\ Actual[d].ip = clusters[row[d].cluster].ip
           /\ Actual[d].ip # NoValue
<1>1. row[d].cluster \in 0..Len(clusters) /\ clusters \in Seq(ClusterRows)
  BY DEF IInv, TypeOK
<1>2. row[d].cluster \in DOMAIN clusters
  BY <1>1
<1>3. clusters[row[d].cluster] \in ClusterRows
  BY <1>1, <1>2
<1>. QED  BY <1>2, <1>3 DEF IInv, MembersOnHost, ClusterRows

\* Each statement of a reader finds what the invariant says it does.
LEMMA ReadStep ==
    ASSUME IInv, ReadersInv, Read
    PROVE  PageTrue' /\ AdditionsTrue' /\ CatchesEarned'
<1>. USE DEF PageTrue, AdditionsTrue, CatchesEarned
<1>0. UNCHANGED vars
  BY DEF Read, ReadDomain, ReadDetections, ReadCluster, ReadSiblings, ReadPage,
         CountDomains, ListForRun, RunScript, RecordBootstrapRun, Leave
<1>a. UNCHANGED <<row, clusters, logged, confirmed>>
  BY <1>0 DEF vars, tables, history
<1>1. ASSUME reader'.at \in {"idle", "page", "list", "script"}
      PROVE  PageTrue' /\ AdditionsTrue' /\ CatchesEarned'
  BY <1>1
<1>2. ASSUME NEW d \in Domain, ReadDomain(d)
      PROVE  PageTrue' /\ AdditionsTrue' /\ CatchesEarned'
  BY <1>a, <1>2, MembersFound DEF ReadDomain
<1>3. CASE ReadDetections
  <2>1. /\ reader.domain \in Domain
        /\ reader.cluster # 0 =>
              /\ reader.domain \in confirmed
              /\ reader.cluster \in DOMAIN clusters
              /\ Actual[reader.domain].ip = clusters[reader.cluster].ip
    BY <1>3 DEF ReadersInv, ReadDetections
  <2>. DEFINE found == {v \in Verdicts : <<reader.domain, v>> \in logged}
  <2>2. reader.cluster # 0 => "judol" \in found
    BY <2>1 DEF ReadersInv, ConfirmedLogged, Verdicts
  <2>3. CASE reader.cluster = 0
    <3>1. reader' = [at |-> "detail", domain |-> reader.domain,
                     cluster |-> reader.cluster, detections |-> found,
                     shared |-> NoValue, siblings |-> {}]
      BY <1>3, <2>3 DEF ReadDetections, Detail
    <3>. HIDE DEF found
    <3>. QED  BY <1>a, <2>1, <2>3, <3>1
  <2>4. CASE reader.cluster # 0
    <3>1. reader' = [at |-> "detections", domain |-> reader.domain,
                     cluster |-> reader.cluster, detections |-> found]
      BY <1>3, <2>4 DEF ReadDetections, Detail
    <3>. HIDE DEF found
    <3>. QED  BY <1>a, <2>1, <2>2, <2>4, <3>1
  <2>. QED  BY <2>3, <2>4
<1>4. CASE ReadCluster
  <2>1. /\ reader.cluster # 0 /\ reader.domain \in Domain
        /\ reader.domain \in confirmed
        /\ reader.cluster \in DOMAIN clusters
        /\ Actual[reader.domain].ip = clusters[reader.cluster].ip
        /\ "judol" \in reader.detections
    BY <1>4 DEF ReadersInv, ReadCluster
  <2>2. Grounded(confirmed, clusters[reader.cluster])
    BY <2>1 DEF IInv, ClustersGrounded
  <2>3. PICK ns \in {clusters[reader.cluster].ns, NoValue} :
          reader' = [at |-> "cluster", domain |-> reader.domain,
                     cluster |-> reader.cluster,
                     detections |-> reader.detections, shared |-> ns]
    BY <1>4 DEF ReadCluster
  <2>4. ns # NoValue => \E g \in confirmed : /\ Actual[g].ns = ns
                                             /\ Actual[g].ip = Actual[reader.domain].ip
    BY <2>1, <2>2 DEF Grounded
  <2>. QED  BY <1>a, <2>1, <2>3, <2>4
<1>5. CASE ReadSiblings
  <2>1. /\ reader.cluster # 0 /\ reader.domain \in Domain
        /\ reader.domain \in confirmed
        /\ reader.cluster \in DOMAIN clusters
        /\ Actual[reader.domain].ip = clusters[reader.cluster].ip
        /\ "judol" \in reader.detections
        /\ reader.shared # NoValue =>
              \E g \in confirmed : /\ Actual[g].ns = reader.shared
                                   /\ Actual[g].ip = Actual[reader.domain].ip
    BY <1>5 DEF ReadersInv, ReadSiblings
  <2>2. \A e \in Siblings(reader) : e \in confirmed /\ SameHost(e, reader.domain)
    BY <2>1, MembersFound DEF Siblings, SameHost, Same
  <2>3. reader' = [at |-> "detail", domain |-> reader.domain,
                   cluster |-> reader.cluster, detections |-> reader.detections,
                   shared |-> reader.shared, siblings |-> Siblings(reader)]
    BY <1>5 DEF ReadSiblings, Detail
  <2>. QED  BY <1>a, <2>1, <2>2, <2>3
<1>6. CASE RunScript
  <2>1. CASE reader' = Nobody
    BY <1>1, <2>1 DEF Nobody
  <2>2. ASSUME Listed \cap reader.confirmed = {},
               NEW failed \in [Listed -> LookupFailures],
               reader' = [at |-> "run", confirmed |-> reader.confirmed,
                          caught |-> {d \in Listed :
                              Matches(Extract(Actual[d], failed[d]), clusters)}]
        PROVE  PageTrue' /\ AdditionsTrue' /\ CatchesEarned'
    <3>1. ASSUME NEW d \in Listed, Matches(Extract(Actual[d], failed[d]), clusters)
          PROVE  ImplicatedBy(confirmed, d)
      <4>1. d \in Domain
        BY ReadersAssumption
      <4>2. Extract(Actual[d], failed[d]) \in Observations(d)
        BY DEF Observations
      <4>3. confirmed \in SUBSET Domain /\ clusters \in Seq(ClusterRows)
        BY DEF IInv, TypeOK
      <4>4. \A k \in DOMAIN clusters : Grounded(confirmed, clusters[k])
        BY DEF IInv, ClustersGrounded
      <4>. QED  BY <3>1, <4>1, <4>2, <4>3, <4>4, MatchImplicates
    <3>. DEFINE caught == {d \in Listed : Matches(Extract(Actual[d], failed[d]), clusters)}
    <3>2. \A d \in caught : Leaks(d) \/ ImplicatedBy(confirmed \ {d}, d)
      <4>1. SUFFICES ASSUME NEW d \in caught, d \notin confirmed
                     PROVE  ImplicatedBy(confirmed \ {d}, d)
        BY DEF Leaks
      <4>2. confirmed \ {d} = confirmed
        BY <4>1
      <4>. QED  BY <3>1, <4>1, <4>2
    <3>3. reader' = [at |-> "run", confirmed |-> reader.confirmed, caught |-> caught]
      BY <2>2
    <3>. HIDE DEF caught
    <3>4. \A d \in reader'.caught : (Leaks(d) \/ ImplicatedBy(confirmed \ {d}, d))'
      BY <1>a, <3>2, <3>3 DEF ImplicatedBy, Leaks
    <3>5. \A d \in caught : d \notin reader.confirmed
      BY <2>2 DEF caught
    <3>. QED  BY <3>3, <3>4, <3>5
  <2>. QED  BY <1>6, <2>1, <2>2 DEF RunScript
<1>7. CASE RecordBootstrapRun
  BY <1>7 DEF RecordBootstrapRun
<1>8. CASE CountDomains
  BY <1>1, <1>8 DEF CountDomains
<1>9. CASE (\E f \in Filters : ReadPage(f)) \/ ListForRun \/ Leave
  BY <1>1, <1>9 DEF ReadPage, ListForRun, Leave, Nobody
<1>. QED
  BY <1>2, <1>3, <1>4, <1>5, <1>6, <1>7, <1>8, <1>9 DEF Read

\* A step of the readers is one of the loop, or leaves the loop alone.
LEMMA LoopOrReader ==
    ASSUME [ReadersNext]_allVars
    PROVE  /\ [Next]_vars
           /\ UNCHANGED reader \/ Read
BY DEF ReadersNext, Read, allVars, ReadDomain, ReadDetections, ReadCluster,
       ReadSiblings, ReadPage, CountDomains, ListForRun, RunScript,
       RecordBootstrapRun, Leave

LEMMA ReadersStep ==
    ASSUME IInv, ReadersInv, [ReadersNext]_allVars
    PROVE  IInv' /\ ReadersInv'
<1>1. [Next]_vars
  BY LoopOrReader
<1>2. IInv' /\ Growing /\ ConfirmedLogged'
  BY <1>1, IInvStep, TablesGrow, LoggedStep DEF ReadersInv
<1>3. PageTrue' /\ AdditionsTrue' /\ CatchesEarned'
  BY <1>2, LoopOrReader, FindingsStay, ReadStep
<1>. QED  BY <1>2, <1>3 DEF ReadersInv

LEMMA ReadersInitInv ==
    ASSUME ReadersInit
    PROVE  IInv /\ ReadersInv
<1>1. IInv
  BY InitIInv DEF ReadersInit
<1>2. reader.at = "idle" /\ confirmed = {}
  BY DEF ReadersInit, Nobody, Init
<1>. QED
  BY <1>1, <1>2 DEF ReadersInv, ConfirmedLogged, PageTrue, AdditionsTrue, CatchesEarned

\* The strengthened invariant holds in every reachable state.
THEOREM ReadersInvariant == ReadersSpec => [](IInv /\ ReadersInv)
<1>1. ReadersInit => IInv /\ ReadersInv
  BY ReadersInitInv
<1>2. IInv /\ ReadersInv /\ [ReadersNext]_allVars => (IInv /\ ReadersInv)'
  BY ReadersStep
<1>. QED  BY <1>1, <1>2, PTL DEF ReadersSpec

\* A domain page that shows a cluster always has the detection that led to it.
THEOREM DetailExplainedHolds == ReadersSpec => []DetailExplained
<1>1. ReadersInv => DetailExplained
  BY DEF ReadersInv, AdditionsTrue, DetailExplained
<1>. QED  BY <1>1, ReadersInvariant, PTL

\* Siblings and nameserver on a domain page are of the page's own host.
THEOREM SiblingsShareHostHolds == ReadersSpec => []SiblingsShareHost
<1>1. ReadersInv => SiblingsShareHost
  BY DEF ReadersInv, AdditionsTrue, SiblingsShareHost
<1>. QED  BY <1>1, ReadersInvariant, PTL

\* A catch of the bootstrap script is not on its list of confirmed domains and
\* is implicated by two others, unless Layer 2 has confirmed it beside the list.
THEOREM CatchesEarnedHolds == ReadersSpec => []CatchesEarned
<1>1. ReadersInv => CatchesEarned
  BY DEF ReadersInv
<1>. QED  BY <1>1, ReadersInvariant, PTL

-----------------------------------------------------------------------------
(* The page of GET /domains *)

Registered == {d \in Domain : row[d].status # "absent"}

PageCounted ==
    reader.at \in {"page", "list"} /\ reader.filter = NoFilter =>
        /\ reader.items \in Nat
        /\ reader.at = "page" => reader.items <= Cardinality(Registered)
        /\ reader.at = "list" => reader.items <= reader.total

\* Without a filter every row that is on record is selected.
LEMMA AllSelected == Selected(NoFilter) = Registered
BY DEF Selected, NoFilter, Registered

LEMMA PageStep ==
    ASSUME IsFiniteSet(Domain), IInv, PageCounted, [ReadersNext]_allVars
    PROVE  PageCounted'
<1>1. Growing
  BY LoopOrReader, TablesGrow
<1>2. Registered \subseteq Registered'
  BY <1>1 DEF Growing, Registered
<1>3. IsFiniteSet(Registered) /\ IsFiniteSet(Registered')
  BY FS_Subset DEF Registered
<1>4. /\ Cardinality(Registered) \in Nat /\ Cardinality(Registered') \in Nat
      /\ Cardinality(Registered) <= Cardinality(Registered')
  BY <1>2, <1>3, FS_CardinalityType, FS_Subset
<1>5. CASE UNCHANGED reader
  BY <1>4, <1>5 DEF PageCounted
<1>6. CASE Read
  <2>1. UNCHANGED row
    BY <1>6 DEF Read, ReadDomain, ReadDetections, ReadCluster, ReadSiblings, ReadPage,
                CountDomains, ListForRun, RunScript, RecordBootstrapRun, Leave,
                vars, tables
  <2>2. ASSUME NEW f \in Filters, ReadPage(f) PROVE PageCounted'
    <3>1. PICK n \in 0..Cardinality(Selected(f)) :
            reader' = [at |-> "page", filter |-> f, items |-> n]
      BY <2>2 DEF ReadPage
    <3>2. f = NoFilter => n \in Nat /\ n <= Cardinality(Registered)
      BY <1>4, <3>1, AllSelected
    <3>3. Registered' = Registered
      BY <2>1 DEF Registered
    <3>. QED  BY <3>1, <3>2, <3>3 DEF PageCounted
  <2>3. CASE CountDomains
    <3>1. /\ reader.at = "page"
          /\ reader' = [at |-> "list", filter |-> reader.filter, items |-> reader.items,
                        total |-> Cardinality(Selected(reader.filter))]
      BY <2>3 DEF CountDomains
    <3>. QED  BY <3>1, AllSelected DEF PageCounted
  <2>4. CASE reader'.at \notin {"page", "list"}
    BY <2>4 DEF PageCounted
  <2>. QED
    BY <1>6, <2>2, <2>3, <2>4
       DEF Read, ReadDomain, ReadDetections, ReadCluster, ReadSiblings, ListForRun,
           RunScript, RecordBootstrapRun, Leave, Nobody, Detail
<1>. QED  BY <1>5, <1>6, LoopOrReader

\* An unfiltered page of GET /domains fits the total that is counted after it.
THEOREM PageWithinTotalHolds ==
    ASSUME IsFiniteSet(Domain)
    PROVE  ReadersSpec => []PageWithinTotal
<1>1. ReadersInit => PageCounted
  BY DEF ReadersInit, Nobody, PageCounted
<1>2. IInv /\ PageCounted /\ [ReadersNext]_allVars => PageCounted'
  BY PageStep
<1>3. PageCounted => PageWithinTotal
  BY DEF PageCounted, PageWithinTotal
<1>. QED  BY <1>1, <1>2, <1>3, ReadersInvariant, PTL DEF ReadersSpec
=============================================================================
