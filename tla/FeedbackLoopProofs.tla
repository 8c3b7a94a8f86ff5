------------------------- MODULE FeedbackLoopProofs -------------------------
(***************************************************************************)
(* Theorems about FeedbackLoop for every set of domains and workers, every  *)
(* infrastructure they live on, every pattern of failed lookups, with and   *)
(* without failing statements and crashes.                                  *)
(***************************************************************************)
EXTENDS FeedbackLoop, Layer1Proofs

-----------------------------------------------------------------------------
(* The inductive invariant *)

Analysing  == {"vision", "log", "detect", "confirm"}
Lookingup  == {"lookup_confirmed", "lookup_candidate"}
Extracting == {"extract", "lookup_confirmed"}
Upserting  == {"select", "write", "attach"}
Writing    == {"write", "attach"}

\* What a worker's locals hold, by the step it stands at.
Locals(w) ==
    /\ pc[w] \in Analysing \cup Lookingup \cup {"block"} => target[w] \in Domain
    /\ pc[w] \in {"log", "detect", "confirm"} => verdict[w] \in Verdicts
    /\ pc[w] \notin Upserting => pending[w] = {}
    /\ pc[w] \notin Extracting \cup Upserting => records[w] = <<>>
    /\ pending[w] \subseteq ClusterIPs(records[w])
    /\ pc[w] \in Writing => at[w] \in ClusterIPs(records[w])
    /\ pc[w] \in Writing /\ slot[w] # 0 => clusters[slot[w]].ip = at[w]
    /\ pc[w] = "attach" => slot[w] # 0

\* The records of Feedback are of distinct confirmed domains, none of which is
\* still on the list: no domain makes a cluster with itself.
Collected(w) ==
    /\ \A i \in DOMAIN records[w] :
          /\ records[w][i].domain \in confirmed
          /\ records[w][i] \in Observations(records[w][i].domain)
    /\ \A i, j \in DOMAIN records[w] :
          records[w][i].domain = records[w][j].domain => i = j
    /\ pc[w] \in Extracting =>
          /\ todo[w] \subseteq confirmed
          /\ \A i \in DOMAIN records[w] : records[w][i].domain \notin todo[w]
    /\ pc[w] = "lookup_confirmed" =>
          /\ target[w] \in confirmed
          /\ target[w] \notin todo[w]
          /\ \A i \in DOMAIN records[w] : records[w][i].domain # target[w]

\* A cluster row stands for a host that two distinct domains of the group are
\* on, and its nameserver is one of that host's domains'.
Grounded(group, c) ==
    /\ c.ip # NoValue
    /\ \E e, f \in group : e # f /\ Actual[e].ip = c.ip /\ Actual[f].ip = c.ip
    /\ c.ns # NoValue =>
          \E g \in group : Actual[g].ip = c.ip /\ Actual[g].ns = c.ns

ClustersGrounded == \A k \in DOMAIN clusters : Grounded(confirmed, clusters[k])

\* What a worker acts on was really found: the detection before the verdict,
\* the clusters in its snapshot, the match before a sibling is blocked.
Justified(w) ==
    /\ pc[w] = "confirm" => <<target[w], "judol">> \in logged
    /\ \A k \in DOMAIN known[w] : Grounded(confirmed, known[w][k])
    /\ pc[w] = "block" => ImplicatedBy(confirmed, target[w])

\* The domains a worker will update have a row.
OnRecord(w) ==
    /\ pc[w] \in {"detect", "confirm", "lookup_candidate", "block"} =>
          row[target[w]].status # "absent"
    /\ pc[w] \in {"clusters", "match", "lookup_candidate", "block"} =>
          \A d \in todo[w] : row[d].status # "absent"

WorkerInv(w) == Locals(w) /\ Collected(w) /\ Justified(w) /\ OnRecord(w)

CacheTrue == \A d \in Domain : cache[d] # NoValue => cache[d] \in Observations(d)

SourceTrue == \A d \in Domain : row[d].source = "L2" => d \in confirmed

IInv ==
    /\ TypeOK
    /\ \A w \in Worker : WorkerInv(w)
    /\ SourceTrue
    /\ ClustersGrounded
    /\ CacheTrue
    /\ MembersOnHost
    /\ ColdStart
    /\ BlockedHasDetection

-----------------------------------------------------------------------------
(* What Extract and BuildCluster return *)

\* An observation is of its domain; each field is the truth or not known.
LEMMA ObservationFields ==
    ASSUME NEW d \in Domain, NEW fp \in Observations(d)
    PROVE  /\ fp \in Fingerprints
           /\ fp.domain = d
           /\ fp.ip \in {Actual[d].ip, NoValue}
           /\ fp.ns \in {Actual[d].ns, NoValue}
           /\ fp.registrar \in {Actual[d].registrar, NoValue}
           /\ fp.tld = Actual[d].tld
           /\ fp.registered \in (0..Horizon) \cup {NoValue}
<1>1. PICK f \in LookupFailures : fp = Extract(Actual[d], f)
  BY DEF Observations
<1>2. Actual[d] = [domain |-> d, ip |-> Actual[d].ip, ns |-> Actual[d].ns,
                   registrar |-> Actual[d].registrar, tld |-> Actual[d].tld,
                   registered |-> Actual[d].registered]
  BY FeedbackAssumption
<1>3. Actual[d].registered \in (0..Horizon) \cup {NoValue}
  BY FeedbackAssumption
<1>. QED  BY <1>1, <1>2, <1>3 DEF Extract, Unless, Fingerprints

\* Fingerprints are the observations of some domain.
LEMMA FingerprintDomain ==
    ASSUME NEW fp \in Fingerprints
    PROVE  \E d \in Domain : fp \in Observations(d)
BY DEF Fingerprints

\* A row of a built cluster has the types of the table.
LEMMA BuiltRow ==
    ASSUME NEW recs \in Seq(Fingerprints), NEW ip \in ClusterIPs(recs)
    PROVE  AsRow(BuildCluster(recs, ip)) \in ClusterRows
<1>. DEFINE group == Group(recs, ip)
            times == RegistrationTimes(recs, group)
<1>1. DOMAIN recs = 1..Len(recs) /\ Len(recs) \in Nat
  OBVIOUS
<1>2. group \subseteq 1..Len(recs) /\ group \in SUBSET Nat
  BY <1>1 DEF Group
<1>3. \A i \in group : \E d \in Domain : recs[i] \in Observations(d)
  BY <1>1, <1>2, FingerprintDomain
<1>4. /\ \A i \in group : recs[i].ip \in Values("ip")
      /\ \A i \in group : recs[i].ns \in Values("ns")
      /\ \A i \in group : recs[i].registrar \in Values("registrar")
      /\ \A i \in group : recs[i].tld \in Values("tld")
      /\ \A i \in group : recs[i].registered \in (0..Horizon) \cup {NoValue}
  BY <1>3, ObservationFields DEF Values
<1>5. ip \in Values("ip") \ {NoValue}
  <2>1. PICK i \in DOMAIN recs : ip = recs[i].ip /\ ip # NoValue
    BY DEF ClusterIPs, KnownIPs
  <2>2. i \in group
    BY <2>1 DEF Group
  <2>3. recs[i].ip \in Values("ip")
    BY <1>4, <2>2
  <2>. QED  BY <2>1, <2>3
<1>6. /\ FirstKnown(recs, group, "ns") \in Values("ns")
      /\ FirstKnown(recs, group, "registrar") \in Values("registrar")
      /\ FirstKnown(recs, group, "tld") \in Values("tld")
  <2>1. NoValue \in Values("ns") /\ NoValue \in Values("registrar")
          /\ NoValue \in Values("tld")
    BY DEF Values
  <2>. QED  BY <1>2, <1>4, <2>1, FirstKnownIsSome
<1>7. Cardinality(group) \in Nat
  <2>1. IsFiniteSet(1..Len(recs))
    BY <1>1, FS_Interval
  <2>2. IsFiniteSet(group)
    BY <1>2, <2>1, FS_Subset
  <2>. QED  BY <2>2, FS_CardinalityType
<1>8. times \in SUBSET (0..Horizon)
  BY <1>4 DEF RegistrationTimes
<1>9. BurstScore(Cardinality(group), times) \in Bursts \cup {NoValue}
  BY <1>7, <1>8, BurstIsFraction, FeedbackAssumption DEF Bursts
<1>. QED  BY <1>5, <1>6, <1>7, <1>9 DEF BuildCluster, AsRow, ClusterRows

\* The cluster of a host is grounded in the domains its records are of, and
\* all its domains are on that host.
LEMMA BuiltGrounded ==
    ASSUME NEW recs \in Seq(Fingerprints), NEW ip \in ClusterIPs(recs),
           NEW group \in SUBSET Domain,
           \A i \in DOMAIN recs : /\ recs[i].domain \in group
                                  /\ recs[i] \in Observations(recs[i].domain),
           \A i, j \in DOMAIN recs : recs[i].domain = recs[j].domain => i = j
    PROVE  /\ Grounded(group, AsRow(BuildCluster(recs, ip)))
           /\ AsRow(BuildCluster(recs, ip)).ip = ip
           /\ \A d \in BuildCluster(recs, ip).domains :
                 d \in group /\ Actual[d].ip = ip
<1>. DEFINE members == Group(recs, ip)
            c == BuildCluster(recs, ip)
<1>1. ip # NoValue
  BY DEF ClusterIPs, KnownIPs
<1>2. members \in SUBSET Nat /\ members \subseteq DOMAIN recs
  BY DEF Group
<1>3. \A i \in members : /\ recs[i].domain \in group
                         /\ Actual[recs[i].domain].ip = ip
                         /\ recs[i].ns \in {Actual[recs[i].domain].ns, NoValue}
  BY <1>1, <1>2, ObservationFields DEF Group
<1>4. PICK i, j \in members : i # j
  BY DEF ClusterIPs
<1>5. recs[i].domain # recs[j].domain
  BY <1>2, <1>4
<1>6. c.ip = ip /\ c.ns = FirstKnown(recs, members, "ns")
        /\ c.domains = {recs[m].domain : m \in members}
  BY DEF BuildCluster
<1>7. AsRow(c).ip = ip /\ AsRow(c).ns = c.ns
  BY <1>6 DEF AsRow
<1>8. c.ns # NoValue => \E m \in members : c.ns = recs[m].ns
  BY <1>2, <1>6, FirstKnownIsSome
<1>9. Grounded(group, AsRow(c))
  BY <1>1, <1>3, <1>4, <1>5, <1>7, <1>8 DEF Grounded
<1>. QED  BY <1>3, <1>6, <1>7, <1>9

\* More evidence never takes a cluster's ground away.
LEMMA GroundedMonotonic ==
    ASSUME NEW group, NEW more, group \subseteq more, NEW c, Grounded(group, c)
    PROVE  Grounded(more, c)
BY DEF Grounded

LEMMA ImplicatedMonotonic ==
    ASSUME NEW group, NEW more, group \subseteq more, NEW d, ImplicatedBy(group, d)
    PROVE  ImplicatedBy(more, d)
BY DEF ImplicatedBy

\* A candidate that matches grounded clusters is implicated by their ground.
LEMMA MatchImplicates ==
    ASSUME NEW group \in SUBSET Domain, NEW list \in Seq(ClusterRows),
           \A k \in DOMAIN list : Grounded(group, list[k]),
           NEW d \in Domain, NEW fp \in Observations(d), Matches(fp, list)
    PROVE  ImplicatedBy(group, d)
<1>1. PICK k \in DOMAIN list : Qualifies(fp, list[k])
  BY DEF Matches
<1>. DEFINE c == list[k]
<1>2. c \in ClusterRows
  OBVIOUS
<1>3. IsBurst(c.burst)
  BY <1>2 DEF ClusterRows, IsBurst, Bursts
<1>4. Same(fp.ip, c.ip) \/ Same(fp.ns, c.ns)
  BY <1>1, <1>3, MatchNeedsHostOrName
<1>5. Grounded(group, c)
  BY <1>1
<1>. HIDE DEF c
<1>6. PICK e, f \in group : e # f /\ Actual[e].ip = c.ip /\ Actual[f].ip = c.ip
  BY <1>5 DEF Grounded
<1>7. c.ip # NoValue
  BY <1>5 DEF Grounded
<1>8. SameHost(e, f)
  BY <1>6, <1>7 DEF SameHost, Same
<1>9. CASE Same(fp.ip, c.ip)
  BY <1>6, <1>8, <1>9, ObservationFields DEF ImplicatedBy, SameHost, Same
<1>10. CASE Same(fp.ns, c.ns)
  <2>1. PICK g \in group : Actual[g].ip = c.ip /\ Actual[g].ns = c.ns
    BY <1>5, <1>10 DEF Grounded, Same
  <2>2. SameHost(g, e)
    BY <1>6, <1>7, <2>1 DEF SameHost, Same
  <2>3. Same(Actual[d].ns, Actual[g].ns)
    BY <1>10, <2>1, ObservationFields DEF Same
  <2>. QED  BY <1>6, <1>8, <2>2, <2>3 DEF ImplicatedBy
<1>. QED  BY <1>4, <1>9, <1>10

-----------------------------------------------------------------------------
(* Each conjunct is preserved by every step *)

\* Returning leaves locals of the right types and nothing behind.
LEMMA ReturnType ==
    ASSUME TypeOK, NEW w \in Worker, Return(w)
    PROVE  /\ pc' \in [Worker -> Steps]
           /\ target' \in [Worker -> Domain \cup {NoValue}]
           /\ verdict' \in [Worker -> Verdicts \cup {NoValue}]
           /\ todo' \in [Worker -> SUBSET Domain]
           /\ records' \in [Worker -> Seq(Fingerprints)]
           /\ pending' \in [Worker -> SUBSET (Values("ip") \ {NoValue})]
           /\ at' \in [Worker -> Values("ip")]
           /\ slot' \in [Worker -> 0..Len(clusters)]
           /\ known' \in [Worker -> Seq(ClusterRows)]
<1>1. "idle" \in Steps /\ NoValue \in Values("ip")
  BY DEF Steps, Values
<1>2. 0 \in 0..Len(clusters)
  BY DEF TypeOK
<1>. QED  BY <1>1, <1>2 DEF TypeOK, Return, Goto

RowsType(n) == [Domain -> [status : Statuses, source : Sources \cup {NoValue},
                            cluster : 0..n]]

\* The two writers of the domains table keep its type.
LEMMA RowWriters ==
    ASSUME NEW n \in Nat, row \in RowsType(n), NEW d \in Domain
    PROVE  /\ EnsureDomain(d) => row' \in RowsType(n)
           /\ UpsertBlocked(d, "L1") => row' \in RowsType(n)
           /\ UpsertBlocked(d, "L2") => row' \in RowsType(n)
<1>1. row[d] \in [status : Statuses, source : Sources \cup {NoValue}, cluster : 0..n]
  BY DEF RowsType
<1>2. ASSUME EnsureDomain(d) PROVE row' \in RowsType(n)
  <2>1. [row[d] EXCEPT !.status = "candidate"]
           \in [status : Statuses, source : Sources \cup {NoValue}, cluster : 0..n]
    BY <1>1 DEF Statuses
  <2>2. row' = row \/ row' = [row EXCEPT ![d] = [row[d] EXCEPT !.status = "candidate"]]
    BY <1>2 DEF EnsureDomain
  <2>. QED  BY <2>1, <2>2 DEF RowsType
<1>3. ASSUME NEW source \in Sources, UpsertBlocked(d, source) PROVE row' \in RowsType(n)
  <2>1. [row[d] EXCEPT !.status = "blocked", !.source = source]
           \in [status : Statuses, source : Sources \cup {NoValue}, cluster : 0..n]
    BY <1>1 DEF Statuses
  <2>2. row' = [row EXCEPT ![d] =
                  [row[d] EXCEPT !.status = "blocked", !.source = source]]
    BY <1>1, <1>3 DEF UpsertBlocked, RowsType
  <2>. QED  BY <2>1, <2>2 DEF RowsType
<1>. QED  BY <1>2, <1>3 DEF Sources

\* The steps that leave the vision client alone: all but those of a request
\* that waits for it.
LEMMA OnlyVision ==
    ASSUME [Next]_vars, \A w \in Worker : ~ VisionFails(w) /\ ~ VisionAnswers(w)
    PROVE  UNCHANGED vision
BY DEF Next, Step, vars, Analyze, EnsureForLog, InsertDetection, Confirm,
       ListConfirmed, ExtractCached, ExtractMiss, LookupDone, ScoreFingerprint,
       GroupByIP, SelectCluster, WriteCluster, AttachDomains, FeedbackDone,
       ListCandidates, ListClusters, BlockSibling, SweepDone, Report, DbError,
       Crash

\* The files and the history hold verdicts of domains.
LEMMA VisionTypes ==
    ASSUME IInv, [Next]_vars
    PROVE  /\ saved' \in [Files -> SUBSET (Domain \X Verdicts)]
           /\ given' \subseteq Domain \X Verdicts
<1>1. saved \in [Files -> SUBSET (Domain \X Verdicts)] /\ given \subseteq Domain \X Verdicts
  BY DEF IInv, TypeOK
<1>2. ASSUME NEW w \in Worker, VisionFails(w) \/ VisionAnswers(w)
      PROVE  /\ saved' \in [Files -> SUBSET (Domain \X Verdicts)]
             /\ given' \subseteq Domain \X Verdicts
  <2>1. target[w] \in Domain
    BY <1>2 DEF VisionFails, VisionAnswers, IInv, WorkerInv, Locals, Analysing
  <2>2. PICK e \in Domain, v \in Verdicts \cup {NoValue} : AnalyzeCached(target[w], e, v)
    BY <1>2, <2>1 DEF VisionFails, VisionAnswers
  <2>3. FileOf[target[w]] \in Files
    BY <2>1 DEF Files
  <2>4. CASE v \in Verdicts /\ SaveVerdict(target[w], v)
             /\ given' = given \cup {<<target[w], v>>}
    <3>1. {<<target[w], v>>} \in SUBSET (Domain \X Verdicts)
      BY <2>1, <2>4
    <3>2. saved' \in {[saved EXCEPT ![FileOf[target[w]]] = {<<target[w], v>>}],
                      saved, [saved EXCEPT ![FileOf[target[w]]] = {}]}
      BY <2>4 DEF SaveVerdict
    <3>. QED  BY <1>1, <2>3, <2>4, <3>1, <3>2
  <2>5. CASE UNCHANGED vision
    BY <1>1, <2>5 DEF vision
  <2>. QED  BY <2>2, <2>4, <2>5 DEF AnalyzeCached, Replies
<1>3. CASE \A w \in Worker : ~ VisionFails(w) /\ ~ VisionAnswers(w)
  BY <1>1, <1>3, OnlyVision DEF vision
<1>. QED  BY <1>2, <1>3

LEMMA TypeStep ==
    ASSUME IInv, [Next]_vars
    PROVE  TypeOK'
<1>v. /\ saved' \in [Files -> SUBSET (Domain \X Verdicts)]
      /\ given' \subseteq Domain \X Verdicts
  BY VisionTypes
<1>. USE <1>v DEF Goto
<1>0. TypeOK
  BY DEF IInv
<1>a. Len(clusters) \in Nat /\ DOMAIN clusters = 1..Len(clusters)
  BY <1>0 DEF TypeOK
<1>c. row \in RowsType(Len(clusters))
  BY <1>0 DEF TypeOK, RowsType
<1>d. \A w \in Worker :
         pc[w] \in Analysing \cup Lookingup \cup {"block"} => target[w] \in Domain
  BY DEF IInv, WorkerInv, Locals
<1>b. NoValue \in Values("ip")
  BY DEF Values
<1>1. ASSUME NEW w \in Worker, NEW d \in Domain, Analyze(w, d) PROVE TypeOK'
  <2>1. row' \in RowsType(Len(clusters))
    BY <1>a, <1>c, <1>1, RowWriters DEF Analyze
  <2>2. analyses' \in 0..MaxAnalyses
    BY <1>0, <1>1, FeedbackAssumption DEF TypeOK, Analyze
  <2>. QED
    BY <1>0, <1>1, <2>1, <2>2 DEF TypeOK, RowsType, Analyze, Steps, scratch
<1>2. ASSUME NEW w \in Worker, VisionFails(w) PROVE TypeOK'
  BY <1>0, <1>2, ReturnType DEF TypeOK, VisionFails, tables, history
<1>3. ASSUME NEW w \in Worker, VisionAnswers(w) PROVE TypeOK'
  BY <1>0, <1>3 DEF TypeOK, VisionAnswers, tables, history, scratch, Steps, DbSteps
<1>4. ASSUME NEW w \in Worker, EnsureForLog(w) PROVE TypeOK'
  <2>1. row' \in RowsType(Len(clusters))
    BY <1>a, <1>c, <1>d, <1>4, RowWriters DEF EnsureForLog, Analysing
  <2>. QED
    BY <1>0, <1>4, <2>1
       DEF TypeOK, RowsType, EnsureForLog, Steps, DbSteps, history, scratch
<1>5. ASSUME NEW w \in Worker, InsertDetection(w) PROVE TypeOK'
  <2>1. target[w] \in Domain /\ verdict[w] \in Verdicts
    BY <1>5 DEF InsertDetection, IInv, WorkerInv, Locals, Analysing
  <2>2. logged' \subseteq Domain \X Verdicts
    BY <1>0, <1>5, <2>1 DEF TypeOK, InsertDetection
  <2>3. CASE verdict[w] = "judol"
    BY <1>0, <1>5, <2>2, <2>3 DEF TypeOK, InsertDetection, history, scratch, Steps, DbSteps
  <2>4. CASE verdict[w] # "judol"
    BY <1>0, <1>5, <2>2, <2>4, ReturnType DEF TypeOK, InsertDetection, history
  <2>. QED  BY <2>3, <2>4
<1>6. ASSUME NEW w \in Worker, Confirm(w) PROVE TypeOK'
  <2>1. target[w] \in Domain
    BY <1>d, <1>6 DEF Confirm, Analysing
  <2>2. row' \in RowsType(Len(clusters))
    BY <1>a, <1>c, <1>6, <2>1, RowWriters DEF Confirm
  <2>. QED
    BY <1>0, <1>6, <2>1, <2>2 DEF TypeOK, RowsType, Confirm, Steps, DbSteps, scratch
<1>7. ASSUME NEW w \in Worker, ListConfirmed(w) PROVE TypeOK'
  BY <1>0, <1>7 DEF TypeOK, ListConfirmed, Confirmed, Steps, tables, history
<1>8. ASSUME NEW w \in Worker, NEW d \in Domain, NEW fp \in Fingerprints, NEW b \in BOOLEAN,
             Use(w, d, fp, b)
      PROVE  /\ pc' \in [Worker -> Steps]
             /\ target' \in [Worker -> Domain \cup {NoValue}]
             /\ records' \in [Worker -> Seq(Fingerprints)]
  <2>1. CASE b = TRUE
    <3>1. records[w] \in Seq(Fingerprints)
      BY <1>0 DEF TypeOK
    <3>2. Append(records[w], fp) \in Seq(Fingerprints)
      BY <3>1
    <3>3. records' = [records EXCEPT ![w] = Append(records[w], fp)]
      BY <1>8, <2>1 DEF Use, Collect
    <3>. QED  BY <1>0, <1>8, <2>1, <3>2, <3>3 DEF TypeOK, Use, Collect, Steps
  <2>2. CASE b # TRUE
    <3>1. Weigh(w, d, fp)
      BY <1>8, <2>2 DEF Use
    <3>2. records' = records
      BY <3>1 DEF Weigh
    <3>3. CASE Matches(fp, known[w])
      <4>1. target' = [target EXCEPT ![w] = d] /\ pc' = [pc EXCEPT ![w] = "block"]
        BY <3>1, <3>3 DEF Weigh
      <4>. QED  BY <1>0, <3>2, <4>1 DEF TypeOK, Steps, DbSteps
    <3>4. CASE ~ Matches(fp, known[w])
      <4>1. target' = [target EXCEPT ![w] = NoValue] /\ pc' = [pc EXCEPT ![w] = "match"]
        BY <3>1, <3>4 DEF Weigh
      <4>. QED  BY <1>0, <3>2, <4>1 DEF TypeOK, Steps, DbSteps
    <3>. QED  BY <3>3, <3>4
  <2>. QED  BY <2>1, <2>2
<1>9. ASSUME NEW w \in Worker, NEW d \in Domain, ExtractCached(w, d) PROVE TypeOK'
  <2>1. cache[d] \in Fingerprints
    BY <1>0, <1>9 DEF TypeOK, ExtractCached
  <2>2. Use(w, d, cache[d], pc[w] = "extract")
    BY <1>9 DEF ExtractCached
  <2>3. todo' \in [Worker -> SUBSET Domain]
    BY <1>0, <1>9 DEF TypeOK, ExtractCached
  <2>. QED  BY <1>0, <1>8, <1>9, <2>1, <2>2, <2>3 DEF TypeOK, ExtractCached, tables, history
<1>10. ASSUME NEW w \in Worker, NEW d \in Domain, ExtractMiss(w, d) PROVE TypeOK'
  BY <1>0, <1>10 DEF TypeOK, ExtractMiss, Steps, tables, history
<1>11. ASSUME NEW w \in Worker, LookupDone(w) PROVE TypeOK'
  <2>1. target[w] \in Domain
    BY <1>11 DEF LookupDone, IInv, WorkerInv, Locals, Lookingup
  <2>2. PICK fp \in Observations(target[w]) :
           /\ cache' = [cache EXCEPT ![target[w]] = fp]
           /\ Use(w, target[w], fp, pc[w] = "lookup_confirmed")
    BY <1>11 DEF LookupDone
  <2>3. fp \in Fingerprints
    BY <2>1, <2>2, ObservationFields
  <2>4. cache' \in [Domain -> Fingerprints \cup {NoValue}]
    BY <1>0, <2>1, <2>2, <2>3 DEF TypeOK
  <2>. QED  BY <1>0, <1>8, <1>11, <2>1, <2>2, <2>3, <2>4 DEF TypeOK, LookupDone, tables, history
<1>12. ASSUME NEW d \in Domain, ScoreFingerprint(d) PROVE TypeOK'
  <2>1. PICK fp \in Observations(d) : cache' = [cache EXCEPT ![d] = fp]
    BY <1>12 DEF ScoreFingerprint
  <2>2. fp \in Fingerprints
    BY <2>1, ObservationFields
  <2>. QED  BY <1>0, <1>12, <2>1, <2>2 DEF TypeOK, ScoreFingerprint, tables, history, scratch
<1>13. ASSUME NEW w \in Worker, GroupByIP(w) PROVE TypeOK'
  <2>1. \A ip \in ClusterIPs(records[w]) : ip \in Values("ip") \ {NoValue}
    <3>1. SUFFICES ASSUME NEW ip \in ClusterIPs(records[w])
                   PROVE  ip \in Values("ip") \ {NoValue}
      OBVIOUS
    <3>2. records[w] \in Seq(Fingerprints)
      BY <1>0 DEF TypeOK
    <3>3. AsRow(BuildCluster(records[w], ip)) \in ClusterRows
      BY <3>1, <3>2, BuiltRow
    <3>. QED  BY <3>3 DEF AsRow, BuildCluster, ClusterRows
  <2>. QED  BY <1>0, <1>13, <2>1 DEF TypeOK, GroupByIP, Steps, DbSteps, tables, history
<1>14. ASSUME NEW w \in Worker, NEW ip \in pending[w], SelectCluster(w, ip) PROVE TypeOK'
  <2>1. ip \in Values("ip")
    BY <1>0, <1>14 DEF TypeOK
  <2>2. slot' \in [Worker -> 0..Len(clusters)]
    BY <1>0, <1>a, <1>14 DEF TypeOK, SelectCluster
  <2>. QED  BY <1>0, <1>14, <2>1, <2>2 DEF TypeOK, SelectCluster, Steps, DbSteps, tables, history
<1>15. ASSUME NEW w \in Worker, WriteCluster(w) PROVE TypeOK'
  <2>. DEFINE c == BuildCluster(records[w], at[w])
  <2>1. AsRow(c) \in ClusterRows
    BY <1>0, <1>15, BuiltRow DEF TypeOK, WriteCluster, IInv, WorkerInv, Locals, Writing
  <2>2. c.count \in Nat /\ c.burst \in Bursts \cup {NoValue}
    BY <2>1 DEF AsRow, ClusterRows
  <2>. HIDE DEF c
  <2>3. /\ clusters' \in Seq(ClusterRows)
        /\ Len(clusters) <= Len(clusters')
        /\ slot' \in [Worker -> 0..Len(clusters')]
    <3>1. CASE slot[w] = 0
      <4>1. clusters' = Append(clusters, AsRow(c)) /\ slot' = [slot EXCEPT ![w] = Len(clusters) + 1]
        BY <1>15, <3>1 DEF WriteCluster, c
      <4>2. clusters' \in Seq(ClusterRows) /\ Len(clusters') = Len(clusters) + 1
        BY <1>0, <2>1, <4>1 DEF TypeOK
      <4>. QED  BY <1>0, <1>a, <4>1, <4>2 DEF TypeOK
    <3>2. CASE slot[w] # 0
      <4>1. slot[w] \in DOMAIN clusters
        BY <1>0, <1>a, <3>2 DEF TypeOK
      <4>2. clusters' = [clusters EXCEPT ![slot[w]].count = c.count,
                                         ![slot[w]].burst = c.burst]
            /\ slot' = slot
        BY <1>15, <3>2 DEF WriteCluster, c
      <4>3. clusters[slot[w]] \in ClusterRows
        BY <1>0, <4>1 DEF TypeOK
      <4>4. [clusters[slot[w]] EXCEPT !.count = c.count, !.burst = c.burst] \in ClusterRows
        BY <2>2, <4>3 DEF ClusterRows
      <4>5. clusters' = [clusters EXCEPT ![slot[w]] =
                           [clusters[slot[w]] EXCEPT !.count = c.count, !.burst = c.burst]]
        BY <1>0, <4>1, <4>2, <4>3 DEF TypeOK, ClusterRows
      <4>6. clusters' \in Seq(ClusterRows) /\ Len(clusters') = Len(clusters)
        BY <1>0, <4>1, <4>4, <4>5 DEF TypeOK
      <4>. QED  BY <1>0, <1>a, <4>2, <4>6 DEF TypeOK
    <3>. QED  BY <3>1, <3>2
  <2>4. row' \in [Domain -> [status : Statuses, source : Sources \cup {NoValue},
                             cluster : 0..Len(clusters')]]
    <3>1. Len(clusters') \in Nat /\ row' = row
      BY <1>15, <2>3 DEF WriteCluster
    <3>. QED  BY <1>0, <1>a, <2>3, <3>1 DEF TypeOK
  <2>. QED  BY <1>0, <1>15, <2>3, <2>4 DEF TypeOK, WriteCluster, Steps, DbSteps, history
<1>16. ASSUME NEW w \in Worker, AttachDomains(w) PROVE TypeOK'
  <2>1. row' \in RowsType(Len(clusters))
    <3>1. slot[w] \in 0..Len(clusters)
      BY <1>0 DEF TypeOK
    <3>2. \A d \in Domain :
             [row[d] EXCEPT !.cluster = slot[w]]
               \in [status : Statuses, source : Sources \cup {NoValue},
                    cluster : 0..Len(clusters)]
      BY <1>c, <3>1 DEF RowsType
    <3>. QED  BY <1>c, <1>16, <3>2 DEF AttachDomains, RowsType
  <2>2. slot' \in [Worker -> 0..Len(clusters)] /\ at' \in [Worker -> Values("ip")]
    BY <1>0, <1>a, <1>b, <1>16 DEF TypeOK, AttachDomains
  <2>. QED
    BY <1>0, <1>16, <2>1, <2>2
       DEF TypeOK, RowsType, AttachDomains, Steps, DbSteps, history
<1>17. ASSUME NEW w \in Worker, FeedbackDone(w) PROVE TypeOK'
  BY <1>0, <1>17 DEF TypeOK, FeedbackDone, Steps, DbSteps, tables, history
<1>18. ASSUME NEW w \in Worker, ListCandidates(w) PROVE TypeOK'
  BY <1>0, <1>18 DEF TypeOK, ListCandidates, Candidates, Steps, DbSteps, tables, history
<1>19. ASSUME NEW w \in Worker, ListClusters(w) PROVE TypeOK'
  <2>1. CASE clusters = <<>>
    BY <1>0, <1>19, <2>1, ReturnType DEF TypeOK, ListClusters, tables, history
  <2>2. CASE clusters # <<>>
    <3>1. known' \in [Worker -> Seq(ClusterRows)]
      BY <1>0, <1>19, <2>2 DEF TypeOK, ListClusters
    <3>. QED  BY <1>0, <1>19, <2>2, <3>1 DEF TypeOK, ListClusters, Steps, tables, history
  <2>. QED  BY <2>1, <2>2
<1>20. ASSUME NEW w \in Worker, BlockSibling(w) PROVE TypeOK'
  <2>1. row' \in RowsType(Len(clusters))
    BY <1>a, <1>c, <1>d, <1>20, RowWriters DEF BlockSibling
  <2>2. CASE Return(w)
    BY <1>0, <1>20, <2>1, <2>2, ReturnType DEF TypeOK, RowsType, BlockSibling, history
  <2>3. CASE ~ Return(w)
    BY <1>0, <1>20, <2>1, <2>3 DEF TypeOK, RowsType, BlockSibling, Steps, history, scratch
  <2>. QED  BY <2>2, <2>3
<1>21. ASSUME NEW w \in Worker, SweepDone(w) \/ DbError(w) PROVE TypeOK'
  BY <1>0, <1>21, ReturnType DEF TypeOK, SweepDone, DbError, tables, history
<1>22. ASSUME NEW d \in Domain, Report(d) PROVE TypeOK'
  BY <1>0, <1>22 DEF TypeOK, Report, Statuses, history, scratch
<1>23. CASE Crash
  BY <1>0, <1>a, <1>b, <1>23 DEF TypeOK, Crash, tables, history, Steps
<1>24. CASE UNCHANGED vars
  BY <1>0, <1>24 DEF TypeOK, vars, tables, history, scratch
<1>. QED
  BY <1>1, <1>2, <1>3, <1>4, <1>5, <1>6, <1>7, <1>9, <1>10, <1>11, <1>12, <1>13,
     <1>14, <1>15, <1>16, <1>17, <1>18, <1>19, <1>20, <1>21, <1>22, <1>23, <1>24
     DEF Next, Step

-----------------------------------------------------------------------------
(* Workers *)

Untouched(v) ==
    /\ pc'[v] = pc[v] /\ target'[v] = target[v] /\ verdict'[v] = verdict[v]
    /\ todo'[v] = todo[v] /\ records'[v] = records[v] /\ pending'[v] = pending[v]
    /\ at'[v] = at[v] /\ slot'[v] = slot[v] /\ known'[v] = known[v]

\* What the tables never take back.
Growing ==
    /\ confirmed \subseteq confirmed'
    /\ logged \subseteq logged'
    /\ \A k \in DOMAIN clusters :
          /\ k \in DOMAIN clusters'
          /\ clusters'[k].ip = clusters[k].ip
          /\ clusters'[k].ns = clusters[k].ns
    /\ \A d \in Domain : row[d].status # "absent" => row'[d].status # "absent"

ActsAs(w) == Step(w) \/ DbError(w) \/ \E d \in Domain : Analyze(w, d)

\* A worker's step leaves the locals of the others alone.
LEMMA OthersUntouched ==
    ASSUME TypeOK, NEW w \in Worker, NEW v \in Worker \ {w}, ActsAs(w)
    PROVE  Untouched(v)
<1>. USE DEF TypeOK, Untouched, Goto, scratch, history
<1>1. ASSUME Return(w) PROVE Untouched(v)
  BY <1>1 DEF Return
<1>2. CASE VisionFails(w) \/ DbError(w) \/ SweepDone(w)
  BY <1>1, <1>2 DEF VisionFails, DbError, SweepDone
<1>3. CASE VisionAnswers(w) \/ EnsureForLog(w) \/ Confirm(w)
  BY <1>3 DEF VisionAnswers, EnsureForLog, Confirm
<1>4. CASE InsertDetection(w)
  BY <1>1, <1>4 DEF InsertDetection
<1>5. CASE ListConfirmed(w) \/ GroupByIP(w) \/ FeedbackDone(w) \/ ListCandidates(w)
  BY <1>5 DEF ListConfirmed, GroupByIP, FeedbackDone, ListCandidates
<1>6. ASSUME NEW d, NEW fp, NEW b, Use(w, d, fp, b)
      PROVE  pc'[v] = pc[v] /\ target'[v] = target[v] /\ records'[v] = records[v]
  BY <1>6 DEF Use, Collect, Weigh
<1>7. CASE \E d \in Domain : ExtractCached(w, d)
  BY <1>6, <1>7 DEF ExtractCached
<1>8. CASE \E d \in Domain : ExtractMiss(w, d)
  BY <1>8 DEF ExtractMiss
<1>9. CASE LookupDone(w)
  BY <1>6, <1>9 DEF LookupDone
<1>10. CASE \E ip \in pending[w] : SelectCluster(w, ip)
  BY <1>10 DEF SelectCluster
<1>11. CASE WriteCluster(w) \/ AttachDomains(w)
  BY <1>11 DEF WriteCluster, AttachDomains
<1>12. CASE ListClusters(w)
  BY <1>1, <1>12 DEF ListClusters
<1>13. CASE BlockSibling(w)
  BY <1>1, <1>13 DEF BlockSibling
<1>14. CASE \E d \in Domain : Analyze(w, d)
  BY <1>14 DEF Analyze
<1>. QED
  BY <1>2, <1>3, <1>4, <1>5, <1>7, <1>8, <1>9, <1>10, <1>11, <1>12, <1>13, <1>14
     DEF ActsAs, Step

\* Rows stay on record under every writer of the domains table.
LEMMA RowsStay ==
    ASSUME NEW n \in Nat, row \in RowsType(n), NEW d \in Domain,
           \/ EnsureDomain(d) \/ UpsertBlocked(d, "L1") \/ UpsertBlocked(d, "L2")
    PROVE  /\ \A e \in Domain : row[e].status # "absent" => row'[e].status # "absent"
           /\ \A e \in Domain : row'[e].cluster = row[e].cluster
           /\ \A e \in Domain \ {d} : row'[e] = row[e]
           /\ row'[d].status # "absent"
           /\ EnsureDomain(d) => row'[d].source = row[d].source
           /\ UpsertBlocked(d, "L1") => row'[d].source = "L1"
           /\ UpsertBlocked(d, "L2") => row'[d].source = "L2"
BY DEF EnsureDomain, UpsertBlocked, RowsType

\* The write of a cluster appends a row or keeps its host and nameserver.
LEMMA ClusterWritten ==
    ASSUME IInv, NEW w \in Worker, WriteCluster(w)
    PROVE  \/ /\ slot[w] = 0
              /\ clusters' = Append(clusters, AsRow(BuildCluster(records[w], at[w])))
              /\ slot' = [slot EXCEPT ![w] = Len(clusters) + 1]
           \/ /\ slot[w] \in DOMAIN clusters
              /\ slot' = slot
              /\ DOMAIN clusters' = DOMAIN clusters
              /\ \A k \in DOMAIN clusters : clusters'[k].ip = clusters[k].ip
                                            /\ clusters'[k].ns = clusters[k].ns
<1>1. TypeOK
  BY DEF IInv
<1>2. clusters \in Seq(ClusterRows) /\ slot[w] \in 0..Len(clusters)
        /\ DOMAIN clusters = 1..Len(clusters) /\ Len(clusters) \in Nat
  BY <1>1 DEF TypeOK
<1>3. CASE slot[w] = 0
  BY <1>3 DEF WriteCluster
<1>4. CASE slot[w] # 0
  <2>. DEFINE c == BuildCluster(records[w], at[w])
  <2>1. slot[w] \in DOMAIN clusters
    BY <1>2, <1>4
  <2>2. slot' = slot /\ clusters' = [clusters EXCEPT ![slot[w]].count = c.count,
                                                     ![slot[w]].burst = c.burst]
    BY <1>4 DEF WriteCluster
  <2>3. \A k \in DOMAIN clusters : clusters[k] \in ClusterRows
    BY <1>2
  <2>. HIDE DEF c
  <2>. QED  BY <2>1, <2>2, <2>3 DEF ClusterRows
<1>. QED  BY <1>3, <1>4

LEMMA TablesGrow ==
    ASSUME IInv, [Next]_vars
    PROVE  Growing
<1>1. TypeOK
  BY DEF IInv
<1>2. Len(clusters) \in Nat /\ DOMAIN clusters = 1..Len(clusters)
        /\ row \in RowsType(Len(clusters))
  BY <1>1 DEF TypeOK, RowsType
<1>3. \A w \in Worker :
         pc[w] \in Analysing \cup Lookingup \cup {"block"} => target[w] \in Domain
  BY DEF IInv, WorkerInv, Locals
<1>4. ASSUME NEW w \in Worker,
             \/ EnsureForLog(w) \/ BlockSibling(w) \/ Confirm(w)
             \/ \E d \in Domain : Analyze(w, d)
      PROVE  Growing
  BY <1>1, <1>2, <1>3, <1>4, RowsStay
     DEF Growing, EnsureForLog, BlockSibling, Confirm, Analyze, Analysing, Lookingup, history
<1>5. ASSUME NEW w \in Worker, AttachDomains(w) PROVE Growing
  BY <1>2, <1>5 DEF Growing, AttachDomains, RowsType, history
<1>6. ASSUME NEW d \in Domain, Report(d) PROVE Growing
  BY <1>2, <1>6 DEF Growing, Report, RowsType, history
<1>7. ASSUME NEW w \in Worker, WriteCluster(w) PROVE Growing
  <2>1. row' = row /\ logged' = logged /\ confirmed' = confirmed
    BY <1>7 DEF WriteCluster, history
  <2>2. \A k \in DOMAIN clusters : /\ k \in DOMAIN clusters'
                                   /\ clusters'[k].ip = clusters[k].ip
                                   /\ clusters'[k].ns = clusters[k].ns
    <3>1. CASE clusters' = Append(clusters, AsRow(BuildCluster(records[w], at[w])))
      BY <1>1, <1>2, <3>1 DEF TypeOK
    <3>. QED  BY <1>7, <3>1, ClusterWritten
  <2>. QED  BY <2>1, <2>2 DEF Growing
<1>8. ASSUME NEW w \in Worker, InsertDetection(w) PROVE Growing
  BY <1>8 DEF Growing, InsertDetection, history
<1>9. CASE UNCHANGED <<row, clusters, logged, confirmed>>
  BY <1>9 DEF Growing
<1>. QED
  BY <1>4, <1>5, <1>6, <1>7, <1>8, <1>9
     DEF Next, Step, vars, tables, history, VisionFails, VisionAnswers,
         ListConfirmed, ExtractCached, ExtractMiss, LookupDone, GroupByIP,
         SelectCluster, FeedbackDone, ListCandidates, ListClusters, SweepDone,
         DbError, ScoreFingerprint, Crash

\* What holds of a worker keeps holding while others work.
LEMMA UntouchedStays ==
    ASSUME IInv, Growing, NEW v \in Worker, Untouched(v)
    PROVE  WorkerInv(v)'
<1>1. WorkerInv(v)
  BY DEF IInv
<1>2. TypeOK
  BY DEF IInv
<1>3. Locals(v)'
  <2>1. slot[v] # 0 => slot[v] \in DOMAIN clusters
    BY <1>2 DEF TypeOK
  <2>. QED  BY <1>1, <2>1 DEF WorkerInv, Locals, Untouched, Growing
<1>4. Collected(v)'
  BY <1>1 DEF WorkerInv, Collected, Untouched, Growing
<1>5. Justified(v)'
  <2>1. \A k \in DOMAIN known[v] : Grounded(confirmed', known[v][k])
    BY <1>1, GroundedMonotonic DEF WorkerInv, Justified, Growing
  <2>2. pc[v] = "block" => ImplicatedBy(confirmed', target[v])
    BY <1>1, ImplicatedMonotonic DEF WorkerInv, Justified, Growing
  <2>3. pc[v] = "confirm" => <<target[v], "judol">> \in logged'
    BY <1>1 DEF WorkerInv, Justified, Growing
  <2>. QED  BY <2>1, <2>2, <2>3 DEF Justified, Untouched
<1>6. OnRecord(v)'
  <2>1. pc[v] \in {"detect", "confirm", "lookup_candidate", "block"} => target[v] \in Domain
    BY <1>1 DEF WorkerInv, Locals, Analysing, Lookingup
  <2>2. todo[v] \subseteq Domain
    BY <1>2 DEF TypeOK
  <2>. QED  BY <1>1, <2>1, <2>2 DEF WorkerInv, OnRecord, Untouched, Growing
<1>. QED  BY <1>3, <1>4, <1>5, <1>6 DEF WorkerInv

\* Nothing is asked of a worker that is idle.
LEMMA IdleIsFine ==
    ASSUME NEW w \in Worker,
           pc'[w] = "idle", records'[w] = <<>>, pending'[w] = {}, known'[w] = <<>>
    PROVE  WorkerInv(w)'
<1>1. DOMAIN <<>> = {}
  OBVIOUS
<1>2. Locals(w)'
  BY DEF Locals, Analysing, Lookingup, Extracting, Upserting, Writing
<1>3. Collected(w)'
  BY <1>1 DEF Collected, Extracting
<1>4. Justified(w)'
  BY <1>1 DEF Justified
<1>5. OnRecord(w)'
  BY DEF OnRecord
<1>. QED  BY <1>2, <1>3, <1>4, <1>5 DEF WorkerInv

LEMMA ReturnIsFine ==
    ASSUME TypeOK, NEW w \in Worker, Return(w)
    PROVE  WorkerInv(w)'
BY IdleIsFine DEF TypeOK, Return, Goto

\* A fingerprint of a confirmed domain that was taken off the list is collected.
LEMMA CollectIsFine ==
    ASSUME IInv, Growing, NEW w \in Worker, NEW d \in Domain,
           NEW fp \in Observations(d), Collect(w, fp),
           d \in confirmed, d \notin todo'[w], todo'[w] \subseteq todo[w],
           \A i \in DOMAIN records[w] : records[w][i].domain # d,
           pc[w] \in Extracting,
           todo' \in [Worker -> SUBSET Domain],
           UNCHANGED <<pending, known, clusters, row>>
    PROVE  WorkerInv(w)'
<1>1. TypeOK /\ WorkerInv(w)
  BY DEF IInv
<1>2. fp.domain = d /\ fp \in Fingerprints
  BY ObservationFields
<1>3. records[w] \in Seq(Fingerprints)
  BY <1>1 DEF TypeOK
<1>4. records'[w] = Append(records[w], fp) /\ pc'[w] = "extract"
  BY <1>1 DEF Collect, Goto, TypeOK
<1>5. /\ DOMAIN records'[w] = 1..(Len(records[w]) + 1) /\ Len(records[w]) \in Nat
      /\ DOMAIN records[w] = 1..Len(records[w])
      /\ \A i \in DOMAIN records[w] : records'[w][i] = records[w][i]
      /\ records'[w][Len(records[w]) + 1] = fp
  BY <1>2, <1>3, <1>4
<1>6. \A i \in DOMAIN records'[w] : i \in DOMAIN records[w] \/ records'[w][i] = fp
  BY <1>5
<1>7. pending[w] = {}
  BY <1>1 DEF WorkerInv, Locals, Extracting, Upserting
<1>8. Locals(w)'
  BY <1>4, <1>7 DEF Locals, Analysing, Lookingup, Extracting, Upserting, Writing
<1>9. Collected(w)'
  <2>1. \A i \in DOMAIN records[w] : /\ records[w][i].domain \in confirmed
                                     /\ records[w][i] \in Observations(records[w][i].domain)
                                     /\ records[w][i].domain \notin todo[w]
    BY <1>1 DEF WorkerInv, Collected
  <2>2. \A i \in DOMAIN records'[w] :
           /\ records'[w][i].domain \in confirmed'
           /\ records'[w][i] \in Observations(records'[w][i].domain)
           /\ records'[w][i].domain \notin todo'[w]
    BY <1>2, <1>5, <1>6, <2>1 DEF Growing
  <2>3. \A i, j \in DOMAIN records'[w] :
           records'[w][i].domain = records'[w][j].domain => i = j
    <3>1. \A i, j \in DOMAIN records[w] :
             records[w][i].domain = records[w][j].domain => i = j
      BY <1>1 DEF WorkerInv, Collected
    <3>2. \A i \in DOMAIN records'[w] :
             i \in DOMAIN records[w] \/ i = Len(records[w]) + 1
      BY <1>5
    <3>. QED  BY <1>2, <1>5, <3>1, <3>2
  <2>4. todo'[w] \subseteq confirmed'
    BY <1>1 DEF WorkerInv, Collected, Growing
  <2>. QED  BY <1>4, <2>2, <2>3, <2>4 DEF Collected
<1>10. Justified(w)'
  BY <1>1, <1>4, GroundedMonotonic DEF WorkerInv, Justified, Growing
<1>11. OnRecord(w)'
  BY <1>4 DEF OnRecord
<1>. QED  BY <1>8, <1>9, <1>10, <1>11 DEF WorkerInv

\* A candidate is weighed: if it is to be blocked, the match implicates it.
LEMMA WeighIsFine ==
    ASSUME IInv, Growing, NEW w \in Worker, NEW d \in Domain,
           NEW fp \in Observations(d), Weigh(w, d, fp),
           row[d].status # "absent",
           \A e \in todo'[w] : row[e].status # "absent",
           pc[w] \in {"match", "lookup_candidate"},
           UNCHANGED <<pending, known, clusters, row>>
    PROVE  WorkerInv(w)'
<1>1. TypeOK /\ WorkerInv(w)
  BY DEF IInv
<1>2. CASE Matches(fp, known[w])
  <2>1. pc'[w] = "block" /\ target'[w] = d /\ records'[w] = records[w]
    BY <1>1, <1>2 DEF Weigh, Goto, TypeOK
  <2>2. records[w] = <<>> /\ pending[w] = {} /\ DOMAIN <<>> = {}
    BY <1>1 DEF WorkerInv, Locals, Extracting, Upserting
  <2>3. ImplicatedBy(confirmed, d)
    <3>1. known[w] \in Seq(ClusterRows) /\ confirmed \in SUBSET Domain
      BY <1>1 DEF TypeOK
    <3>2. \A k \in DOMAIN known[w] : Grounded(confirmed, known[w][k])
      BY <1>1 DEF WorkerInv, Justified
    <3>. QED  BY <1>2, <3>1, <3>2, MatchImplicates
  <2>4. Locals(w)'
    BY <2>1, <2>2 DEF Locals, Analysing, Lookingup, Extracting, Upserting, Writing
  <2>5. Collected(w)'
    BY <2>1, <2>2 DEF Collected, Extracting
  <2>6. Justified(w)'
    <3>1. \A k \in DOMAIN known[w] : Grounded(confirmed', known[w][k])
      BY <1>1, GroundedMonotonic DEF WorkerInv, Justified, Growing
    <3>2. ImplicatedBy(confirmed', d)
      BY <2>3, ImplicatedMonotonic DEF Growing
    <3>. QED  BY <2>1, <3>1, <3>2 DEF Justified
  <2>7. OnRecord(w)'
    BY <2>1 DEF OnRecord
  <2>. QED  BY <2>4, <2>5, <2>6, <2>7 DEF WorkerInv
<1>3. CASE ~ Matches(fp, known[w])
  <2>1. pc'[w] = "match" /\ records'[w] = records[w]
    BY <1>1, <1>3 DEF Weigh, Goto, TypeOK
  <2>2. records[w] = <<>> /\ pending[w] = {} /\ DOMAIN <<>> = {}
    BY <1>1 DEF WorkerInv, Locals, Extracting, Upserting
  <2>3. Locals(w)'
    BY <2>1, <2>2 DEF Locals, Analysing, Lookingup, Extracting, Upserting, Writing
  <2>4. Collected(w)'
    BY <2>1, <2>2 DEF Collected, Extracting
  <2>5. Justified(w)'
    BY <1>1, <2>1, GroundedMonotonic DEF WorkerInv, Justified, Growing
  <2>6. OnRecord(w)'
    BY <2>1 DEF OnRecord
  <2>. QED  BY <2>3, <2>4, <2>5, <2>6 DEF WorkerInv
<1>. QED  BY <1>2, <1>3

\* Whatever a worker does, what is asked of it holds at the step it reaches.
LEMMA OwnStep ==
    ASSUME IInv, Growing, TypeOK', NEW w \in Worker, ActsAs(w)
    PROVE  WorkerInv(w)'
<1>. USE DEF Goto
<1>0. TypeOK /\ WorkerInv(w)
  BY DEF IInv
<1>a. DOMAIN <<>> = {} /\ \A x : x \notin DOMAIN <<>>
  OBVIOUS
<1>b. DOMAIN clusters = 1..Len(clusters) /\ Len(clusters) \in Nat
  BY <1>0 DEF TypeOK
<1>c. row \in RowsType(Len(clusters))
  BY <1>0 DEF TypeOK, RowsType
<1>d. \A k : Grounded(confirmed, known[w][k]) => Grounded(confirmed', known[w][k])
  BY GroundedMonotonic DEF Growing
<1>. USE DEF Analysing, Lookingup, Extracting, Upserting, Writing
<1>1. ASSUME NEW d \in Domain, Analyze(w, d) PROVE WorkerInv(w)'
  <2>1. pc'[w] = "vision" /\ target'[w] = d /\ UNCHANGED scratch
    BY <1>0, <1>1 DEF Analyze, TypeOK
  <2>2. records[w] = <<>> /\ pending[w] = {}
    BY <1>0, <1>1 DEF WorkerInv, Locals, Analyze
  <2>. QED
    BY <1>0, <1>a, <1>d, <2>1, <2>2
       DEF WorkerInv, Locals, Collected, Justified, OnRecord, scratch
<1>2. CASE VisionFails(w) \/ DbError(w) \/ SweepDone(w)
  BY <1>0, <1>2, ReturnIsFine DEF VisionFails, DbError, SweepDone
<1>3. CASE VisionAnswers(w)
  <2>1. pc'[w] = "log" /\ verdict'[w] \in Verdicts /\ target'[w] \in Domain
          /\ UNCHANGED <<tables, cache, history, scratch>>
    BY <1>0, <1>3 DEF VisionAnswers, TypeOK
  <2>2. records[w] = <<>> /\ pending[w] = {}
    BY <1>0, <1>3 DEF WorkerInv, Locals, VisionAnswers
  <2>. QED
    BY <1>0, <1>a, <1>d, <2>1, <2>2
       DEF WorkerInv, Locals, Collected, Justified, OnRecord, scratch
<1>4. CASE EnsureForLog(w)
  <2>1. pc'[w] = "detect" /\ UNCHANGED <<target, verdict, scratch>>
    BY <1>0, <1>4 DEF EnsureForLog, TypeOK
  <2>2. records[w] = <<>> /\ pending[w] = {} /\ target[w] \in Domain /\ verdict[w] \in Verdicts
    BY <1>0, <1>4 DEF WorkerInv, Locals, EnsureForLog
  <2>3. row'[target[w]].status # "absent"
    BY <1>4, <1>b, <1>c, <2>2, RowsStay DEF EnsureForLog
  <2>. QED
    BY <1>0, <1>a, <1>d, <2>1, <2>2, <2>3
       DEF WorkerInv, Locals, Collected, Justified, OnRecord, scratch
<1>5. CASE InsertDetection(w)
  <2>1. CASE verdict[w] = "judol"
    <3>1. /\ pc'[w] = "confirm" /\ UNCHANGED <<row, target, verdict, scratch>>
          /\ <<target[w], "judol">> \in logged'
      BY <1>0, <1>5, <2>1 DEF InsertDetection, TypeOK
    <3>2. records[w] = <<>> /\ pending[w] = {} /\ target[w] \in Domain
            /\ row[target[w]].status # "absent"
      BY <1>0, <1>5 DEF WorkerInv, Locals, OnRecord, InsertDetection
    <3>. QED
      BY <1>0, <1>a, <1>d, <2>1, <3>1, <3>2
         DEF WorkerInv, Locals, Collected, Justified, OnRecord, scratch, Verdicts
  <2>2. CASE verdict[w] # "judol"
    BY <1>0, <1>5, <2>2, ReturnIsFine DEF InsertDetection
  <2>. QED  BY <2>1, <2>2
<1>6. CASE Confirm(w)
  <2>1. pc'[w] = "list" /\ UNCHANGED scratch
    BY <1>0, <1>6 DEF Confirm, TypeOK
  <2>2. records[w] = <<>> /\ pending[w] = {}
    BY <1>0, <1>6 DEF WorkerInv, Locals, Confirm
  <2>. QED
    BY <1>0, <1>a, <1>d, <2>1, <2>2
       DEF WorkerInv, Locals, Collected, Justified, OnRecord, scratch
<1>7. CASE ListConfirmed(w)
  <2>1. pc'[w] = "extract" /\ todo'[w] = Confirmed
          /\ UNCHANGED <<tables, history, records, pending, known>>
    BY <1>0, <1>7 DEF ListConfirmed, TypeOK
  <2>2. records[w] = <<>> /\ pending[w] = {}
    BY <1>0, <1>7 DEF WorkerInv, Locals, ListConfirmed
  <2>3. Confirmed \subseteq confirmed
    BY DEF Confirmed, IInv, SourceTrue
  <2>. QED
    BY <1>0, <1>a, <1>d, <2>1, <2>2, <2>3
       DEF WorkerInv, Locals, Collected, Justified, OnRecord, history
<1>8. ASSUME NEW d \in Domain, ExtractCached(w, d) PROVE WorkerInv(w)'
  <2>1. cache[d] \in Observations(d)
    BY <1>8 DEF ExtractCached, IInv, CacheTrue
  <2>2. /\ todo'[w] = todo[w] \ {d} /\ d \in todo[w] /\ pc[w] \in {"extract", "match"}
        /\ todo' \in [Worker -> SUBSET Domain]
        /\ UNCHANGED <<pending, known, clusters, row>>
    BY <1>0, <1>8 DEF ExtractCached, TypeOK, tables
  <2>3. CASE pc[w] = "extract"
    <3>1. Collect(w, cache[d])
      BY <1>8, <2>3 DEF ExtractCached, Use
    <3>2. d \in confirmed /\ \A i \in DOMAIN records[w] : records[w][i].domain # d
      BY <1>0, <2>2, <2>3 DEF WorkerInv, Collected
    <3>. QED  BY <2>1, <2>2, <2>3, <3>1, <3>2, CollectIsFine
  <2>4. CASE pc[w] = "match"
    <3>1. Weigh(w, d, cache[d])
      BY <1>8, <2>4 DEF ExtractCached, Use
    <3>2. \A e \in todo[w] : row[e].status # "absent"
      BY <1>0, <2>4 DEF WorkerInv, OnRecord
    <3>. QED  BY <2>1, <2>2, <2>4, <3>1, <3>2, WeighIsFine
  <2>. QED  BY <2>2, <2>3, <2>4
<1>9. ASSUME NEW d \in Domain, ExtractMiss(w, d) PROVE WorkerInv(w)'
  <2>1. /\ todo'[w] = todo[w] \ {d} /\ d \in todo[w] /\ target'[w] = d
        /\ \/ pc[w] = "extract" /\ pc'[w] = "lookup_confirmed"
           \/ pc[w] = "match" /\ pc'[w] = "lookup_candidate"
        /\ UNCHANGED <<records, pending, known, clusters, row, confirmed>>
    BY <1>0, <1>9 DEF ExtractMiss, TypeOK, tables, history
  <2>2. CASE pc[w] = "extract" /\ pc'[w] = "lookup_confirmed"
    BY <1>0, <1>d, <2>1, <2>2 DEF WorkerInv, Locals, Collected, Justified, OnRecord
  <2>3. CASE pc[w] = "match" /\ pc'[w] = "lookup_candidate"
    <3>1. records[w] = <<>> /\ pending[w] = {}
      BY <1>0, <2>3 DEF WorkerInv, Locals
    <3>. QED
      BY <1>0, <1>a, <1>d, <2>1, <2>3, <3>1
         DEF WorkerInv, Locals, Collected, Justified, OnRecord
  <2>. QED  BY <2>1, <2>2, <2>3
<1>10. CASE LookupDone(w)
  <2>1. target[w] \in Domain
    BY <1>0, <1>10 DEF LookupDone, WorkerInv, Locals
  <2>2. PICK fp \in Observations(target[w]) :
           Use(w, target[w], fp, pc[w] = "lookup_confirmed")
    BY <1>10 DEF LookupDone
  <2>3. UNCHANGED <<todo, pending, known, clusters, row>> /\ todo' \in [Worker -> SUBSET Domain]
          /\ pc[w] \in {"lookup_confirmed", "lookup_candidate"}
    BY <1>0, <1>10 DEF LookupDone, tables, TypeOK
  <2>4. CASE pc[w] = "lookup_confirmed"
    <3>1. Collect(w, fp)
      BY <2>2, <2>4 DEF Use
    <3>2. /\ target[w] \in confirmed /\ target[w] \notin todo[w]
          /\ \A i \in DOMAIN records[w] : records[w][i].domain # target[w]
      BY <1>0, <2>4 DEF WorkerInv, Collected
    <3>. QED  BY <2>1, <2>2, <2>3, <2>4, <3>1, <3>2, CollectIsFine
  <2>5. CASE pc[w] = "lookup_candidate"
    <3>1. Weigh(w, target[w], fp)
      BY <2>2, <2>5 DEF Use
    <3>2. row[target[w]].status # "absent" /\ \A e \in todo[w] : row[e].status # "absent"
      BY <1>0, <2>5 DEF WorkerInv, OnRecord
    <3>. QED  BY <2>1, <2>2, <2>3, <2>5, <3>1, <3>2, WeighIsFine
  <2>. QED  BY <2>3, <2>4, <2>5
<1>11. CASE GroupByIP(w)
  <2>1. pc'[w] = "select" /\ pending'[w] = ClusterIPs(records[w])
          /\ UNCHANGED <<tables, history, records, known>>
    BY <1>0, <1>11 DEF GroupByIP, TypeOK
  <2>. QED
    BY <1>0, <1>d, <1>11, <2>1
       DEF WorkerInv, Locals, Collected, Justified, OnRecord, history, GroupByIP
<1>12. ASSUME NEW ip \in pending[w], SelectCluster(w, ip) PROVE WorkerInv(w)'
  <2>1. /\ pc'[w] = "write" /\ at'[w] = ip /\ pending'[w] = pending[w] \ {ip}
        /\ slot'[w] # 0 => clusters[slot'[w]].ip = ip
        /\ UNCHANGED <<tables, history, records, known>>
    BY <1>0, <1>12 DEF SelectCluster, TypeOK
  <2>. QED
    BY <1>0, <1>d, <1>12, <2>1
       DEF WorkerInv, Locals, Collected, Justified, OnRecord, history, tables, SelectCluster
<1>13. CASE WriteCluster(w)
  <2>1. pc'[w] = "attach" /\ UNCHANGED <<row, history, records, pending, at, known>>
          /\ pc[w] = "write"
    BY <1>0, <1>13 DEF WriteCluster, TypeOK
  <2>2. at[w] \in ClusterIPs(records[w]) /\ records[w] \in Seq(Fingerprints)
    BY <1>0, <2>1 DEF WorkerInv, Locals, TypeOK
  <2>3. AsRow(BuildCluster(records[w], at[w])).ip = at[w]
          /\ AsRow(BuildCluster(records[w], at[w])) \in ClusterRows
    BY <2>2, BuiltRow DEF AsRow, BuildCluster
  <2>4. slot'[w] # 0 /\ clusters'[slot'[w]].ip = at[w]
    <3>1. CASE slot[w] = 0
      <4>1. /\ clusters' = Append(clusters, AsRow(BuildCluster(records[w], at[w])))
            /\ slot'[w] = Len(clusters) + 1
        BY <1>0, <1>13, <1>b, <3>1, ClusterWritten DEF TypeOK
      <4>2. clusters \in Seq(ClusterRows)
        BY <1>0 DEF TypeOK
      <4>3. clusters'[Len(clusters) + 1] = AsRow(BuildCluster(records[w], at[w]))
        BY <2>3, <4>1, <4>2
      <4>. QED  BY <1>b, <2>3, <4>1, <4>3
    <3>2. CASE slot[w] # 0
      <4>1. slot' = slot /\ slot[w] \in DOMAIN clusters
              /\ clusters'[slot[w]].ip = clusters[slot[w]].ip
        BY <1>13, <3>2, ClusterWritten
      <4>2. clusters[slot[w]].ip = at[w]
        BY <1>0, <2>1, <3>2 DEF WorkerInv, Locals
      <4>. QED  BY <3>2, <4>1, <4>2
    <3>. QED  BY <3>1, <3>2
  <2>. QED
    BY <1>0, <1>d, <2>1, <2>2, <2>4
       DEF WorkerInv, Locals, Collected, Justified, OnRecord, history
<1>14. CASE AttachDomains(w)
  <2>1. pc'[w] = "select" /\ UNCHANGED <<history, records, pending, known>> /\ pc[w] = "attach"
    BY <1>0, <1>14 DEF AttachDomains, TypeOK
  <2>. QED
    BY <1>0, <1>d, <2>1 DEF WorkerInv, Locals, Collected, Justified, OnRecord, history
<1>15. CASE FeedbackDone(w)
  <2>1. pc'[w] = "candidates" /\ records'[w] = <<>> /\ pending[w] = {}
          /\ UNCHANGED <<history, pending, known>>
    BY <1>0, <1>15 DEF FeedbackDone, TypeOK
  <2>. QED
    BY <1>0, <1>a, <1>d, <2>1
       DEF WorkerInv, Locals, Collected, Justified, OnRecord, history
<1>16. CASE ListCandidates(w)
  <2>1. pc'[w] = "clusters" /\ todo'[w] = Candidates
          /\ UNCHANGED <<tables, history, records, pending, known>>
    BY <1>0, <1>16 DEF ListCandidates, TypeOK
  <2>2. records[w] = <<>> /\ pending[w] = {}
    BY <1>0, <1>16 DEF WorkerInv, Locals, ListCandidates
  <2>3. \A e \in Candidates : row'[e].status # "absent"
    BY <2>1 DEF Candidates, tables
  <2>. QED
    BY <1>0, <1>a, <1>d, <2>1, <2>2, <2>3
       DEF WorkerInv, Locals, Collected, Justified, OnRecord, history
<1>17. CASE ListClusters(w)
  <2>1. CASE clusters = <<>>
    BY <1>0, <1>17, <2>1, ReturnIsFine DEF ListClusters
  <2>2. CASE clusters # <<>>
    <3>1. pc'[w] = "match" /\ known'[w] = clusters
            /\ UNCHANGED <<tables, history, todo, records, pending>>
      BY <1>0, <1>17, <2>2 DEF ListClusters, TypeOK
    <3>2. records[w] = <<>> /\ pending[w] = {} /\ \A e \in todo[w] : row[e].status # "absent"
      BY <1>0, <1>17 DEF WorkerInv, Locals, OnRecord, ListClusters
    <3>3. \A k \in DOMAIN clusters : Grounded(confirmed', clusters[k])
      BY GroundedMonotonic DEF IInv, ClustersGrounded, Growing
    <3>. QED
      BY <1>a, <3>1, <3>2, <3>3
         DEF WorkerInv, Locals, Collected, Justified, OnRecord, tables
  <2>. QED  BY <2>1, <2>2
<1>18. CASE BlockSibling(w) /\ Return(w)
  BY <1>0, <1>18, ReturnIsFine
<1>19. CASE BlockSibling(w) /\ ~ Return(w)
  <2>1. pc'[w] = "match" /\ UNCHANGED <<history, scratch>>
    BY <1>0, <1>19 DEF BlockSibling, TypeOK
  <2>2. records[w] = <<>> /\ pending[w] = {} /\ todo[w] \subseteq Domain
          /\ \A e \in todo[w] : row[e].status # "absent"
    BY <1>0, <1>19 DEF WorkerInv, Locals, OnRecord, BlockSibling, TypeOK
  <2>. QED
    BY <1>0, <1>a, <1>d, <2>1, <2>2
       DEF WorkerInv, Locals, Collected, Justified, OnRecord, history, scratch, Growing
<1>. QED
  BY <1>1, <1>2, <1>3, <1>4, <1>5, <1>6, <1>7, <1>8, <1>9, <1>10, <1>11, <1>12,
     <1>13, <1>14, <1>15, <1>16, <1>17, <1>18, <1>19 DEF ActsAs, Step

-----------------------------------------------------------------------------
(* The tables *)

\* Every cluster row that is written is grounded in its worker's records.
LEMMA ClustersStayGrounded ==
    ASSUME IInv, Growing, [Next]_vars
    PROVE  ClustersGrounded'
<1>1. \A k \in DOMAIN clusters : Grounded(confirmed', clusters[k])
  BY GroundedMonotonic DEF IInv, ClustersGrounded, Growing
<1>2. ASSUME NEW w \in Worker, WriteCluster(w) PROVE ClustersGrounded'
  <2>. DEFINE c == AsRow(BuildCluster(records[w], at[w]))
  <2>1. TypeOK /\ WorkerInv(w) /\ pc[w] = "write" /\ confirmed' = confirmed
    BY <1>2 DEF IInv, WriteCluster, history
  <2>2. records[w] \in Seq(Fingerprints) /\ at[w] \in ClusterIPs(records[w])
          /\ confirmed \in SUBSET Domain /\ clusters \in Seq(ClusterRows)
    BY <2>1 DEF TypeOK, WorkerInv, Locals, Writing
  <2>3. Grounded(confirmed, c)
    BY <2>1, <2>2, BuiltGrounded DEF WorkerInv, Collected
  <2>. HIDE DEF c
  <2>4. CASE clusters' = Append(clusters, c)
    <3>1. \A k \in DOMAIN clusters' :
             \/ clusters'[k] = c
             \/ k \in DOMAIN clusters /\ clusters'[k] = clusters[k]
      <4>1. DOMAIN clusters = 1..Len(clusters) /\ Len(clusters) \in Nat
              /\ DOMAIN clusters' = 1..(Len(clusters) + 1)
        BY <2>2, <2>4
      <4>. QED  BY <2>2, <2>4, <4>1
    <3>. QED  BY <1>1, <2>1, <2>3, <3>1 DEF ClustersGrounded
  <2>5. CASE /\ DOMAIN clusters' = DOMAIN clusters
             /\ \A k \in DOMAIN clusters : /\ clusters'[k].ip = clusters[k].ip
                                           /\ clusters'[k].ns = clusters[k].ns
    BY <1>1, <2>5 DEF ClustersGrounded, Grounded
  <2>. QED  BY <1>2, <2>4, <2>5, ClusterWritten DEF c
<1>3. CASE clusters' = clusters
  BY <1>1, <1>3 DEF ClustersGrounded
<1>. QED
  BY <1>2, <1>3
     DEF Next, Step, vars, tables, Analyze, VisionFails, VisionAnswers,
         EnsureForLog, InsertDetection, Confirm, ListConfirmed, ExtractCached,
         ExtractMiss, LookupDone, GroupByIP, SelectCluster, AttachDomains,
         FeedbackDone, ListCandidates, ListClusters, BlockSibling, SweepDone,
         Report, ScoreFingerprint, DbError, Crash

\* Only Extract writes the cache.
LEMMA CacheStaysTrue ==
    ASSUME IInv, [Next]_vars
    PROVE  CacheTrue'
<1>1. cache \in [Domain -> Fingerprints \cup {NoValue}] /\ CacheTrue
  BY DEF IInv, TypeOK
<1>2. ASSUME NEW w \in Worker, LookupDone(w) PROVE CacheTrue'
  <2>1. target[w] \in Domain
    BY <1>2 DEF IInv, WorkerInv, Locals, Lookingup, LookupDone
  <2>. QED  BY <1>1, <1>2, <2>1 DEF LookupDone, CacheTrue
<1>3. ASSUME NEW d \in Domain, ScoreFingerprint(d) PROVE CacheTrue'
  BY <1>1, <1>3 DEF ScoreFingerprint, CacheTrue
<1>4. CASE Crash
  BY <1>4 DEF Crash, CacheTrue
<1>5. CASE cache' = cache
  BY <1>1, <1>5 DEF CacheTrue
<1>. QED
  BY <1>2, <1>3, <1>4, <1>5
     DEF Next, Step, vars, Analyze, VisionFails, VisionAnswers,
         EnsureForLog, InsertDetection, Confirm, ListConfirmed, ExtractCached,
         ExtractMiss, GroupByIP, SelectCluster, WriteCluster, AttachDomains,
         FeedbackDone, ListCandidates, ListClusters, BlockSibling, SweepDone,
         Report, DbError

\* The statement of the four invariants over the domains table.
RowsTrue == SourceTrue /\ MembersOnHost /\ ColdStart /\ BlockedHasDetection

\* They survive a step that keeps source and cluster of every row.
LEMMA SourcesKept ==
    ASSUME IInv, Growing,
           \A d \in Domain : row'[d].source = row[d].source
                             /\ row'[d].cluster = row[d].cluster
    PROVE  RowsTrue'
<1>1. \A d \in Domain : row[d].cluster # 0 => row[d].cluster \in DOMAIN clusters
  BY DEF IInv, TypeOK
<1>2. SourceTrue' /\ BlockedHasDetection'
  BY DEF IInv, SourceTrue, BlockedHasDetection, Growing
<1>3. MembersOnHost'
  BY <1>1 DEF IInv, MembersOnHost, Growing
<1>4. ColdStart'
  BY ImplicatedMonotonic DEF IInv, ColdStart, Growing
<1>. QED  BY <1>2, <1>3, <1>4 DEF RowsTrue

LEMMA RowsStep ==
    ASSUME IInv, Growing, [Next]_vars
    PROVE  RowsTrue'
<1>1. TypeOK /\ RowsTrue
  BY DEF IInv, RowsTrue
<1>2. row \in RowsType(Len(clusters)) /\ Len(clusters) \in Nat
        /\ \A d \in Domain : row[d].cluster # 0 => row[d].cluster \in DOMAIN clusters
  BY <1>1 DEF TypeOK, RowsType
<1>3. ASSUME NEW w \in Worker, \/ EnsureForLog(w)
                               \/ \E d \in Domain : Analyze(w, d)
      PROVE  RowsTrue'
  <2>1. EnsureForLog(w) => target[w] \in Domain
    BY DEF IInv, WorkerInv, Locals, Analysing, EnsureForLog
  <2>2. \A d \in Domain : row'[d].source = row[d].source
                          /\ row'[d].cluster = row[d].cluster
    BY <1>2, <1>3, <2>1, RowsStay DEF EnsureForLog, Analyze
  <2>. QED  BY <2>2, SourcesKept
<1>4. ASSUME NEW w \in Worker, Confirm(w) PROVE RowsTrue'
  <2>1. target[w] \in Domain /\ <<target[w], "judol">> \in logged
    BY <1>4 DEF IInv, WorkerInv, Locals, Justified, Analysing, Confirm
  <2>2. /\ row'[target[w]].source = "L2"
        /\ \A e \in Domain : row'[e].cluster = row[e].cluster
        /\ \A e \in Domain \ {target[w]} : row'[e] = row[e]
    BY <1>2, <1>4, <2>1, RowsStay DEF Confirm
  <2>3. confirmed' = confirmed \cup {target[w]} /\ logged' = logged /\ clusters' = clusters
    BY <1>4 DEF Confirm
  <2>4. SourceTrue' /\ BlockedHasDetection'
    BY <1>1, <2>1, <2>2, <2>3 DEF RowsTrue, SourceTrue, BlockedHasDetection
  <2>5. MembersOnHost'
    BY <1>1, <2>2, <2>3 DEF RowsTrue, MembersOnHost
  <2>6. ColdStart'
    BY <1>1, <2>2, ImplicatedMonotonic DEF RowsTrue, ColdStart, Growing
  <2>. QED  BY <2>4, <2>5, <2>6 DEF RowsTrue
<1>5. ASSUME NEW w \in Worker, AttachDomains(w) PROVE RowsTrue'
  <2>. DEFINE members == BuildCluster(records[w], at[w]).domains
  <2>1. /\ records[w] \in Seq(Fingerprints) /\ at[w] \in ClusterIPs(records[w])
        /\ slot[w] # 0 /\ clusters[slot[w]].ip = at[w] /\ confirmed \in SUBSET Domain
    BY <1>1, <1>5 DEF IInv, TypeOK, WorkerInv, Locals, Writing, AttachDomains
  <2>2. \A d \in members : d \in confirmed /\ Actual[d].ip = at[w]
    <3>1. WorkerInv(w)
      BY DEF IInv
    <3>. QED  BY <2>1, <3>1, BuiltGrounded DEF WorkerInv, Collected
  <2>. HIDE DEF members
  <2>3. \A d \in Domain : row'[d] = IF d \in members
                                    THEN [row[d] EXCEPT !.cluster = slot[w]] ELSE row[d]
    BY <1>5 DEF AttachDomains, members
  <2>4. \A d \in Domain :
           /\ row'[d].source = row[d].source
           /\ row'[d].cluster = IF d \in members THEN slot[w] ELSE row[d].cluster
    BY <1>2, <2>3 DEF RowsType
  <2>5. clusters' = clusters /\ logged' = logged /\ confirmed' = confirmed
    BY <1>5 DEF AttachDomains, history
  <2>6. MembersOnHost'
    BY <1>1, <2>1, <2>2, <2>4, <2>5 DEF RowsTrue, MembersOnHost
  <2>7. SourceTrue' /\ BlockedHasDetection' /\ ColdStart'
    BY <1>1, <2>4, <2>5 DEF RowsTrue, SourceTrue, BlockedHasDetection, ColdStart
  <2>. QED  BY <2>6, <2>7 DEF RowsTrue
<1>6. ASSUME NEW w \in Worker, BlockSibling(w) PROVE RowsTrue'
  <2>1. target[w] \in Domain /\ ImplicatedBy(confirmed, target[w])
    BY <1>6 DEF IInv, WorkerInv, Locals, Justified, BlockSibling
  <2>2. /\ row'[target[w]].source = "L1"
        /\ \A e \in Domain : row'[e].cluster = row[e].cluster
        /\ \A e \in Domain \ {target[w]} : row'[e] = row[e]
    BY <1>2, <1>6, <2>1, RowsStay DEF BlockSibling
  <2>3. clusters' = clusters /\ logged' = logged /\ confirmed' = confirmed
    BY <1>6 DEF BlockSibling, history
  <2>. QED
    BY <1>1, <2>1, <2>2, <2>3
       DEF RowsTrue, SourceTrue, BlockedHasDetection, MembersOnHost, ColdStart
<1>7. ASSUME NEW d \in Domain, Report(d) PROVE RowsTrue'
  <2>1. \A e \in Domain : row'[e].source = row[e].source
                          /\ row'[e].cluster = row[e].cluster
    BY <1>2, <1>7 DEF Report, RowsType
  <2>. QED  BY <2>1, SourcesKept
<1>8. CASE row' = row
  BY <1>8, SourcesKept
<1>. QED
  BY <1>3, <1>4, <1>5, <1>6, <1>7, <1>8
     DEF Next, Step, vars, tables, VisionFails, VisionAnswers,
         InsertDetection, ListConfirmed, ExtractCached, ExtractMiss, LookupDone,
         GroupByIP, SelectCluster, WriteCluster, FeedbackDone, ListCandidates,
         ListClusters, SweepDone, ScoreFingerprint, DbError, Crash

-----------------------------------------------------------------------------
(* The invariant *)

LEMMA InitIInv ==
    ASSUME Init
    PROVE  IInv
<1>1. clusters = <<>> /\ Len(clusters) = 0 /\ DOMAIN clusters = {}
  BY DEF Init
<1>2. TypeOK
  BY <1>1, FeedbackAssumption
     DEF Init, TypeOK, Statuses, Steps, Values
<1>3. ASSUME NEW w \in Worker PROVE WorkerInv(w)
  <2>1. pc[w] = "idle" /\ records[w] = <<>> /\ pending[w] = {} /\ known[w] = <<>>
    BY DEF Init
  <2>2. DOMAIN <<>> = {}
    OBVIOUS
  <2>3. Locals(w)
    BY <2>1 DEF Locals, Analysing, Lookingup, Extracting, Upserting, Writing
  <2>4. Collected(w)
    BY <2>1, <2>2 DEF Collected, Extracting
  <2>5. Justified(w) /\ OnRecord(w)
    BY <2>1, <2>2 DEF Justified, OnRecord
  <2>. QED  BY <2>3, <2>4, <2>5 DEF WorkerInv
<1>4. ClustersGrounded /\ CacheTrue
  BY <1>1 DEF Init, ClustersGrounded, CacheTrue
<1>5. \A d \in Domain : row[d].source = NoValue /\ row[d].cluster = 0
  BY DEF Init
<1>6. NoValue # "L1" /\ NoValue # "L2"
  BY FeedbackAssumption
<1>7. SourceTrue /\ MembersOnHost /\ ColdStart /\ BlockedHasDetection
  BY <1>5, <1>6 DEF SourceTrue, MembersOnHost, ColdStart, BlockedHasDetection
<1>. QED  BY <1>2, <1>3, <1>4, <1>7 DEF IInv

LEMMA IInvStep ==
    ASSUME IInv, [Next]_vars
    PROVE  IInv'
<1>1. TypeOK' /\ Growing
  BY TypeStep, TablesGrow
<1>2. ASSUME NEW v \in Worker PROVE WorkerInv(v)'
  <2>1. ASSUME NEW w \in Worker, ActsAs(w) PROVE WorkerInv(v)'
    <3>1. CASE v = w
      BY <1>1, <2>1, <3>1, OwnStep
    <3>2. CASE v # w
      BY <1>1, <2>1, <3>2, OthersUntouched, UntouchedStays DEF IInv
    <3>. QED  BY <3>1, <3>2
  <2>2. CASE Crash
    BY <2>2, IdleIsFine DEF Crash
  <2>3. CASE (\E d \in Domain : Report(d) \/ ScoreFingerprint(d)) \/ UNCHANGED vars
    <3>1. Untouched(v)
      BY <2>3 DEF Untouched, Report, ScoreFingerprint, vars, scratch
    <3>. QED  BY <1>1, <3>1, UntouchedStays
  <2>. QED  BY <2>1, <2>2, <2>3 DEF Next, ActsAs
<1>3. ClustersGrounded' /\ CacheTrue' /\ RowsTrue'
  BY <1>1, ClustersStayGrounded, CacheStaysTrue, RowsStep
<1>. QED  BY <1>1, <1>2, <1>3 DEF IInv, RowsTrue

\* The strengthened invariant holds in every reachable state.
THEOREM Invariant == Spec => []IInv
<1>1. Init => IInv
  BY InitIInv
<1>2. IInv /\ [Next]_vars => IInv'
  BY IInvStep
<1>. QED  BY <1>1, <1>2, PTL DEF Spec

\* Tables, cache and locals hold values of their kind.
THEOREM TypeCorrect == Spec => []TypeOK
<1>1. IInv => TypeOK
  BY DEF IInv
<1>. QED  BY <1>1, Invariant, PTL

\* However requests interleave and whatever fails, Layer 1 blocks only domains
\* that two confirmations on one host implicate.
THEOREM ColdStartHolds == Spec => []ColdStart
<1>1. IInv => ColdStart
  BY DEF IInv
<1>. QED  BY <1>1, Invariant, PTL

\* The members of a cluster are confirmed domains of its host, duplicate
\* cluster rows and overtaken SELECTs notwithstanding.
THEOREM MembersOnHostHolds == Spec => []MembersOnHost
<1>1. IInv => MembersOnHost
  BY DEF IInv
<1>. QED  BY <1>1, Invariant, PTL

\* A Layer 2 block always has its detection on record.
THEOREM BlockedHasDetectionHolds == Spec => []BlockedHasDetection
<1>1. IInv => BlockedHasDetection
  BY DEF IInv
<1>. QED  BY <1>1, Invariant, PTL

-----------------------------------------------------------------------------
(* Where verdicts come from *)

Deciding == {"log", "detect", "confirm"}

\* A worker holds a verdict only while it decides, and one that was given.
VerdictHeld(w) ==
    /\ verdict[w] # NoValue => <<target[w], verdict[w]>> \in given
    /\ pc[w] \notin Deciding => verdict[w] = NoValue

VisionInv == VerdictsGiven /\ \A w \in Worker : VerdictHeld(w)

\* What AnalyzeCached returns was given, now or when the file was written.
LEMMA AnswersGiven ==
    ASSUME IInv, VisionInv, NEW d \in Domain, NEW e \in Domain,
           NEW v \in Verdicts \cup {NoValue}, AnalyzeCached(d, e, v)
    PROVE  /\ given \subseteq given'
           /\ v # NoValue => <<e, v>> \in given'
           /\ \A f \in Files : saved'[f] \subseteq given'
<1>1. saved \in [Files -> SUBSET (Domain \X Verdicts)] /\ FileOf[d] \in Files
  BY DEF IInv, TypeOK, Files
<1>2. \A f \in Files : saved[f] \subseteq given
  BY DEF VisionInv, VerdictsGiven
<1>3. CASE v # NoValue /\ e = d /\ SaveVerdict(d, v) /\ given' = given \cup {<<d, v>>}
  <2>1. saved' \in {[saved EXCEPT ![FileOf[d]] = {<<d, v>>}],
                    saved, [saved EXCEPT ![FileOf[d]] = {}]}
    BY <1>3 DEF SaveVerdict
  <2>2. \A f \in Files : saved'[f] \in {saved[f], {<<d, v>>}, {}}
    BY <1>1, <2>1
  <2>. QED  BY <1>2, <1>3, <2>2
<1>4. CASE (<<e, v>> \in saved[FileOf[d]] \/ v = NoValue) /\ UNCHANGED vision
  BY <1>1, <1>2, <1>4 DEF vision
<1>. QED  BY <1>3, <1>4 DEF AnalyzeCached, Replies

LEMMA VisionInvStep ==
    ASSUME IInv, VisionInv, [Next]_vars
    PROVE  VisionInv'
<1>1. TypeOK
  BY DEF IInv
<1>2. NoValue \notin Verdicts
  BY FeedbackAssumption DEF Verdicts
<1>3. \A w \in Worker : pc[w] \in Analysing => target[w] \in Domain
  BY DEF IInv, WorkerInv, Locals
<1>4. /\ given \subseteq given'
      /\ \A f \in Files : saved'[f] \subseteq given'
  <2>1. ASSUME NEW w \in Worker, VisionFails(w) \/ VisionAnswers(w)
        PROVE  /\ given \subseteq given'
               /\ \A f \in Files : saved'[f] \subseteq given'
    <3>1. target[w] \in Domain
      BY <1>3, <2>1 DEF VisionFails, VisionAnswers, Analysing
    <3>2. PICK e \in Domain, v \in Verdicts \cup {NoValue} : AnalyzeCached(target[w], e, v)
      BY <2>1, <3>1 DEF VisionFails, VisionAnswers
    <3>. QED  BY <3>1, <3>2, AnswersGiven
  <2>2. CASE \A w \in Worker : ~ VisionFails(w) /\ ~ VisionAnswers(w)
    BY <2>2, OnlyVision DEF vision, VisionInv, VerdictsGiven
  <2>. QED  BY <2>1, <2>2
<1>5. ASSUME NEW w \in Worker, ActsAs(w) PROVE VerdictHeld(w)'
  <2>. USE <1>1 DEF TypeOK, Goto
  <2>1. VerdictHeld(w)
    BY DEF VisionInv
  <2>2. ASSUME Return(w) PROVE VerdictHeld(w)'
    BY <2>2 DEF Return, VerdictHeld, Deciding
  <2>3. CASE VisionFails(w) \/ DbError(w) \/ SweepDone(w)
    BY <2>2, <2>3 DEF VisionFails, DbError, SweepDone
  <2>4. CASE VisionAnswers(w)
    <3>1. PICK e \in Domain, v \in Verdicts : /\ AnalyzeCached(target[w], e, v)
                                              /\ target' = [target EXCEPT ![w] = e]
                                              /\ verdict' = [verdict EXCEPT ![w] = v]
      BY <2>4 DEF VisionAnswers
    <3>2. <<e, v>> \in given'
      BY <1>2, <1>3, <2>4, <3>1, AnswersGiven DEF VisionAnswers, Analysing
    <3>. QED  BY <2>4, <3>1, <3>2 DEF VisionAnswers, VerdictHeld, Deciding
  <2>5. CASE EnsureForLog(w)
    BY <2>1, <2>5 DEF EnsureForLog, VerdictHeld, Deciding, vision
  <2>6. CASE InsertDetection(w)
    BY <2>1, <2>2, <2>6 DEF InsertDetection, VerdictHeld, Deciding, vision
  <2>7. CASE Confirm(w)
    BY <2>7 DEF Confirm, VerdictHeld, Deciding
  <2>8. ASSUME pc[w] \notin Deciding, pc'[w] \notin Deciding, verdict' = verdict
        PROVE  VerdictHeld(w)'
    BY <2>1, <2>8 DEF VerdictHeld
  <2>9. ASSUME NEW d, NEW fp, NEW b, Use(w, d, fp, b) PROVE pc'[w] \notin Deciding
    BY <2>9 DEF Use, Collect, Weigh, Deciding
  <2>10. CASE \E d \in Domain : ExtractCached(w, d)
    BY <2>8, <2>9, <2>10 DEF ExtractCached, Deciding
  <2>11. CASE LookupDone(w)
    BY <2>8, <2>9, <2>11 DEF LookupDone, Deciding
  <2>12. CASE \E d \in Domain : ExtractMiss(w, d)
    BY <2>8, <2>12 DEF ExtractMiss, Deciding
  <2>13. CASE \E ip \in pending[w] : SelectCluster(w, ip)
    BY <2>8, <2>13 DEF SelectCluster, Deciding
  <2>14. CASE ListConfirmed(w) \/ GroupByIP(w) \/ FeedbackDone(w) \/ ListCandidates(w)
    BY <2>8, <2>14 DEF ListConfirmed, GroupByIP, FeedbackDone, ListCandidates, Deciding
  <2>15. CASE WriteCluster(w) \/ AttachDomains(w)
    BY <2>8, <2>15 DEF WriteCluster, AttachDomains, Deciding
  <2>16. CASE ListClusters(w)
    BY <2>2, <2>8, <2>16 DEF ListClusters, Deciding
  <2>17. CASE BlockSibling(w)
    BY <2>2, <2>8, <2>17 DEF BlockSibling, Deciding
  <2>18. CASE \E d \in Domain : Analyze(w, d)
    BY <2>8, <2>18 DEF Analyze, Deciding
  <2>. QED
    BY <1>5, <2>3, <2>4, <2>5, <2>6, <2>7, <2>10, <2>11, <2>12, <2>13, <2>14,
       <2>15, <2>16, <2>17, <2>18 DEF ActsAs, Step
<1>6. ASSUME NEW v \in Worker, Untouched(v) PROVE VerdictHeld(v)'
  BY <1>4, <1>6 DEF Untouched, VisionInv, VerdictHeld
<1>7. ASSUME NEW v \in Worker PROVE VerdictHeld(v)'
  <2>1. ASSUME NEW w \in Worker, ActsAs(w) PROVE VerdictHeld(v)'
    BY <1>1, <1>5, <1>6, <2>1, OthersUntouched
  <2>2. CASE Crash
    BY <2>2 DEF Crash, VerdictHeld
  <2>3. CASE (\E d \in Domain : Report(d) \/ ScoreFingerprint(d)) \/ UNCHANGED vars
    <3>1. Untouched(v)
      BY <2>3 DEF Untouched, Report, ScoreFingerprint, vars, scratch
    <3>. QED  BY <1>6, <3>1
  <2>. QED  BY <2>1, <2>2, <2>3 DEF Next, ActsAs
<1>8. logged' \subseteq given'
  <2>1. ASSUME NEW w \in Worker, InsertDetection(w) PROVE logged' \subseteq given'
    <3>1. verdict[w] # NoValue
      BY <1>2, <2>1 DEF InsertDetection, IInv, WorkerInv, Locals
    <3>2. <<target[w], verdict[w]>> \in given
      BY <3>1 DEF VisionInv, VerdictHeld
    <3>. QED  BY <1>4, <2>1, <3>2 DEF InsertDetection, VisionInv, VerdictsGiven
  <2>2. CASE logged' = logged
    BY <1>4, <2>2 DEF VisionInv, VerdictsGiven
  <2>. QED
    BY <2>1, <2>2
       DEF Next, Step, vars, tables, Analyze, VisionFails, VisionAnswers,
           EnsureForLog, Confirm, ListConfirmed, ExtractCached, ExtractMiss,
           LookupDone, ScoreFingerprint, GroupByIP, SelectCluster, WriteCluster,
           AttachDomains, FeedbackDone, ListCandidates, ListClusters,
           BlockSibling, SweepDone, Report, DbError, Crash
<1>. QED  BY <1>4, <1>7, <1>8 DEF VisionInv, VerdictsGiven, VerdictHeld

\* Every verdict that was logged, or is being acted upon, was once given by
\* Gemini for the domain it is logged under or acts upon, whatever calls, files
\* and processes failed and whichever domains share a file; the request that
\* led to it may have been about another of these.
THEOREM VerdictsGivenHolds == Spec => []VerdictsGiven
<1>1. Init => VisionInv
  BY DEF Init, VisionInv, VerdictsGiven, VerdictHeld
<1>2. IInv /\ VisionInv /\ [Next]_vars => VisionInv'
  BY VisionInvStep
<1>3. VisionInv => VerdictsGiven
  BY DEF VisionInv
<1>. QED  BY <1>1, <1>2, <1>3, Invariant, PTL DEF Spec

-----------------------------------------------------------------------------
(* The loop implements the ledger of verdicts *)

LEMMA LedgerStep ==
    ASSUME IInv, [Next]_vars
    PROVE  [Ledger!Next]_(Ledger!vars)
<1>1. TypeOK
  BY DEF IInv
<1>2. /\ Len(clusters) \in Nat /\ row \in RowsType(Len(clusters))
      /\ \A d \in Domain : row[d].status \in Statuses
  BY <1>1 DEF TypeOK, RowsType
<1>3. Shown' = [d \in Domain |-> [status |-> row'[d].status, source |-> row'[d].source]]
  BY DEF Shown
<1>4. ASSUME NEW d \in Domain, EnsureDomain(d), confirmed' = confirmed
      PROVE  [Ledger!Next]_(Ledger!vars)
  <2>1. CASE row[d].status = "absent"
    <3>1. row' = [row EXCEPT ![d].status = "candidate"]
      BY <1>4, <2>1 DEF EnsureDomain
    <3>2. Shown' = [Shown EXCEPT ![d].status = "candidate"] /\ Shown[d].status = "absent"
      BY <1>2, <1>3, <2>1, <3>1 DEF Shown, RowsType
    <3>. QED  BY <1>4, <3>2 DEF Ledger!Register, Ledger!Next
  <2>2. CASE row[d].status # "absent"
    BY <1>4, <2>2 DEF EnsureDomain, Shown, Ledger!vars
  <2>. QED  BY <2>1, <2>2
<1>5. ASSUME NEW w \in Worker, EnsureForLog(w) \/ \E d \in Domain : Analyze(w, d)
      PROVE  [Ledger!Next]_(Ledger!vars)
  <2>1. EnsureForLog(w) => target[w] \in Domain
    BY DEF IInv, WorkerInv, Locals, Analysing, EnsureForLog
  <2>2. CASE row' = row
    BY <1>5, <2>2 DEF EnsureForLog, Analyze, history, Shown, Ledger!vars
  <2>. QED  BY <1>4, <1>5, <2>1, <2>2 DEF EnsureForLog, Analyze, history
<1>6. ASSUME NEW w \in Worker, Confirm(w) PROVE [Ledger!Next]_(Ledger!vars)
  <2>1. target[w] \in Domain /\ row[target[w]].status # "absent"
    BY <1>6 DEF IInv, WorkerInv, Locals, OnRecord, Analysing, Confirm
  <2>2. row' = [row EXCEPT ![target[w]].status = "blocked", ![target[w]].source = "L2"]
          /\ confirmed' = confirmed \cup {target[w]}
    BY <1>6 DEF Confirm, UpsertBlocked
  <2>3. Shown' = [Shown EXCEPT ![target[w]] = [status |-> "blocked", source |-> "L2"]]
          /\ Shown[target[w]].status # "absent"
    BY <1>2, <1>3, <2>1, <2>2 DEF Shown, RowsType
  <2>. QED  BY <2>1, <2>2, <2>3 DEF Ledger!Confirm, Ledger!Next
<1>7. ASSUME NEW w \in Worker, BlockSibling(w) PROVE [Ledger!Next]_(Ledger!vars)
  <2>1. target[w] \in Domain /\ row[target[w]].status # "absent"
          /\ ImplicatedBy(confirmed, target[w])
    BY <1>7 DEF IInv, WorkerInv, Locals, OnRecord, Justified, BlockSibling
  <2>2. row' = [row EXCEPT ![target[w]].status = "blocked", ![target[w]].source = "L1"]
          /\ confirmed' = confirmed
    BY <1>7 DEF BlockSibling, UpsertBlocked, history
  <2>3. Shown' = [Shown EXCEPT ![target[w]] = [status |-> "blocked", source |-> "L1"]]
          /\ Shown[target[w]].status # "absent"
    BY <1>2, <1>3, <2>1, <2>2 DEF Shown, RowsType
  <2>4. Ledger!Evidence
    BY <2>1 DEF ImplicatedBy, Ledger!Evidence
  <2>. QED  BY <2>1, <2>2, <2>3, <2>4 DEF Ledger!Preempt, Ledger!Next
<1>8. ASSUME NEW d \in Domain, Report(d) PROVE [Ledger!Next]_(Ledger!vars)
  <2>1. Shown' = [Shown EXCEPT ![d].status = "false_pos"] /\ Shown[d].status # "absent"
          /\ confirmed' = confirmed
    BY <1>2, <1>3, <1>8 DEF Shown, RowsType, Report, history
  <2>. QED  BY <2>1 DEF Ledger!Retract, Ledger!Next
<1>9. ASSUME NEW w \in Worker, AttachDomains(w) PROVE [Ledger!Next]_(Ledger!vars)
  <2>1. \A d \in Domain : row'[d].status = row[d].status /\ row'[d].source = row[d].source
    BY <1>2, <1>9 DEF AttachDomains, RowsType
  <2>2. Shown' = Shown /\ confirmed' = confirmed
    BY <1>3, <1>9, <2>1 DEF Shown, AttachDomains, history
  <2>. QED  BY <2>2 DEF Ledger!vars
<1>10. CASE UNCHANGED <<row, confirmed>>
  BY <1>10 DEF Shown, Ledger!vars
<1>. QED
  BY <1>5, <1>6, <1>7, <1>8, <1>9, <1>10
     DEF Next, Step, vars, tables, history, VisionFails, VisionAnswers,
         InsertDetection, ListConfirmed, ExtractCached, ExtractMiss, LookupDone,
         GroupByIP, SelectCluster, WriteCluster, FeedbackDone, ListCandidates,
         ListClusters, SweepDone, ScoreFingerprint, DbError, Crash

\* Every behaviour of the loop, seen through status and source of its rows, is
\* a behaviour of the ledger: no step of any interleaving does anything else.
THEOREM Refinement == Spec => RefinesLedger
<1>1. Init => Ledger!Init
  BY DEF Init, Ledger!Init, Shown
<1>2. IInv /\ [Next]_vars => [Ledger!Next]_(Ledger!vars)
  BY LedgerStep
<1>. QED  BY <1>1, <1>2, Invariant, PTL DEF Spec, RefinesLedger, Ledger!Spec
=============================================================================
