--------------------------- MODULE NeighboursProofs ---------------------------
(***************************************************************************)
(* Why no confirmed pair of one host stays without a cluster, however many  *)
(* workers interleave, when no statement and no lookup fails: the worker    *)
(* that confirms the second domain of the pair takes both to the database.  *)
(***************************************************************************)
EXTENDS FeedbackLoopProofs

\* No statement fails, the process stays up and every lookup answers.
Reliable == ~Faulty /\ LookupFailures = {{}}

\* The confirmed domains a worker has on its list, at hand, or collected.
Underway(w) ==
    todo[w] \cup {records[w][i].domain : i \in DOMAIN records[w]}
      \cup IF pc[w] = "lookup_confirmed" THEN {target[w]} ELSE {}

\* The hosts whose clusters a worker has yet to write.
Unwritten(w) == pending[w] \cup IF pc[w] \in Writing THEN {at[w]} ELSE {}

\* Worker w is going to attach d to the cluster of the host it shares with e.
Brings(w, d, e) ==
    \/ pc[w] = "list"
    \/ pc[w] \in Extracting /\ {d, e} \subseteq Underway(w)
    \/ /\ pc[w] \in Upserting
       /\ Actual[d].ip \in Unwritten(w)
       /\ d \in BuildCluster(records[w], Actual[d].ip).domains

Neighbours == {p \in Confirmed \X Confirmed : p[1] # p[2] /\ SameHost(p[1], p[2])}

\* A confirmed domain with a confirmed neighbour is in a cluster or on its way.
Brought ==
    \A p \in Neighbours :
        row[p[1]].cluster # 0 \/ \E w \in Worker : Brings(w, p[1], p[2])

-----------------------------------------------------------------------------
(* What a step does to rows, pairs and records *)

\* A domain stays in a cluster, and enters the list of Layer 2 only when a
\* worker confirms it.
LEMMA RowsMove ==
    ASSUME IInv, [Next]_vars
    PROVE  /\ \A d \in Domain : row[d].cluster # 0 => row'[d].cluster # 0
           /\ Confirmed' \subseteq Confirmed \/ \E w \in Worker : Confirm(w)
<1>1. TypeOK
  BY DEF IInv
<1>2. row \in RowsType(Len(clusters)) /\ Len(clusters) \in Nat
  BY <1>1 DEF TypeOK, RowsType
<1>. DEFINE Kept == /\ \A d \in Domain : row[d].cluster # 0 => row'[d].cluster # 0
                    /\ Confirmed' \subseteq Confirmed
<1>3. ASSUME NEW d \in Domain, EnsureDomain(d) PROVE Kept
  BY <1>2, <1>3 DEF EnsureDomain, RowsType, Confirmed
<1>4. ASSUME NEW w \in Worker, EnsureForLog(w) \/ \E d \in Domain : Analyze(w, d)
      PROVE  Kept
  <2>1. EnsureForLog(w) => target[w] \in Domain
    BY DEF IInv, WorkerInv, Locals, Analysing, EnsureForLog
  <2>2. CASE row' = row
    BY <2>2 DEF Confirmed
  <2>. QED  BY <1>3, <1>4, <2>1, <2>2 DEF EnsureForLog, Analyze
<1>5. ASSUME NEW w \in Worker, BlockSibling(w) PROVE Kept
  <2>1. target[w] \in Domain /\ UpsertBlocked(target[w], "L1")
    BY <1>5 DEF IInv, WorkerInv, Locals, Analysing, BlockSibling
  <2>. QED  BY <1>2, <2>1, RowsStay DEF Confirmed
<1>6. ASSUME NEW w \in Worker, Confirm(w)
      PROVE  \A d \in Domain : row[d].cluster # 0 => row'[d].cluster # 0
  <2>1. target[w] \in Domain /\ UpsertBlocked(target[w], "L2")
    BY <1>6 DEF IInv, WorkerInv, Locals, Analysing, Confirm
  <2>. QED  BY <1>2, <2>1, RowsStay
<1>7. ASSUME NEW w \in Worker, AttachDomains(w) PROVE Kept
  <2>1. slot[w] # 0
    BY <1>7 DEF IInv, WorkerInv, Locals, AttachDomains
  <2>2. \A d \in Domain : /\ row'[d].status = row[d].status
                          /\ row'[d].source = row[d].source
                          /\ row'[d].cluster \in {row[d].cluster, slot[w]}
    BY <1>2, <1>7 DEF AttachDomains, RowsType
  <2>. QED  BY <2>1, <2>2 DEF Confirmed
<1>8. ASSUME NEW d \in Domain, Report(d) PROVE Kept
  BY <1>2, <1>8 DEF Report, RowsType, Confirmed
<1>9. CASE row' = row
  BY <1>9 DEF Confirmed
<1>. QED
  BY <1>4, <1>5, <1>6, <1>7, <1>8, <1>9
     DEF Next, Step, vars, tables, VisionFails, VisionAnswers,
         InsertDetection, ListConfirmed, ExtractCached, ExtractMiss, LookupDone,
         GroupByIP, SelectCluster, WriteCluster, FeedbackDone, ListCandidates,
         ListClusters, SweepDone, ScoreFingerprint, DbError, Crash

\* When lookups answer, what is observed of a host is the truth.
LEMMA HostObserved ==
    ASSUME Reliable, NEW d \in Domain, NEW fp \in Observations(d)
    PROVE  fp.ip = Actual[d].ip /\ fp.domain = d
<1>1. fp = Extract(Actual[d], {})
  BY DEF Observations, Reliable
<1>2. Actual[d] = [domain |-> d, ip |-> Actual[d].ip, ns |-> Actual[d].ns,
                   registrar |-> Actual[d].registrar, tld |-> Actual[d].tld,
                   registered |-> Actual[d].registered]
  BY FeedbackAssumption
<1>. QED  BY <1>1, <1>2 DEF Extract, Unless

\* Records of two domains of one host make a cluster, and it has both.
LEMMA PairMakesCluster ==
    ASSUME NEW recs, NEW i \in DOMAIN recs, NEW j \in DOMAIN recs,
           i # j, recs[i].ip = recs[j].ip, recs[i].ip # NoValue
    PROVE  /\ recs[i].ip \in ClusterIPs(recs)
           /\ recs[i].domain \in BuildCluster(recs, recs[i].ip).domains
<1>1. i \in Group(recs, recs[i].ip) /\ j \in Group(recs, recs[i].ip)
  BY DEF Group
<1>2. recs[i].ip \in ClusterIPs(recs)
  BY <1>1 DEF ClusterIPs, KnownIPs
<1>. QED  BY <1>1, <1>2 DEF BuildCluster

-----------------------------------------------------------------------------
(* A worker keeps what it brings until it has attached it. *)

LEMMA BringsOwn ==
    ASSUME IInv, Reliable, NEW w \in Worker, ActsAs(w),
           NEW d \in Confirmed, NEW e \in Confirmed, d # e, SameHost(d, e),
           Brings(w, d, e)
    PROVE  row'[d].cluster # 0 \/ Brings(w, d, e)'
<1>. USE DEF Goto
<1>1. /\ TypeOK /\ Locals(w) /\ Collected(w) /\ CacheTrue
      /\ d \in Domain /\ e \in Domain
  BY DEF IInv, WorkerInv, Confirmed
<1>2. pc[w] \in {"list", "extract", "lookup_confirmed", "select", "write", "attach"}
  BY DEF Brings, Extracting, Upserting
<1>3. CASE ListConfirmed(w)
  <2>1. pc'[w] = "extract" /\ todo'[w] = Confirmed
    BY <1>1, <1>3 DEF ListConfirmed, TypeOK
  <2>. QED  BY <2>1 DEF Brings, Extracting, Underway
<1>4. ASSUME NEW f \in Domain, NEW fp \in Observations(f), Collect(w, fp),
             pc[w] \in Extracting,
             Underway(w) \subseteq todo'[w] \cup {f}
                            \cup {records[w][i].domain : i \in DOMAIN records[w]}
      PROVE  Brings(w, d, e)'
  <2>1. records[w] \in Seq(Fingerprints) /\ fp \in Fingerprints /\ fp.domain = f
    BY <1>1, ObservationFields DEF TypeOK
  <2>2. records'[w] = Append(records[w], fp) /\ pc'[w] = "extract"
    BY <1>1, <1>4 DEF Collect, TypeOK
  <2>3. /\ DOMAIN records'[w] = 1..(Len(records[w]) + 1) /\ Len(records[w]) \in Nat
        /\ DOMAIN records[w] = 1..Len(records[w])
        /\ \A i \in DOMAIN records[w] : records'[w][i] = records[w][i]
        /\ records'[w][Len(records[w]) + 1] = fp
    BY <2>1, <2>2
  <2>4. /\ {records[w][i].domain : i \in DOMAIN records[w]}
             \subseteq {records'[w][i].domain : i \in DOMAIN records'[w]}
        /\ f \in {records'[w][i].domain : i \in DOMAIN records'[w]}
    <3>1. DOMAIN records[w] \subseteq DOMAIN records'[w]
            /\ Len(records[w]) + 1 \in DOMAIN records'[w]
      BY <2>3
    <3>. QED  BY <2>1, <2>3, <3>1
  <2>5. {d, e} \subseteq Underway(w)
    BY <1>4 DEF Brings, Extracting, Upserting
  <2>6. {d, e} \subseteq Underway(w)'
    BY <1>4, <2>4, <2>5 DEF Underway
  <2>. QED  BY <2>2, <2>6 DEF Brings, Extracting
<1>5. ASSUME NEW f \in Domain, ExtractCached(w, f) PROVE Brings(w, d, e)'
  <2>1. pc[w] = "extract" /\ cache[f] \in Observations(f)
    BY <1>1, <1>2, <1>5 DEF ExtractCached, CacheTrue
  <2>2. Collect(w, cache[f])
    BY <1>5, <2>1 DEF ExtractCached, Use
  <2>3. todo'[w] = todo[w] \ {f}
    BY <1>1, <1>5 DEF ExtractCached, TypeOK
  <2>. QED  BY <1>4, <2>1, <2>2, <2>3 DEF Underway, Extracting
<1>6. ASSUME NEW f \in Domain, ExtractMiss(w, f) PROVE Brings(w, d, e)'
  <2>1. pc[w] = "extract"
    BY <1>2, <1>6 DEF ExtractMiss
  <2>2. /\ pc'[w] = "lookup_confirmed" /\ todo'[w] = todo[w] \ {f} /\ target'[w] = f
        /\ records'[w] = records[w]
    BY <1>1, <1>6, <2>1 DEF ExtractMiss, TypeOK
  <2>3. {d, e} \subseteq Underway(w)
    BY <2>1 DEF Brings, Upserting
  <2>4. {d, e} \subseteq Underway(w)'
    BY <2>1, <2>2, <2>3 DEF Underway
  <2>. QED  BY <2>2, <2>4 DEF Brings, Extracting
<1>7. CASE LookupDone(w)
  <2>1. pc[w] = "lookup_confirmed" /\ target[w] \in Domain
    BY <1>1, <1>2, <1>7 DEF LookupDone, Locals, Lookingup
  <2>2. PICK fp \in Observations(target[w]) : Collect(w, fp)
    BY <1>7, <2>1 DEF LookupDone, Use
  <2>3. todo'[w] = todo[w]
    BY <1>7 DEF LookupDone
  <2>. QED  BY <1>4, <2>1, <2>2, <2>3 DEF Underway, Extracting
<1>8. CASE GroupByIP(w)
  <2>1. /\ pc[w] = "extract" /\ todo[w] = {} /\ pc'[w] = "select"
        /\ pending'[w] = ClusterIPs(records[w]) /\ records'[w] = records[w]
    BY <1>1, <1>8 DEF GroupByIP, TypeOK
  <2>2. {d, e} \subseteq {records[w][i].domain : i \in DOMAIN records[w]}
    BY <2>1 DEF Brings, Underway, Upserting
  <2>3. PICK i \in DOMAIN records[w], j \in DOMAIN records[w] :
            records[w][i].domain = d /\ records[w][j].domain = e
    BY <2>2
  <2>4. records[w][i].ip = Actual[d].ip /\ records[w][j].ip = Actual[e].ip
    BY <1>1, <2>3, HostObserved DEF Collected
  <2>5. Actual[d].ip = Actual[e].ip /\ Actual[d].ip # NoValue
    BY DEF SameHost, Same
  <2>6. Actual[d].ip \in ClusterIPs(records[w])
          /\ d \in BuildCluster(records[w], Actual[d].ip).domains
    BY <2>3, <2>4, <2>5, PairMakesCluster
  <2>. QED  BY <2>1, <2>6 DEF Brings, Unwritten, Upserting
<1>9. ASSUME NEW ip, SelectCluster(w, ip) PROVE Brings(w, d, e)'
  <2>1. /\ pc[w] = "select" /\ pc'[w] = "write" /\ at'[w] = ip
        /\ pending'[w] = pending[w] \ {ip} /\ records'[w] = records[w]
    BY <1>1, <1>9 DEF SelectCluster, TypeOK
  <2>. QED  BY <2>1 DEF Brings, Unwritten, Upserting, Writing, Extracting
<1>10. CASE WriteCluster(w)
  <2>1. /\ pc[w] = "write" /\ pc'[w] = "attach" /\ at'[w] = at[w]
        /\ pending'[w] = pending[w] /\ records'[w] = records[w]
    BY <1>1, <1>10 DEF WriteCluster, TypeOK
  <2>. QED  BY <2>1 DEF Brings, Unwritten, Upserting, Writing, Extracting
<1>11. CASE AttachDomains(w)
  <2>1. /\ pc[w] = "attach" /\ pc'[w] = "select" /\ slot[w] # 0
        /\ pending'[w] = pending[w] /\ records'[w] = records[w]
    BY <1>1, <1>11 DEF AttachDomains, TypeOK, Locals
  <2>2. /\ Actual[d].ip \in pending[w] \cup {at[w]}
        /\ d \in BuildCluster(records[w], Actual[d].ip).domains
    BY <2>1 DEF Brings, Unwritten, Upserting, Writing, Extracting
  <2>3. CASE Actual[d].ip = at[w]
    <3>1. row'[d] = [row[d] EXCEPT !.cluster = slot[w]]
      BY <1>1, <1>11, <2>2, <2>3 DEF AttachDomains
    <3>. QED  BY <1>1, <2>1, <3>1 DEF TypeOK
  <2>4. CASE Actual[d].ip \in pending[w]
    BY <2>1, <2>2, <2>4 DEF Brings, Unwritten, Upserting
  <2>. QED  BY <2>2, <2>3, <2>4
<1>12. ~ FeedbackDone(w)
  BY DEF FeedbackDone, Brings, Unwritten, Upserting, Writing, Extracting
<1>13. ~ DbError(w)
  BY DEF DbError, Reliable
<1>. QED
  BY <1>2, <1>3, <1>5, <1>6, <1>7, <1>8, <1>9, <1>10, <1>11, <1>12, <1>13
     DEF ActsAs, Step, Analyze, VisionFails, VisionAnswers, EnsureForLog,
         InsertDetection, Confirm, ListCandidates, ListClusters, BlockSibling,
         SweepDone

\* The others do not disturb it.
LEMMA BringsStays ==
    ASSUME NEW v, Untouched(v), NEW d, NEW e, Brings(v, d, e)
    PROVE  Brings(v, d, e)'
BY DEF Brings, Untouched, Underway, Unwritten

\* Whoever completes a pair brings it; whoever brings one keeps at it.
LEMMA BroughtStep ==
    ASSUME IInv, Reliable, Brought, [Next]_vars
    PROVE  Brought'
<1>1. TypeOK
  BY DEF IInv
<1>2. SUFFICES ASSUME NEW d \in Confirmed', NEW e \in Confirmed', d # e, SameHost(d, e)
               PROVE  row'[d].cluster # 0 \/ \E v \in Worker : Brings(v, d, e)'
  <2>1. \A p \in Neighbours' : /\ p[1] \in Confirmed' /\ p[2] \in Confirmed'
                               /\ p[1] # p[2] /\ SameHost(p[1], p[2])
    BY DEF Neighbours, SameHost
  <2>. QED  BY <1>2, <2>1 DEF Brought
<1>3. CASE \E w \in Worker : Confirm(w)
  <2>1. PICK w \in Worker : Confirm(w)
    BY <1>3
  <2>2. pc'[w] = "list"
    BY <1>1, <2>1 DEF Confirm, Goto, TypeOK
  <2>. QED  BY <2>2 DEF Brings
<1>4. CASE Confirmed' \subseteq Confirmed
  <2>1. d \in Confirmed /\ e \in Confirmed /\ d \in Domain
    BY <1>2, <1>4 DEF Confirmed
  <2>2. CASE row[d].cluster # 0
    BY <2>1, <2>2, RowsMove
  <2>3. CASE \E v \in Worker : Brings(v, d, e)
    <3>1. PICK v \in Worker : Brings(v, d, e)
      BY <2>3
    <3>2. CASE \E w \in Worker : ActsAs(w)
      <4>1. PICK w \in Worker : ActsAs(w)
        BY <3>2
      <4>2. CASE v = w
        BY <1>2, <2>1, <3>1, <4>1, <4>2, BringsOwn
      <4>3. CASE v # w
        <5>1. Untouched(v)
          BY <1>1, <4>1, <4>3, OthersUntouched
        <5>. QED  BY <3>1, <5>1, BringsStays
      <4>. QED  BY <4>2, <4>3
    <3>3. CASE (\E f \in Domain : Report(f) \/ ScoreFingerprint(f)) \/ UNCHANGED vars
      <4>1. Untouched(v)
        BY <3>3 DEF Untouched, Report, ScoreFingerprint, vars, scratch
      <4>. QED  BY <3>1, <4>1, BringsStays
    <3>4. ~ Crash
      BY DEF Crash, Reliable
    <3>. QED  BY <3>2, <3>3, <3>4 DEF Next, ActsAs
  <2>4. <<d, e>> \in Neighbours
    BY <1>2, <2>1 DEF Neighbours
  <2>. QED  BY <2>2, <2>3, <2>4 DEF Brought
<1>. QED  BY <1>3, <1>4, RowsMove

\* Once no worker is busy, two domains that Layer 2 holds on the list and that
\* share a host are both attached to a cluster: whichever worker confirmed the
\* later of the two found both when it listed the confirmed domains.
THEOREM NeighboursClusteredHolds == Spec => []NeighboursClustered
<1>1. Reliable /\ Brought => NeighboursClustered
  <2>1. SUFFICES ASSUME Brought, Quiet,
                        NEW d \in Confirmed, NEW e \in Confirmed,
                        d # e, SameHost(d, e)
                 PROVE  row[d].cluster # 0 /\ row[e].cluster # 0
    BY DEF NeighboursClustered
  <2>2. \A w \in Worker, f \in Domain, g \in Domain : ~ Brings(w, f, g)
    BY <2>1 DEF Quiet, Brings, Extracting, Upserting
  <2>3. <<d, e>> \in Neighbours /\ <<e, d>> \in Neighbours
    BY <2>1 DEF Neighbours, SameHost, Same
  <2>. QED  BY <2>1, <2>2, <2>3 DEF Brought, Confirmed
<1>2. ~ Reliable => NeighboursClustered
  BY DEF Reliable, NeighboursClustered
<1>3. CASE ~ Reliable
  BY <1>2, <1>3, PTL
<1>4. CASE Reliable
  <2>1. Init => Brought
    BY DEF Init, Brought, Neighbours, Confirmed
  <2>2. IInv /\ Brought /\ [Next]_vars => Brought'
    BY <1>4, BroughtStep
  <2>3. Brought => NeighboursClustered
    BY <1>1, <1>4
  <2>. QED  BY <2>1, <2>2, <2>3, Invariant, PTL DEF Spec
<1>. QED  BY <1>3, <1>4
=============================================================================
