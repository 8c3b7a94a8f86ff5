------------------------------- MODULE Readers -------------------------------
(***************************************************************************)
(* Those who read the tables while the loop writes them: GET /domains/{id}, *)
(* GET /domains, the script scripts/bootstrap_run and GET /bootstrap/latest. *)
(* Each puts an answer together from several statements, without a          *)
(* transaction: the loop goes on between any two of them.                   *)
(*                                                                          *)
(* Readers do not disturb each other, so one at a time is enough.  The rows *)
(* of bootstrap_runs are not kept: GET /bootstrap/latest answers with what   *)
(* some run has recorded, and nothing else reads them.                      *)
(***************************************************************************)
EXTENDS FeedbackLoop

CONSTANTS
    Listed,     \* the candidates file of the script
    Filters     \* the status and source a caller of GET /domains asks for

ASSUME ReadersAssumption ==
    /\ Listed \subseteq Domain
    /\ Filters \subseteq [status : Statuses \cup {NoValue},
                          source : Sources \cup {NoValue}]

VARIABLE reader     \* where the reader stands and what it has read so far

allVars == <<vars, reader>>

Nobody == [at |-> "idle"]

ReadersInit == Init /\ reader = Nobody

\* The answer is sent, or a statement fails and the reader gives up.
Leave ==
    /\ reader # Nobody
    /\ reader' = Nobody
    /\ UNCHANGED vars

-----------------------------------------------------------------------------
(* GET /domains/{id}: the row, its detections, its cluster, its siblings *)

\* No row, no answer: 404.
ReadDomain(d) ==
    /\ reader = Nobody
    /\ row[d].status # "absent"
    /\ reader' = [at |-> "domain", domain |-> d, cluster |-> row[d].cluster]
    /\ UNCHANGED vars

Detail(r, shared, siblings) ==
    [at |-> "detail", domain |-> r.domain, cluster |-> r.cluster,
     detections |-> r.detections, shared |-> shared, siblings |-> siblings]

ReadDetections ==
    /\ reader.at = "domain"
    /\ LET r == [at |-> "detections", domain |-> reader.domain,
                 cluster |-> reader.cluster,
                 detections |-> {v \in Verdicts : <<reader.domain, v>> \in logged}]
       IN  reader' = IF r.cluster = 0 THEN Detail(r, NoValue, {}) ELSE r
    /\ UNCHANGED vars

\* Mutant: the siblings are those of the same nameserver.
ByNameserver(r) ==
    {e \in Domain : Same(Actual[e].ns, Actual[r.domain].ns) /\ e # r.domain}

Siblings(r) == {e \in Domain : row[e].cluster = r.cluster /\ e # r.domain}

\* The nameserver the cluster shows; when that statement fails, none.
ReadCluster ==
    /\ reader.at = "detections"
    /\ \E ns \in {clusters[reader.cluster].ns, NoValue} :
          reader' = [at |-> "cluster", domain |-> reader.domain,
                     cluster |-> reader.cluster,
                     detections |-> reader.detections, shared |-> ns]
    /\ UNCHANGED vars

ReadSiblings ==
    /\ reader.at = "cluster"
    /\ reader' = Detail(reader, reader.shared, Siblings(reader))
    /\ UNCHANGED vars

-----------------------------------------------------------------------------
(* GET /domains: a page, then the count *)

Selected(f) ==
    {d \in Domain : /\ row[d].status # "absent"
                    /\ f.status \in {row[d].status, NoValue}
                    /\ f.source \in {row[d].source, NoValue}}

\* Limit and offset leave any number of rows of the selection.
ReadPage(f) ==
    /\ reader = Nobody
    /\ \E n \in 0..Cardinality(Selected(f)) :
          reader' = [at |-> "page", filter |-> f, items |-> n]
    /\ UNCHANGED vars

\* Mutant: only rows that some layer has decided are counted.
CountDecided ==
    /\ reader.at = "page"
    /\ reader' = [at |-> "list", filter |-> reader.filter, items |-> reader.items,
                  total |-> Cardinality({d \in Selected(reader.filter) :
                                           row[d].source # NoValue})]
    /\ UNCHANGED vars

CountDomains ==
    /\ reader.at = "page"
    /\ reader' = [at |-> "list", filter |-> reader.filter, items |-> reader.items,
                  total |-> Cardinality(Selected(reader.filter))]
    /\ UNCHANGED vars

-----------------------------------------------------------------------------
(* scripts/bootstrap_run, a process of its own with its own Extractor *)

ListForRun ==
    /\ reader = Nobody
    /\ reader' = [at |-> "script", confirmed |-> Confirmed]
    /\ UNCHANGED vars

\* Mutant: no assertion against leakage.
TrustTheFile ==
    /\ reader.at = "script"
    /\ \E failed \in [Listed -> LookupFailures] :
          reader' = [at |-> "run", confirmed |-> reader.confirmed,
                     caught |-> {d \in Listed :
                         Matches(Extract(Actual[d], failed[d]), clusters)}]
    /\ UNCHANGED vars

\* Run, after ListClusters: a candidate that was confirmed ends the script.
\* Nothing of it touches the tables, so that it is one step with the reading.
RunScript ==
    /\ reader.at = "script"
    /\ IF Listed \cap reader.confirmed # {}
       THEN reader' = Nobody
       ELSE \E failed \in [Listed -> LookupFailures] :
               reader' = [at |-> "run", confirmed |-> reader.confirmed,
                          caught |-> {d \in Listed :
                              Matches(Extract(Actual[d], failed[d]), clusters)}]
    /\ UNCHANGED vars

\* The ratio the script prints and GET /bootstrap/latest shows, 0 when it
\* would divide by 0.
Ratio(n, m) == IF n > 0 THEN [num |-> m, den |-> n] ELSE [num |-> 0, den |-> 1]

RecordBootstrapRun ==
    /\ reader.at = "run"
    /\ LET n == Cardinality(reader.confirmed)
           m == Cardinality(reader.caught)
       IN  reader' = [at |-> "recorded", confirmations |-> n, catches |-> m,
                      misses |-> Cardinality(Listed) - m, ratio |-> Ratio(n, m)]
    /\ UNCHANGED vars

-----------------------------------------------------------------------------
Read ==
    \/ \E d \in Domain : ReadDomain(d)
    \/ ReadDetections \/ ReadCluster \/ ReadSiblings
    \/ \E f \in Filters : ReadPage(f)
    \/ CountDomains
    \/ ListForRun \/ RunScript \/ RecordBootstrapRun
    \/ Leave

ReadersNext == (Next /\ UNCHANGED reader) \/ Read

ReadersSpec == ReadersInit /\ [][ReadersNext]_allVars

-----------------------------------------------------------------------------
(* Properties *)

\* A page that shows a cluster shows the judol detection that brought the
\* domain into it, though the row is read before the detections.
DetailExplained ==
    reader.at = "detail" /\ reader.cluster # 0 => "judol" \in reader.detections

\* The siblings of a page are confirmed domains that live on the host of the
\* page's own domain, and the nameserver it shows is one of that host's, though
\* clusters are attached, and attached anew, between the statements.
SiblingsShareHost ==
    reader.at = "detail" =>
        /\ \A e \in reader.siblings : e \in confirmed /\ SameHost(e, reader.domain)
        /\ reader.shared # NoValue =>
              \E g \in confirmed : /\ Actual[g].ns = reader.shared
                                   /\ Actual[g].ip = Actual[reader.domain].ip

NoFilter == [status |-> NoValue, source |-> NoValue]

\* An unfiltered page never has more rows than the total that is counted after
\* it: nothing is ever deleted.  (With a filter it can: rows leave selections.)
PageWithinTotal ==
    reader.at = "list" /\ reader.filter = NoFilter => reader.items <= reader.total

\* What the script guards against with its list of confirmed domains and does
\* not keep out: a catch that Layer 2 has confirmed itself, after that list was
\* read, or before, when a report or a sweep has taken it off the list since.
Leaks(d) == d \in confirmed

\* A catch is never on the script's own list of confirmed domains, and unless
\* it leaks it is preemptive: two other domains of one host, both confirmed,
\* implicate it.  They need not be of the list: the clusters are read later,
\* and reports take domains off the list and leave the clusters alone.  Of a
\* catch that leaks, one of the two may be the catch itself; the ratio counts
\* it all the same.
CatchesEarned ==
    reader.at = "run" =>
        \A d \in reader.caught :
            /\ d \notin reader.confirmed
            /\ Leaks(d) \/ ImplicatedBy(confirmed \ {d}, d)
=============================================================================
