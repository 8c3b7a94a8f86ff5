---------------------------- MODULE FeedbackLoop ----------------------------
(***************************************************************************)
(* The loop from Layer 2 to Layer 1: POST /analyze, the goroutine it starts *)
(* (Decide, Feedback, MatchSiblings) and POST /report-false-positive, over  *)
(* the tables domains, fingerprint_clusters and detections, the Extractor's *)
(* in-memory cache and the vision client's cache of verdicts on disk.       *)
(*                                                                          *)
(* A worker is one request with its goroutine.  No code path uses a         *)
(* transaction, so every SQL statement is an atomic step of its own and     *)
(* workers interleave between statements; so are the two halves of          *)
(* Extract, whose cache is unlocked during the lookups.                     *)
(***************************************************************************)
EXTENDS Layer1

CONSTANTS
    Domain,         \* domains users can visit
    Seeded,         \* domains the table starts with, as candidates
    Scored,         \* domains POST /fingerprint is asked about
    Worker,         \* requests in flight at a time
    Actual,         \* [Domain -> fingerprint]: the truth DNS and RDAP hold
    FileOf,         \* [Domain -> file]: cacheFilePath, which maps "/" and ":" to "_"
    LookupFailures, \* which sets of lookups may fail together in one Extract
    MaxAnalyses,    \* bound: requests to /analyze over a behaviour
    Faulty,         \* whether statements may fail and the process may crash
    Horizon         \* no registration is later than this many minutes

\* Actual holds one fingerprint per domain, dates lie within the horizon, and
\* "not known" is none of the values the program tells apart.
ASSUME FeedbackAssumption ==
    /\ \A d \in Domain :
          /\ Actual[d] = [domain |-> d, ip |-> Actual[d].ip, ns |-> Actual[d].ns,
                          registrar |-> Actual[d].registrar,
                          tld |-> Actual[d].tld,
                          registered |-> Actual[d].registered]
          /\ Actual[d].registered \in (0..Horizon) \cup {NoValue}
    /\ Seeded \subseteq Domain /\ Scored \subseteq Domain
    /\ LookupFailures \subseteq SUBSET Lookups
    /\ MaxAnalyses \in Nat
    /\ Horizon \in Nat
    /\ Faulty \in BOOLEAN
    /\ NoValue \notin Domain \cup {"L1", "L2", "judol", "benign"}

VARIABLES
    row,        \* domains: status, source and cluster_id of each domain
    clusters,   \* fingerprint_clusters: the rows, in order of insertion
    logged,     \* detections: <<domain, verdict>> rows of layer 2
    cache,      \* Extractor.cache
    saved,      \* the <<domain, verdict>> in each file of GEMINI_CACHE_DIR, if any
    given,      \* history: <<domain, verdict>> Gemini has ever answered with
    confirmed,  \* history: domains Layer 2 has ever confirmed
    analyses,   \* history: requests so far (for the bound)
    pc,         \* where each worker stands
    target,     \* the domain a worker analyses, looks up or is about to block
    verdict,    \* the verdict Decide works on
    todo,       \* domains of the list being walked that are still ahead
    records,    \* records collected by Feedback
    pending,    \* hosting IPs of built clusters not yet upserted
    at,         \* the hosting IP Upsert works on
    slot,       \* the row id Upsert's SELECT found, 0 for ErrNoRows
    known       \* MatchSiblings' snapshot of the clusters

tables  == <<row, clusters, logged>>
vision  == <<saved, given>>
history == <<confirmed, analyses>>
scratch == <<todo, records, pending, at, slot, known>>
vars    == <<tables, cache, vision, history, pc, target, verdict, scratch>>

-----------------------------------------------------------------------------
(* Types *)

Statuses == {"absent", "candidate", "blocked", "false_pos"}
Sources  == {"L1", "L2"}
Verdicts == {"judol", "benign"}
Files    == {FileOf[d] : d \in Domain}

\* What Extract can return for a domain.
Observations(d) == {Extract(Actual[d], f) : f \in LookupFailures}
Fingerprints    == UNION {Observations(d) : d \in Domain}

Values(field) == {Actual[d][field] : d \in Domain} \cup {NoValue}

Bursts == {b \in [num : Nat, den : Nat \ {0}] : b.num <= b.den}

ClusterRows == [ip : Values("ip") \ {NoValue}, ns : Values("ns"),
                registrar : Values("registrar"), tld : Values("tld"),
                count : Nat, burst : Bursts \cup {NoValue}]

\* The steps that wait for the database: the ones an error can end.
DbSteps == {"log", "detect", "confirm", "list", "select", "write", "attach",
            "candidates", "clusters", "block"}
Steps   == DbSteps \cup {"idle", "vision", "extract", "lookup_confirmed",
                         "match", "lookup_candidate"}

-----------------------------------------------------------------------------
Init ==
    /\ row = [d \in Domain |->
                [status |-> IF d \in Seeded THEN "candidate" ELSE "absent",
                 source |-> NoValue, cluster |-> 0]]
    /\ clusters = <<>>
    /\ logged = {}
    /\ cache = [d \in Domain |-> NoValue]
    /\ saved = [f \in Files |-> {}] /\ given = {}
    /\ confirmed = {}
    /\ analyses = 0
    /\ pc = [w \in Worker |-> "idle"]
    /\ target = [w \in Worker |-> NoValue]
    /\ verdict = [w \in Worker |-> NoValue]
    /\ todo = [w \in Worker |-> {}]
    /\ records = [w \in Worker |-> <<>>]
    /\ pending = [w \in Worker |-> {}]
    /\ at = [w \in Worker |-> NoValue]
    /\ slot = [w \in Worker |-> 0]
    /\ known = [w \in Worker |-> <<>>]

Goto(w, step) == pc' = [pc EXCEPT ![w] = step]

\* The handler or the goroutine returns: nothing of its locals survives.
Return(w) ==
    /\ Goto(w, "idle")
    /\ target' = [target EXCEPT ![w] = NoValue]
    /\ verdict' = [verdict EXCEPT ![w] = NoValue]
    /\ todo' = [todo EXCEPT ![w] = {}]
    /\ records' = [records EXCEPT ![w] = <<>>]
    /\ pending' = [pending EXCEPT ![w] = {}]
    /\ at' = [at EXCEPT ![w] = NoValue]
    /\ slot' = [slot EXCEPT ![w] = 0]
    /\ known' = [known EXCEPT ![w] = <<>>]

-----------------------------------------------------------------------------
(* DomainRepository *)

\* Mutant: the conflict clause resets the status.
ResetOnConflict(d) == row' = [row EXCEPT ![d].status = "candidate"]

\* INSERT ... ON CONFLICT DO UPDATE SET domain: a row that exists is kept.
EnsureDomain(d) ==
    row' = IF row[d].status = "absent"
           THEN [row EXCEPT ![d].status = "candidate"] ELSE row

UpsertBlocked(d, source) ==
    row' = [row EXCEPT ![d].status = "blocked", ![d].source = source]

Confirmed  == {d \in Domain : row[d].source = "L2" /\ row[d].status = "blocked"}
Candidates == {d \in Domain : row[d].status = "candidate"}

-----------------------------------------------------------------------------
(* POST /analyze *)

\* The handler creates the row first; when that fails it goes on regardless.
Analyze(w, d) ==
    /\ pc[w] = "idle"
    /\ analyses < MaxAnalyses
    /\ EnsureDomain(d) \/ (Faulty /\ UNCHANGED row)
    /\ analyses' = analyses + 1
    /\ target' = [target EXCEPT ![w] = d]
    /\ Goto(w, "vision")
    /\ UNCHANGED <<clusters, logged, cache, vision, confirmed, verdict, scratch>>

(* VisionClient.AnalyzeCached: the verdict of a call that fails is read from *)
(* the file an earlier call has left.                                        *)

\* What Gemini answers and Analyze makes of it, NoValue for an error; a reply
\* that cannot be parsed is a benign verdict.  "judol" is is_judol with
\* confidence at or above L2ConfidenceThreshold.
Replies == Verdicts \cup {NoValue}

\* os.WriteFile truncates, then writes; its errors are ignored.
SaveVerdict(d, v) ==
    saved' \in {[saved EXCEPT ![FileOf[d]] = {<<d, v>>}]} \cup
                (IF Faulty THEN {saved, [saved EXCEPT ![FileOf[d]] = {}]} ELSE {})

\* Mutant: what the file says is taken to be about the domain asked about.
AskedDomain(d, e, v) ==
    \/ /\ v \in Verdicts /\ e = d
       /\ SaveVerdict(d, v)
       /\ given' = given \cup {<<d, v>>}
    \/ /\ e = d
       /\ v \in {said[2] : said \in saved[FileOf[d]]} \cup {NoValue}
       /\ UNCHANGED vision

\* AnalyzeCached, asked about d, returns the verdict v on e, NoValue for an
\* error.  A live answer is about d; what is read from the file of d is about
\* the domain written in it, the last that was asked about of those that share
\* the file.  A file that is being written does not parse.
AnalyzeCached(d, e, v) ==
    \E reply \in Replies :
        \/ /\ reply # NoValue /\ v = reply /\ e = d
           /\ SaveVerdict(d, v)
           /\ given' = given \cup {<<d, v>>}
        \/ /\ reply = NoValue
           /\ \/ <<e, v>> \in saved[FileOf[d]]
              \/ e = d /\ v = NoValue /\ (saved[FileOf[d]] = {} \/ Faulty)
           /\ UNCHANGED vision

VisionFails(w) ==
    /\ pc[w] = "vision"
    /\ AnalyzeCached(target[w], target[w], NoValue)
    /\ Return(w)
    /\ UNCHANGED <<tables, cache, history>>

\* Decide and the goroutine go by the domain of the verdict, not by the one
\* the request names.
VisionAnswers(w) ==
    /\ pc[w] = "vision"
    /\ \E e \in Domain, v \in Verdicts :
          /\ AnalyzeCached(target[w], e, v)
          /\ target' = [target EXCEPT ![w] = e]
          /\ verdict' = [verdict EXCEPT ![w] = v]
    /\ Goto(w, "log")
    /\ UNCHANGED <<tables, cache, history, scratch>>

(* Decide: LogDetection is an EnsureDomain and an INSERT. *)

\* Mutant: a domain that is on record is taken for one already decided.
KnownIsDone(w) ==
    /\ pc[w] = "log"
    /\ row[target[w]].status # "absent"
    /\ Return(w)
    /\ UNCHANGED <<tables, cache, vision, history>>

EnsureForLog(w) ==
    /\ pc[w] = "log"
    /\ EnsureDomain(target[w])
    /\ Goto(w, "detect")
    /\ UNCHANGED <<clusters, logged, cache, vision, history, target, verdict, scratch>>

\* Mutant: Decide drops the error of LogDetection.
IgnoreLogError(w) ==
    /\ pc[w] = "detect"
    /\ logged' \in {logged, logged \cup {<<target[w], verdict[w]>>}}
    /\ IF verdict[w] = "judol"
       THEN Goto(w, "confirm") /\ UNCHANGED <<target, verdict, scratch>>
       ELSE Return(w)
    /\ UNCHANGED <<row, clusters, cache, vision, history>>

InsertDetection(w) ==
    /\ pc[w] = "detect"
    /\ logged' = logged \cup {<<target[w], verdict[w]>>}
    /\ IF verdict[w] = "judol"
       THEN Goto(w, "confirm") /\ UNCHANGED <<target, verdict, scratch>>
       ELSE Return(w)
    /\ UNCHANGED <<row, clusters, cache, vision, history>>

Confirm(w) ==
    /\ pc[w] = "confirm"
    /\ UpsertBlocked(target[w], "L2")
    /\ confirmed' = confirmed \cup {target[w]}
    /\ target' = [target EXCEPT ![w] = NoValue]
    /\ verdict' = [verdict EXCEPT ![w] = NoValue]
    /\ Goto(w, "list")
    /\ UNCHANGED <<clusters, logged, cache, vision, analyses, scratch>>

-----------------------------------------------------------------------------
(* Feedback *)

\* Mutant: Feedback is skipped while another worker is at it.
SkipIfBusy(w) ==
    /\ pc[w] = "list"
    /\ IF \E v \in Worker : pc[v] \in {"extract", "select", "write", "attach"}
       THEN Goto(w, "candidates") /\ UNCHANGED todo
       ELSE Goto(w, "extract") /\ todo' = [todo EXCEPT ![w] = Confirmed]
    /\ UNCHANGED <<tables, cache, vision, history, target, verdict, records, pending,
                   at, slot, known>>

ListConfirmed(w) ==
    /\ pc[w] = "list"
    /\ todo' = [todo EXCEPT ![w] = Confirmed]
    /\ Goto(w, "extract")
    /\ UNCHANGED <<tables, cache, vision, history, target, verdict, records, pending,
                   at, slot, known>>

\* A fingerprint reaches Feedback's list of records ...
Collect(w, fp) ==
    /\ records' = [records EXCEPT ![w] = Append(@, fp)]
    /\ target' = [target EXCEPT ![w] = NoValue]
    /\ Goto(w, "extract")

\* ... or MatchSiblings, which decides whether the candidate is to be blocked.
Weigh(w, d, fp) ==
    /\ IF Matches(fp, known[w])
       THEN target' = [target EXCEPT ![w] = d] /\ Goto(w, "block")
       ELSE target' = [target EXCEPT ![w] = NoValue] /\ Goto(w, "match")
    /\ UNCHANGED records

Use(w, d, fp, feedback) == IF feedback THEN Collect(w, fp) ELSE Weigh(w, d, fp)

\* Extract, cache hit.  The lists come in no fixed order: any domain is next.
ExtractCached(w, d) ==
    /\ pc[w] \in {"extract", "match"}
    /\ d \in todo[w]
    /\ cache[d] # NoValue
    /\ todo' = [todo EXCEPT ![w] = @ \ {d}]
    /\ Use(w, d, cache[d], pc[w] = "extract")
    /\ UNCHANGED <<tables, cache, vision, history, verdict, pending, at, slot, known>>

\* Extract, cache miss: the lock is released before the lookups ...
ExtractMiss(w, d) ==
    /\ pc[w] \in {"extract", "match"}
    /\ d \in todo[w]
    /\ cache[d] = NoValue
    /\ todo' = [todo EXCEPT ![w] = @ \ {d}]
    /\ target' = [target EXCEPT ![w] = d]
    /\ Goto(w, IF pc[w] = "extract" THEN "lookup_confirmed"
                                    ELSE "lookup_candidate")
    /\ UNCHANGED <<tables, cache, vision, history, verdict, records, pending, at, slot,
                   known>>

\* ... and what they gave, failures included, is stored for good.
LookupDone(w) ==
    /\ pc[w] \in {"lookup_confirmed", "lookup_candidate"}
    /\ \E fp \in Observations(target[w]) :
          /\ cache' = [cache EXCEPT ![target[w]] = fp]
          /\ Use(w, target[w], fp, pc[w] = "lookup_confirmed")
    /\ UNCHANGED <<tables, vision, history, verdict, todo, pending, at, slot, known>>

\* POST /fingerprint runs the same Extract for whatever domain it is asked
\* about; it writes nothing but the cache.
ScoreFingerprint(d) ==
    /\ d \in Scored
    /\ cache[d] = NoValue
    /\ \E fp \in Observations(d) : cache' = [cache EXCEPT ![d] = fp]
    /\ UNCHANGED <<tables, vision, history, pc, target, verdict, scratch>>

GroupByIP(w) ==
    /\ pc[w] = "extract"
    /\ todo[w] = {}
    /\ pending' = [pending EXCEPT ![w] = ClusterIPs(records[w])]
    /\ Goto(w, "select")
    /\ UNCHANGED <<tables, cache, vision, history, target, verdict, todo, records, at,
                   slot, known>>

(* ClusterRepository.Upsert: SELECT, then INSERT or UPDATE, then attach. *)

\* Mutant: a cluster stays on the list when its turn has come.
SelectAgain(w, ip) ==
    /\ pc[w] = "select"
    /\ ip \in pending[w]
    /\ \E k \in {0} \cup DOMAIN clusters :
          /\ slot' = [slot EXCEPT ![w] = k]
          /\ k = 0 <=> \A j \in DOMAIN clusters : clusters[j].ip # ip
          /\ k # 0 => clusters[k].ip = ip
    /\ at' = [at EXCEPT ![w] = ip]
    /\ Goto(w, "write")
    /\ UNCHANGED <<tables, cache, vision, history, target, verdict, todo, records,
                   pending, known>>

\* hosting_ip is not unique: of several rows the SELECT returns any.
SelectCluster(w, ip) ==
    /\ pc[w] = "select"
    /\ ip \in pending[w]
    /\ LET found == {k \in DOMAIN clusters : clusters[k].ip = ip}
       IN  \E k \in IF found = {} THEN {0} ELSE found :
              slot' = [slot EXCEPT ![w] = k]
    /\ at' = [at EXCEPT ![w] = ip]
    /\ pending' = [pending EXCEPT ![w] = @ \ {ip}]
    /\ Goto(w, "write")
    /\ UNCHANGED <<tables, cache, vision, history, target, verdict, todo, records, known>>

AsRow(c) == [ip |-> c.ip, ns |-> c.ns, registrar |-> c.registrar,
             tld |-> c.tld, count |-> c.count, burst |-> c.burst]

\* An existing row keeps its nameserver, registrar and tld.
WriteCluster(w) ==
    /\ pc[w] = "write"
    /\ LET c == BuildCluster(records[w], at[w])
       IN  IF slot[w] = 0
           THEN /\ clusters' = Append(clusters, AsRow(c))
                /\ slot' = [slot EXCEPT ![w] = Len(clusters) + 1]
           ELSE /\ clusters' = [clusters EXCEPT ![slot[w]].count = c.count,
                                                ![slot[w]].burst = c.burst]
                /\ UNCHANGED slot
    /\ Goto(w, "attach")
    /\ UNCHANGED <<row, logged, cache, vision, history, target, verdict, todo, records,
                   pending, at, known>>

AttachDomains(w) ==
    /\ pc[w] = "attach"
    /\ row' = [d \in Domain |->
                 IF d \in BuildCluster(records[w], at[w]).domains
                 THEN [row[d] EXCEPT !.cluster = slot[w]] ELSE row[d]]
    /\ at' = [at EXCEPT ![w] = NoValue]
    /\ slot' = [slot EXCEPT ![w] = 0]
    /\ Goto(w, "select")
    /\ UNCHANGED <<clusters, logged, cache, vision, history, target, verdict, todo,
                   records, pending, known>>

FeedbackDone(w) ==
    /\ pc[w] = "select"
    /\ pending[w] = {}
    /\ records' = [records EXCEPT ![w] = <<>>]
    /\ Goto(w, "candidates")
    /\ UNCHANGED <<tables, cache, vision, history, target, verdict, todo, pending, at,
                   slot, known>>

-----------------------------------------------------------------------------
(* MatchSiblings *)

ListCandidates(w) ==
    /\ pc[w] = "candidates"
    /\ todo' = [todo EXCEPT ![w] = Candidates]
    /\ Goto(w, "clusters")
    /\ UNCHANGED <<tables, cache, vision, history, target, verdict, records, pending,
                   at, slot, known>>

ListClusters(w) ==
    /\ pc[w] = "clusters"
    /\ IF clusters = <<>> THEN Return(w)
       ELSE /\ known' = [known EXCEPT ![w] = clusters]
            /\ Goto(w, "match")
            /\ UNCHANGED <<target, verdict, todo, records, pending, at, slot>>
    /\ UNCHANGED <<tables, cache, vision, history>>

\* Mutant: ON CONFLICT DO NOTHING, and a candidate always has a row.
InsertOnly(w) ==
    /\ pc[w] = "block"
    /\ target' = [target EXCEPT ![w] = NoValue]
    /\ Goto(w, "match")
    /\ UNCHANGED <<tables, cache, vision, history, verdict, scratch>>

\* When the answer is lost, the row is blocked and the sweep ends.
BlockSibling(w) ==
    /\ pc[w] = "block"
    /\ UpsertBlocked(target[w], "L1")
    /\ \/ /\ target' = [target EXCEPT ![w] = NoValue]
          /\ Goto(w, "match")
          /\ UNCHANGED <<verdict, scratch>>
       \/ Faulty /\ Return(w)
    /\ UNCHANGED <<clusters, logged, cache, vision, history>>

SweepDone(w) ==
    /\ pc[w] = "match"
    /\ todo[w] = {}
    /\ Return(w)
    /\ UNCHANGED <<tables, cache, vision, history>>

-----------------------------------------------------------------------------
(* POST /report-false-positive, and what goes wrong *)

Report(d) ==
    /\ row[d].status # "absent"
    /\ row' = [row EXCEPT ![d].status = "false_pos"]
    /\ UNCHANGED <<clusters, logged, cache, vision, history, pc, target, verdict, scratch>>

\* A statement fails: every caller returns the error and the worker ends.  A
\* write that took effect and whose answer was lost is that step followed by
\* this one (BlockSibling, which no statement follows at once, says so itself).
DbError(w) ==
    /\ Faulty
    /\ pc[w] \in DbSteps
    /\ Return(w)
    /\ UNCHANGED <<tables, cache, vision, history>>

\* The process dies: all workers and the in-memory cache are gone.
Crash ==
    /\ Faulty
    /\ cache' = [d \in Domain |-> NoValue]
    /\ pc' = [w \in Worker |-> "idle"]
    /\ target' = [w \in Worker |-> NoValue]
    /\ verdict' = [w \in Worker |-> NoValue]
    /\ todo' = [w \in Worker |-> {}]
    /\ records' = [w \in Worker |-> <<>>]
    /\ pending' = [w \in Worker |-> {}]
    /\ at' = [w \in Worker |-> NoValue]
    /\ slot' = [w \in Worker |-> 0]
    /\ known' = [w \in Worker |-> <<>>]
    /\ UNCHANGED <<tables, vision, history>>

-----------------------------------------------------------------------------
\* What a worker does on its own once it has started.
Step(w) ==
    \/ VisionFails(w) \/ VisionAnswers(w)
    \/ EnsureForLog(w) \/ InsertDetection(w) \/ Confirm(w)
    \/ ListConfirmed(w)
    \/ \E d \in Domain : ExtractCached(w, d) \/ ExtractMiss(w, d)
    \/ LookupDone(w)
    \/ GroupByIP(w)
    \/ \E ip \in pending[w] : SelectCluster(w, ip)
    \/ WriteCluster(w) \/ AttachDomains(w) \/ FeedbackDone(w)
    \/ ListCandidates(w) \/ ListClusters(w)
    \/ BlockSibling(w) \/ SweepDone(w)

Next ==
    \/ \E w \in Worker, d \in Domain : Analyze(w, d)
    \/ \E w \in Worker : Step(w) \/ DbError(w)
    \/ \E d \in Domain : Report(d) \/ ScoreFingerprint(d)
    \/ Crash

Spec == Init /\ [][Next]_vars

\* Every started goroutine is scheduled: the vision client, the resolver and
\* RDAP time out, and the database answers.
FairSpec == Spec /\ \A w \in Worker : WF_vars(Step(w))

-----------------------------------------------------------------------------
(* Properties *)

\* Every variable holds a value of the kind the code gives it.
TypeOK ==
    /\ row \in [Domain -> [status : Statuses, source : Sources \cup {NoValue},
                           cluster : 0..Len(clusters)]]
    /\ clusters \in Seq(ClusterRows)
    /\ logged \subseteq Domain \X Verdicts
    /\ cache \in [Domain -> Fingerprints \cup {NoValue}]
    /\ saved \in [Files -> SUBSET (Domain \X Verdicts)]
    /\ given \subseteq Domain \X Verdicts
    /\ confirmed \subseteq Domain
    /\ analyses \in 0..MaxAnalyses
    /\ pc \in [Worker -> Steps]
    /\ target \in [Worker -> Domain \cup {NoValue}]
    /\ verdict \in [Worker -> Verdicts \cup {NoValue}]
    /\ todo \in [Worker -> SUBSET Domain]
    /\ records \in [Worker -> Seq(Fingerprints)]
    /\ pending \in [Worker -> SUBSET (Values("ip") \ {NoValue})]
    /\ at \in [Worker -> Values("ip")]
    /\ slot \in [Worker -> 0..Len(clusters)]
    /\ known \in [Worker -> Seq(ClusterRows)]

SameHost(d, e) == Same(Actual[d].ip, Actual[e].ip)

\* The group proves an infrastructure d belongs to: two distinct domains of it
\* are on one host, which d shares, or one of that host's nameservers is d's.
ImplicatedBy(group, d) ==
    \E e, f \in group :
        /\ e # f /\ SameHost(e, f)
        /\ \/ SameHost(d, e)
           \/ \E g \in group : SameHost(g, e) /\ Same(Actual[d].ns, Actual[g].ns)

\* Layer 1 starts cold and never guesses: whatever requests interleave, lookups
\* fail, statements fail or the process restarts, a domain it blocked shares
\* its host or its nameserver with a group of two confirmed domains of one host.
ColdStart == \A d \in Domain : row[d].source = "L1" => ImplicatedBy(confirmed, d)

\* A domain that is attached to a cluster was confirmed by Layer 2 and really
\* lives on the host the cluster stands for, even when rows were chosen by a
\* SELECT that another worker's INSERT has overtaken.
MembersOnHost ==
    \A d \in Domain :
        row[d].cluster # 0 =>
            /\ d \in confirmed
            /\ Actual[d].ip = clusters[row[d].cluster].ip

\* No domain is blocked by Layer 2 without the detection that explains it
\* already in the table (Decide logs first), also when Decide dies in between.
BlockedHasDetection ==
    \A d \in Domain : row[d].source = "L2" => <<d, "judol">> \in logged

\* A failed call never makes a verdict up: what Decide logs and acts upon, and
\* what stays in the tables and on disk, is what Gemini once said of the domain
\* the verdict names, however old, whatever files were lost and whoever wrote
\* them.  Two domains may share a file: then a request about one is answered
\* from the other's verdict, and Decide acts on that other domain, of whom
\* it is true; it never carries the verdict over to the domain of the request.
VerdictsGiven ==
    /\ logged \subseteq given
    /\ \A w \in Worker : verdict[w] # NoValue => <<target[w], verdict[w]>> \in given
    /\ \A f \in Files : saved[f] \subseteq given

Quiet == \A w \in Worker : pc[w] = "idle"

\* Once all workers have finished and nothing failed, two domains on the list
\* by Layer 2 that share a host are both attached to a cluster: the last worker
\* to confirm lists both, however the workers interleaved.
NeighboursClustered ==
    Quiet /\ ~Faulty /\ LookupFailures = {{}} =>
        \A d, e \in Confirmed :
            d # e /\ SameHost(d, e) => row[d].cluster # 0 /\ row[e].cluster # 0

\* The domains table, seen as the ledger of verdicts.
Shown == [d \in Domain |-> [status |-> row[d].status, source |-> row[d].source]]

Ledger == INSTANCE VerdictLedger WITH verdicts <- Shown

\* Every step of the loop is a step of the ledger or changes nothing it shows.
RefinesLedger == Ledger!Spec

\* Every goroutine ends: no list is walked for ever, nothing waits on a peer.
EveryWorkerReturns == \A w \in Worker : []<>(pc[w] = "idle")

\* A judol verdict reaches the table whatever the other workers do.
EveryVerdictLands ==
    \A d \in Domain :
        (\E w \in Worker :
            pc[w] = "log" /\ verdict[w] = "judol" /\ target[w] = d)
        ~> d \in confirmed

\* A candidate that is on record and matches the clusters when MatchSiblings
\* starts does not stay a candidate.
SiblingsSwept ==
    \A d \in Domain :
        ( /\ \E w \in Worker : pc[w] = "candidates"
          /\ row[d].status = "candidate"
          /\ Matches(Actual[d], clusters) )
        ~> row[d].status # "candidate"

-----------------------------------------------------------------------------
(* What the documents claim and the code does not keep *)

\* docs/TASKS.md:383, "Re-runnable without duplicating clusters".
NoDuplicateClusters ==
    \A j, k \in DOMAIN clusters : clusters[j].ip = clusters[k].ip => j = k

\* docs/TASKS.md:622, "Domain disappears from blocklist on next sync", and
\* docs/TASKS.md:799, "an L2-confirmed domain can NEVER be counted as an L1
\* catch": a sweep blocks candidates, never what a user has reported and never
\* what Layer 2 has put on the list.
SweepSparesDecided ==
    [][\A d \in Domain :
          d \in Confirmed \/ row[d].status = "false_pos" =>
              ~ (row'[d].status = "blocked" /\ row'[d].source = "L1")]_vars
=============================================================================
