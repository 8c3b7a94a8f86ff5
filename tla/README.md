# Atraps PREJUDGE: a TLA+ model of the detection loop

PREJUDGE finds gambling sites in two layers. Layer 2 asks a vision model about
a page someone opened; Layer 1 compares the infrastructure of a domain (hosting
IP, nameserver, registrar, TLD, registration burst) with clusters built from
what Layer 2 confirmed, and blocks siblings nobody has opened yet. A Chrome
extension enforces the blocklist and is told of new blocks over a WebSocket.

This directory models the parts of that system where order matters: the loop
from Layer 2 to Layer 1, those who read its tables meanwhile, the way of a block
to a device, and the extension's copy of the list. Line numbers below are those of the repository.

Contents: [Inventory](#inventory) · [Modules](#modules) · [Runs](#runs) ·
[Fairness](#fairness) · [Proofs](#proofs) · [Findings](#findings) ·
[Not modelled](#not-modelled) · [Plan](#plan)

## Inventory

| Component | State | Operations | What makes it correct |
|---|---|---|---|
| Layer 1 algorithms (`core/layer1/cluster.go`, `matcher.go`) | none | `BuildClusters`, `applyBurstScore`, `Match` | groups exactly by known host; the window is the tight whole number of hours; a match needs three signals; the best cluster wins in any listing order |
| Extractor (`core/layer1/fingerprint.go`) | in-memory cache under a mutex | `Extract`: DNS A, DNS NS and RDAP, each failing on its own | the cache holds only what was really observed |
| Feedback, MatchSiblings (`core/feedback.go`) | locals of a goroutine | rebuild all clusters from the confirmed domains; walk the candidates and block what matches | no block without evidence; neighbours get clustered; every pass ends |
| Decide (`core/layer2/decide.go`) | none | log, and from 0.8 on block | a block by Layer 2 always has its detection |
| Repositories (`db/domain_repository.go`, `cluster_repository.go`, `schema.sql`) | tables `domains`, `fingerprint_clusters`, `detections` | `EnsureDomain`, `UpsertBlocked`, `LogDetection`, `ListConfirmed`, `ListCandidates`, `ReportFalsePositive`, `Upsert`, `ListClusters`; readers in several statements: `DomainDetail`, `ListDomains` | no statement resets a status; one row per host; members live on their cluster's host; what a reader puts together is explained by the verdicts |
| API handlers (`api/main.go`) | none | `/analyze` answers at once and goes on in a goroutine; `/fingerprint`; `/report-false-positive`; read-only ones | requests interleave safely |
| Vision client (`core/layer2/vision.go`) | files of old answers; names that differ only in `/`, `:` and `_` share one | `AnalyzeCached`: a request that fails is answered with what its file says, of any age | a verdict or an error, in bounded time; a verdict only on the domain it was once given for |
| Relay (`api/realtime.go`, `db/postgres.go`, trigger in `schema.sql`) | LISTEN session, hub map, a channel per client | notify, listen and retry, subscribe, broadcast, write, ping, unsubscribe | no send on a closed channel; one client never blocks the rest; gone clients leave the map; losses have two known causes |
| Device blocklist (`blocker/lib/blocklist.js`, `rules.js`) | cache and rule map in `chrome.storage.local`; Chrome's dynamic rules | `applyFull`, `applyOne`, `removeDomain`, `syncRules` | cache, map and rules agree; no gap while a rule is replaced |
| Service worker (`blocker/background.js`) | `bootPromise`, `activeAdapter`, `adapterMode` in storage | boot, `startAdapter` across its `await`, mode switch, unblock | the mode asked for last is the one that runs; an adapter is stopped before the next begins |
| Transports (`blocker/lib/polling.js`, `realtime.js`; `GET /blocklist`) | the cursor and the polls under way; the socket | poll on a timer, advance the cursor to the server's `updated_at`; connect, deliver, reconnect | no block is lost but by the gaps that are named; a lost socket comes back |
| Evidence capture, block page (`blocker/evidence.js`, `blocked.js`) | the session's set of captured domains | capture once per domain; report and unblock | one analysis per domain and session |
| Bootstrap run (`scripts/bootstrap_run`) | table `bootstrap_runs` | list the confirmed domains, match the candidates, record the ratio | a catch is implicated by two confirmed domains other than itself, or is known to leak |
| In-memory store, fill-rate report, popup, search guard | see [Not modelled](#not-modelled) | | |

How they interact. The device posts a page to `/analyze`. The handler ensures a
row and asks the vision client, answers, and starts a goroutine that runs
`Decide`, `Feedback` and `MatchSiblings`, each a chain of SQL statements without
a transaction, with DNS and RDAP lookups in between. Every write that leaves a
row `blocked` fires the trigger `domains_notify_blocked`; the API process listens on
one dedicated connection and broadcasts to its WebSocket clients. The device
boots from a snapshot of the list and hears of later blocks over that socket,
or by polling with a cursor; it applies each to its cache, its rule map and
Chrome's rules, one asynchronous operation after the other. The block page reports a false positive
to the server and unblocks the domain on the device.

What is hard about it: goroutines that interleave between statements
(duplicate rows, decisions on lists that are no longer true), lookups and
statements that fail one by one, restarts that empty the extractor's cache in
the middle of a pass, a bounded channel behind a mutex, a notification channel
that keeps nothing for absent listeners, a cursor of whole seconds against rows
that commit later than their time, readers that take several statements, and JavaScript tasks that interleave at
every `await` over three stores. `PROJECT.json` lists each of these hazards at
its line, with the properties that watch over it.

## Modules

| Module | Models |
|---|---|
| `Layer1` | `Extract`, `BuildClusters`, the burst score and `Match` as operators |
| `Layer1Growth` | those algorithms over every list of records up to a bound; their properties |
| `FeedbackLoop` | `/analyze` with its goroutine, `/fingerprint`, `/report-false-positive`, over the three tables, the extractor's cache and the vision client's files; extends `Layer1` |
| `VerdictLedger` | abstract: what the server promises of the `domains` table |
| `Readers` | those who read `FeedbackLoop`'s tables in several statements: domain page, domain list, bootstrap script; extends it |
| `RealtimeRelay` | trigger, LISTEN session, hub, connections |
| `BlocklistSync` | the device's cache, rule map and Chrome's rules; boot and restarts of the service worker |
| `BlockFeed` | the way of a block to a device: snapshot, polls, socket, and the switches and restarts between them |
| `EnforcedList` | abstract: redirects go from list to list in one step |
| `MC...` | values of the constants for TLC |
| `Layer1Proofs`, `Layer1GrowthProofs`, `FeedbackLoopProofs`, `NeighboursProofs`, `ReadersProofs`, `RealtimeRelayProofs`, `BlocklistSyncProofs`, `BlockFeedProofs` | theorems |

Definitions keep the names of the code where there is one. A definition under a
comment that begins with `Mutant:` is not part of a model: it is a plausible
mistake in the operator that follows, kept to show which property would notice.

### Layer1 and Layer1Growth

Go's nil pointer and empty string are both `NoValue`; every comparison in the
code treats them alike. Fingerprints have the fields the matcher or the
clusterer reads. Registration times are minutes, so that the ceiling to hours
shows. Scores and bursts are exact fractions where the code has `float64`; for
each combination of matched fields the two agree about the thresholds 0.5 and
0.6. `Match` is a recursive function over the list, with the code's strict
comparison, so the first of equally good clusters wins; `Matches` is the
question `MatchSiblings` asks of it. `Layer1Growth` lets records arrive one by
one, in every order, each field known or not: registrar and date come of one
RDAP answer and are missing independently, as `Extract` fills them. It states the
properties as a comparison with what grouping, window and best match mean.

### FeedbackLoop

A worker is one `/analyze` request with its goroutine; `pc[w]` is the statement
or lookup that is next. Every SQL statement is one atomic step (no code path
opens a transaction). `Extract` is two: the cache lookup, and the end of the
lookups, because the mutex is released in between.

| `pc` | Code | Actions |
|---|---|---|
| `idle` | handler, `api/main.go:236` | `Analyze` (row ensured, best effort) |
| `vision` | `AnalyzeCached`, which saves an answer and reads an old one after a failure | `VisionFails`, `VisionAnswers` |
| `log`, `detect`, `confirm` | `Decide`, with `LogDetection`'s two statements | `EnsureForLog`, `InsertDetection`, `Confirm` |
| `list` | `ListConfirmed` | `ListConfirmed` |
| `extract`, `lookup_confirmed` | the loop of `Feedback` | `ExtractCached`, `ExtractMiss`, `LookupDone`, `GroupByIP` |
| `select`, `write`, `attach` | `ClusterRepository.Upsert` per cluster | `SelectCluster`, `WriteCluster`, `AttachDomains`, `FeedbackDone` |
| `candidates`, `clusters` | the two lists of `MatchSiblings` | `ListCandidates`, `ListClusters` |
| `match`, `lookup_candidate`, `block` | its loop | `ExtractCached`, `ExtractMiss`, `LookupDone`, `BlockSibling`, `SweepDone` |
| any statement | returned error | `DbError` |

`Report` and `ScoreFingerprint` are single-statement requests and may happen at
any time; `Crash` ends all workers and empties the extractor's cache. Of several
rows for one host, `SelectCluster` may find any, as `SELECT` without an order
does. `Actual` is what DNS and RDAP hold, one fingerprint per domain for the
whole behaviour: infrastructure that changes while the server runs is not
modelled. `saved` holds the files under `GEMINI_CACHE_DIR`; a write
that fails leaves the old file or one that cannot be read, and an unset
directory is the behaviour in which every write fails. `FileOf` gives the file of
each domain; `cacheFilePath` writes `/` and `:` as `_`, so domains may share one. A
file says which domain its verdict is on, and `Decide` goes by that: when a request
is answered with another domain's file, its `target` becomes that domain. `confirmed`, `analyses`
and `given` (what the vision model has ever answered) are history variables.

`VerdictLedger` has no workers, clusters or lookups: a domain is registered,
confirmed, pre-empted or retracted, and pre-empting requires two confirmed
domains that share a host. `FeedbackLoop` implements it with
`verdicts <- Shown`, the status and source of each row.

### Readers

A reader is `GET /domains/{id}` (`ReadDomain`, `ReadDetections`, `ReadCluster`,
`ReadSiblings`), `GET /domains` (`ReadPage`, `CountDomains`) or
`scripts/bootstrap_run` (`ListForRun`, `RunScript`, `RecordBootstrapRun`). Every
statement is a step and `FeedbackLoop` goes on in between. Readers change no
table that anyone reads, so one at a time shows all they can meet; the rows of
`bootstrap_runs` are not kept, as only `GET /bootstrap/latest` reads them, and
what it shows is the ratio of a row the script recorded. The script is a process
of its own with an extractor of its own, so its lookups fail independently.

### RealtimeRelay

The mutex of the hub is held exactly while the listener is `sending`;
`Subscribe` and `Unregister` are the critical sections of the connections and
need it free. A connection's goroutine is its `select` loop: `Take` and `Wrote`,
`Tick` and `Pong`, `Leave`, then `Unregister` and `Close`, which in the code are
the two halves of `unsubscribe`. `link` separates the moment a peer is gone
from the moment TCP tells the reader that `CloseRead` started. A notification
is its number in commit order; `owed`, `missed` and `lost` record, for the
properties, what was notified while a client was registered, what met its full
channel, and what met no session.

### BlocklistSync

A task is one call of `applyFull`, `applyOne` or `removeDomain`; its steps are
the storage and rules operations between two `await`s: `LoadCache`, `SaveCache`,
`ReadMap`, `UpdateRules`, `SaveMap`. `UpdateRules` computes the ids to remove
and the rules to add as `syncRules` does, and Chrome (external) takes all of
them or rejects the call when two added rules have one id. `boot` follows
`bootPromise`: one attempt per life of the worker. `Restart` is Chrome ending
and starting the worker, when it is idle or at any step of any call. The adapters,
the boot and the block page do not wait for each other's calls, so tasks overlap.

What the code does not keep then is named by history variables. `asked` is what
the calls, in the order they were made, ask for; `unfinished`: a call was killed
or rejected and none has returned since; `mixed`: calls overlapped, and no boot
has had the stores to itself since; `torn`: the domains whose rules the map may
have lost track of. A kill between `updateDynamicRules` and the saving of the map
tears the domains whose rules that call had changed, and overlapping calls tear all. Nothing
in the code need repair that: when the map still has the signature of an entry
that is added again, `syncRules` skips it (`rules.js:56`) and the site stays open;
when it lacks an entry that is taken back, the redirect stays. A domain is no
longer torn once a call that runs alone updates its rule. `Tracked` are the
domains that are not torn and have an id of their own; `Hash` gives the domains
different ids in the runs, and the theorems say what is left when it does not.

`EnforcedList` promises that redirects go from one list that was asked for to a
later one at once, for the domains that are `held`; `BlocklistSync` implements it
with `enforced <- Enforced` and, unless calls have mixed, the tracked domains held.

### BlockFeed

A block is `told` when the extension has called `applyFull` or `applyOne` with
it; what the calls do is `BlocklistSync`'s part, and what happens between NOTIFY
and a socket is `RealtimeRelay`'s, of which a choice remains: the open sockets
that hear of a block (`Hearings`). The gaps the code has are not hidden in that
choice. Whoever loses a block records it in `overtaken` (`Miss`), and
`FeedAccounted` says that these places lose all that is lost. A block that commits
meets a gap of a poller when the poller's cursor, or the one an answer on its way
brings, is past its `blocked_at` already, or while a query has been answered and
`updated_at` not yet taken (`MeetsGap`). `taken` is history, the moment behind a
cursor: a cursor that ran ahead of it would not be excused.

| Code | Actions |
|---|---|
| `UpsertBlocked`: `now()` when the statement begins, visible from its commit; the cluster's attach, which notifies again; a report | `BeginBlock`, `CommitBlock`, `AttachDomain`, `Retract` |
| `boot`, `fetchFull`, `applyFull` | `FetchFull`, `FetchFails`, `ApplyFull`, `Restart` |
| `SET_ADAPTER_MODE`; `startAdapter` before, at and after its `await` | `SetAdapterMode`, `GetAdapterMode`, `Create` |
| `UNBLOCK_DOMAIN` | `RemoveDomain` |
| `pollOnce`, and the handler of `GET /blocklist` with its query and the `updated_at` it takes afterwards | `Poll`, `Query`, `Respond`, `Answer`, `PollFails` |
| `connect`, `onopen`, `onmessage`, `onclose`, `scheduleReconnect` | `Open`, `ConnectFails`, `Deliver`, `Drop`, `OnClose`, `Reconnect` |

Server and database share a clock that ticks `Second` times a second;
`Format` drops the fraction, as RFC 3339 does in the code, and `blockedAt`
keeps it. The storing of the mode and the beginning of `startAdapter` are one
step, and storage answers in order. A request that is lost is one whose
answer is lost, because the query has no effect. `overlap` is history: a
`startAdapter` began while another had not returned.

## Runs

| Run | Bounds | Shows |
|---|---|---|
| `layer1_growth` | 4 records, 2 hosts, 1 nameserver, 1 registrar, dates 4.5 h apart, at most 4 fields unknown, 1 TLD and probes under another | grouping, window, three signals, sparse clusters need host and nameserver, best match |
| `feedback_safety` | 3 domains, 2 workers, 2 analyses, failures of the IP lookup, failing statements, unreadable files, two domains that share a file, crashes | types, cold start, members on their host, detection before block, no verdict that was not given for the domain it names, refinement of the ledger |
| `feedback_live` | 3 domains, 2 workers, 2 analyses, nothing fails | neighbours get clustered, workers return, verdicts land, siblings are swept |
| `readers` | 3 domains, 2 workers, 2 analyses, a filtered and an unfiltered list | domain pages explained by a detection, siblings on the page's host, pages within their total, catches of the script earned or leaked |
| `relay_safety` | 2 clients, 3 connections, 2 notifications, channel of 1, 1 lost session | types, no send on a closed channel, accounting of every block |
| `relay_live` | 1 client, 2 connections, 3 notifications, channel of 1, 1 lost session | the hub never blocks, gone clients leave, buffered blocks arrive |
| `blocklist_kills` | 2 domains, 2 details, 3 calls, 2 at a time, one restart at any step of any of them | stores agree when calls have returned, the map tells the rules of the domains tracked, one-step redirects, events take effect |
| `block_feed` | 1 domain, 2 moments within a second of 2 ticks, 2 adapters per life of the worker, 1 unanswered poll per adapter | types, every block accounted for, the mode asked for last runs, adapters hand over, sockets return, blocks arrive |
| `duplicate_clusters`, `stale_sweep`, `relay_every_block`, `blocklist_races` | see [Findings](#findings) | a claim of the documents that the code does not keep |

Why the bounds are enough to be interesting. A cluster needs two members, so
four records make two clusters or one with up to four; with a gap of 4.5 hours
(five after rounding) two members are too sparse for a burst and three make
one, and floor and ceiling decide differently. Four unknown fields leave a cluster
of two without dates and, besides, without nameserver or registrar, a list of
four without dates, or any three lookups failing elsewhere; second registrars and
TLDs match no cluster of the first, as an unknown one does not. In the feedback runs two domains
share host, nameserver and hour, and the third lives on another host, so that
only nameserver, registrar, TLD and burst together (0.70) bring it over the
threshold; two overlapping passes are the fewest that can race, and two
confirmations the fewest that build a cluster. A channel of one overflows with
the second notification of a burst and the code treats a full channel alike at
any capacity. Two domains and two sets of details give additions, removals and
refreshes next to a rule that stays; three calls are two that overlap, or one
killed, and a boot or an event after. In the feed, each domain has its own way to
the device, so one is enough; two ticks in a second separate the time of a row
from the whole second of a cursor, two moments a row's statement from its
commit, and two adapters a switch, or two calls of `startAdapter` that overlap.
With two unanswered polls per adapter the run has millions of states: overlapping
polls are met by the theorem on `FeedAccounted` only, which holds for any number. `CHECK_DEADLOCK FALSE`: every bounded
behaviour ends when its requests, connections or calls are used up.

`MaxAnalyses`, `MaxRecords`, `MaxUnknown`, `MaxNotified`, `MaxBreaks`, `MaxConnects`,
`MaxCalls`, `MaxStarts`, `MaxTime`, `MaxAdapters` and `MaxFlight` are bounds of the model, not
of the program. Clients and workers are
interchangeable, hence the symmetry in the runs without liveness properties.

## Fairness

`FeedbackLoop`: weak fairness of each worker's `Step`. The goroutine is always
scheduled, and everything it waits for ends: the vision client's HTTP request,
the RDAP request and the resolver have timeouts, and the liveness run assumes a
database that answers. Requests, reports and crashes have none.

`RealtimeRelay`: weak fairness of the listener and of what a connection does
once it can (write, pong, noticing a dead peer, closing). Strong fairness of
`Take` and `Leave`, because Go's `select` chooses at random among what is ready
and a ticker cannot win for ever; and of `Subscribe` and `Unregister`, because
`sync.Mutex` hands itself over in order after a millisecond of starving. No
fairness of notifications, session losses or peers.

`BlocklistSync`: weak fairness of each task's `Step`: Chrome answers storage and
rules calls. None of calls or restarts.

`BlockFeed`: weak fairness of `GetAdapterMode` and `Create` (storage answers), of
`Poll` and `Reconnect` (timers fire), of `Query`, `Respond` and `OnClose` (the
server answers, a dead socket is closed in the end). Strong fairness of `Answer`,
`Open` and `Deliver`: polls and handshakes that are tried for ever do not fail
for ever, which is the least under which either transport can promise anything.
None of ticks, blocks, switches, restarts or losses.

## Proofs

`tlapm` proves, for every value of the constants that satisfies the named
assumptions:

- `Layer1Proofs`: a match shares the host or the nameserver
  (`MatchNeedsHostOrName`) and no two fields contain what it cites
  (`MatchCitesThree`), from the fact that a burst is a fraction of at most one.
  For a list of clusters of any length, the loop of `Match` ends with one of the
  best over the threshold, or with nil if there is none (`MatchIsBest`).
- `Layer1GrowthProofs`: `ThreeSignals`, `GroupsByHost`, `WindowTight`,
  `SparseNeedsHost` and `MatchFindsBest` are invariants, however many records
  arrive, whatever their hosts, nameservers, registrars, TLDs and dates and
  whichever of them are unknown.
- `FeedbackLoopProofs`: `TypeOK`, `ColdStart`, `MembersOnHost`,
  `BlockedHasDetection` and `VerdictsGiven` are invariants, and `FeedbackLoop` implements
  `VerdictLedger`, for any set of domains and workers, any infrastructure, any
  pattern of failed lookups, with failing statements and crashes.
- `NeighboursProofs`: `NeighboursClustered` is an invariant for any number of
  workers; it is claimed of a server on which nothing fails.
- `ReadersProofs`: `DetailExplained`, `SiblingsShareHost`, `CatchesEarned` and
  `PageWithinTotal` are invariants of the readers beside the loop, the last for
  finitely many domains.
- `RealtimeRelayProofs`: `TypeOK`, `NoSendOnClosed` and `Accounted` are invariants, for any
  number of clients and connections, any capacity and any number of lost sessions.
- `BlocklistSyncProofs`: `TypeOK`, with one rule per id in range, `CallsTakeEffect`
  and `MapTellsRules` are invariants and `BlocklistSync` implements `EnforcedList`,
  however many calls overlap, wherever the worker is killed and whatever ids
  coincide. What overlaps, kills and shared ids cost is in the statements
  (`mixed`, `unfinished`, `Tracked`), not in a hypothesis.
- `BlockFeedProofs`: `TypeOK`, `FeedAccounted`, `ActiveModeIsLatest` and
  `SwitchesHandOver` are invariants, for any domains, any resolution and extent
  of the clock, and any number of adapters and of overlapping polls.

The argument for Layer 1. That a burst is a fraction of at most one follows from
a window of at least an hour and a capped rate; every built cluster has such a
burst. `Match` walks the list and keeps an index, so it needs induction over the
list. The library's induction takes an operator as a parameter; `AllNaturals`
states it of a set of numbers instead, and proves it from the least element of
what is left out. The set is that of the lengths `n` after which the loop holds
the best of the first `n` clusters (`BestOf`). It is kept because scores, which are
compared by cross-multiplication, are ordered transitively
(`ExceedsTransitive`), and because what is below the threshold exceeds nothing
that reaches it (`BelowExceedsNone`).

The argument for `FeedbackLoop`. None of the invariants is inductive on its
own. `ColdStart` says of a row that Layer 1 blocked that two confirmed domains
on one host implicate it; the step that blocks knows only that `Match` had a
result on a snapshot of the clusters. So `IInv` adds, per worker, what its
locals mean at each step: the records are observations of *distinct* confirmed
domains, none still on the list (`Collected`), hence a cluster of two records is
two domains; the clusters in the table and in each snapshot are `Grounded` in
two confirmed domains of their host; a target about to be blocked is implicated
(`Justified`); a slot points to a row of the host being written (`Locals`). The
cache holds only observations (`CacheTrue`), which is why a restart in the
middle is harmless. All this is stable because `confirmed`, `logged` and the
cluster rows only grow and a row never changes its host (`TablesGrow`). From a
match on a grounded cluster, `MatchNeedsHostOrName` gives the shared host or
nameserver, which is `ImplicatedBy` (`MatchImplicates`). The step lemma has one
case per action, on the acting worker (`OwnStep`), the others
(`UntouchedStays`) and the tables. `Refinement` follows from `IInv` by cases on
the actions: only `EnsureDomain`, `Confirm`, `BlockSibling` and `Report` change
`Shown`, each as a step of the ledger.

The argument for the neighbours. The property speaks of quiet states; what
carries it through the busy ones is `Brought`: of two confirmed domains on one
host, each is in a cluster, or some worker `Brings` it, that is, is about to list
the confirmed domains, or has listed both and is looking them up, or has both
in its records and their host among those it has yet to write. The later of the two
confirmations puts its worker at the listing, which is when the pair is
established; that worker then keeps it, step by step, until `AttachDomains`
(`BringsOwn`), and nobody else's step takes it away (`BringsStays`). Nothing
failing is needed twice: a lookup that fails drops a domain from the records,
and a statement that fails ends the pass.

The argument for the readers. A reader holds what it has read; what makes that
still true later is that the tables only grow: detections, confirmations, rows
and clusters stay, and a cluster row keeps its host (`TablesGrow`). So `IInv` of
`FeedbackLoop` is carried beside an invariant on the reader's local values, by
cases on the reader's step or the loop's. `CatchesEarned` uses `MatchImplicates`
once more, on the clusters at the moment of the script: for a domain that is not
confirmed, the two that implicate it are others.

The argument for the relay. `NoSendOnClosed` says that whoever a broadcast has
still to visit is in the hub's map. It is stable because the map changes only
while the mutex is free and a broadcast holds it throughout. `TypeOK` ties the
map to the step of each connection: registered exactly from `Subscribe` to
`Unregister`. `Carrying` is the strengthening: between the notification and the
end of the broadcast the listener holds a real payload, without which the
channels' contents would have no type. `Accounted` needs the order of the whole
pipeline, session, listener, channel and connection: what waits in the session is
ascending, later than the payload of the broadcast under way and disjoint from what
was lost (`FeedKept`), and for each client whose connection stands, what it was
sent or missed is earlier than everything that is still to come its way
(`Kept`). A connection starts with nothing (`Fresh`), which is why a client that
comes back is owed only what is notified from then on.

The argument for the blocklist. `CallsTakeEffect` speaks of quiet states and
`MapTellsRules` of those in which no map is about to be saved. `SyncInv` fills in
the rest. `Apart`: two calls are under way only when `mixed` is set and all domains are
torn, so where something is claimed there is one call to follow. `InLine`: unless
calls have mixed, that call has brought first its list, then the cache in line with
`asked` (`Progress`), and at rest the map too, unless a call was ended. `Told`: of
each domain tracked Chrome has what the map says, or, between the update and the
saving of the map, what the list says; the map that a call has read is still the
stored one for every domain not torn (`Follows`), which is what makes its update
exact for them. An update sets right whatever it touches, even where the map had
lied (`UpdateTouched`), which is why a domain may be tracked again, and takes of
the others with an id of their own nothing (`UpdateOwn`); one that Chrome rejects
changes neither rules nor map. A kill before the map is saved leaves a map that is
wrong for the touched domains alone (`RestartStep`).
`blocklist_races` shows what becomes of the torn. `TypeOK` rests on what Chrome
accepts: an update whose additions have distinct ids, each of which it has just
removed (`UpdateKeepsIds`).

The argument for the feed. `FeedAccounted` speaks of the active adapter's cursor
now; what a poll under way will do to the cursor is not in it. `Carried`
therefore says of each block on the list, neither told nor recorded as missed,
that a running adapter has it on its wire, or is a poller whose cursor is before
it *and* each of whose polls in flight spares it: the query is still to come and
its cursor is before the block, or the block is among the rows it found, or the
answer's `updated_at` is before the block. The conditions under which a commit is
recorded as missed (`MeetsGap`) are what is needed to establish this. It is kept because
a cursor is never ahead of the moment it was taken (`CursorsKept`, with
`Format(t) <= t`) and a poll that has still to query sees every row beyond its
cursor. `LastMode` follows the mode through the queue of answered calls, and
`HandedOver` says that at most the last adapter is unstopped while no calls overlap.

Assumptions on constants: `FeedbackAssumption` (one well-formed truth per
domain, dates within a horizon, `NoValue` is not a domain or a verdict),
`GrowthAssumption`, `ReadersAssumption`, `RelayAssumption`, `SyncAssumption` and
`FeedAssumption`. TLC evaluates them in the runs.

Only model-checked: the liveness properties (`EveryWorkerReturns`,
`EveryVerdictLands`, `SiblingsSwept`, `HubNeverBlocks`, `GoneUnregistered`,
`BufferedArrives`, `EventsEnforced`, `RealtimeReturns`, `BlocksArrive`). They rest
on fairness and `ENABLED`, which are beyond the prover. Every invariant and every
action property of a passing run is proved.

## Findings

Each is a run that TLC ends with the counterexample described.

1. `duplicate_clusters` - `core/feedback.go` overlaps with itself:
   `ClusterRepository.Upsert` (`db/cluster_repository.go:23`) selects and then
   inserts, so two passes insert two rows for one host. `docs/TASKS.md:383`:
   "Re-runnable without duplicating clusters".
2. `stale_sweep` - `MatchSiblings` blocks from a list it read at the start
   (`core/feedback.go:58`) without a look at the row. A domain Layer 2 confirmed
   since is rewritten with source `L1`; `docs/TASKS.md:799`: "an L2-confirmed
   domain can NEVER be counted as an L1 catch". A domain reported as a false
   positive since is blocked after the report; `docs/TASKS.md:622`: "Domain
   disappears from blocklist on next sync".
3. `relay_every_block` - a block that commits while the listener has no session
   reaches none of the clients connected throughout (`api/realtime.go:115`).
   `README.md:56`: "pushes every new block to all connected clients".
4. `blocklist_races` - an unblock that overlaps another sync leaves a redirect
   in Chrome that neither the cache nor the rule map has, so no later sync
   removes it (`blocker/lib/rules.js:70`). `docs/TASKS.md:628`: "Blocker should
   _unblock_ [...] a stuck block".

Behaviour the model follows without calling it a defect: an extractor that
caches failed lookups for the life of the process; a cluster's burst that counts
for every candidate whatever its own date; `domain_count` written by the last
pass to finish, which may have listed fewer domains than one before it; two domains
with one rule id (`bar.com` and `bc0.com`), of which the second to be added takes
the rule of the first, and which Chrome rejects in one update; `GET /blocklist` that answers a database error with an empty
list, which the device applies; a poll's rows that are applied by concurrent
calls, of which the last to save keeps only its own row in the cache and the
map, while the rules of all stay in Chrome; an adapter nobody can stop any more after two
overlapping calls of `startAdapter`; a kill between `updateDynamicRules` and the
saving of the map, after which a site that is added again may stay open, and one
that is unblocked may stay closed; a request for a domain whose file another domain
shares, which is answered, when Gemini fails, with the other's verdict and acts on
it; a cursor
that steps over rows which commit late or during its query, until the mode is
switched; a filtered page that may have more rows than the count read after it; a
ratio of 0 when there are catches but, at the moment of the first statement, no
confirmations; a `DATABASE_URL` that is missing or cannot be parsed, which leaves
the process without a database for its life (one that is only down is found out
by each statement, as the pool connects lazily).

The bootstrap ratio leaks, and `CatchesEarned` says exactly where. `docs/TASKS.md:799`
demands that "an L2-confirmed domain can NEVER be counted as an L1 catch"
(`docs/TASKS.md:807` and `docs/PRD.md:202` call a ratio that does a fake). The script
compares the candidates only with the list it read first. A candidate that Layer 2
confirms between that list and the clusters is counted, and so is one that was
confirmed earlier and is off the list after a report or a sweep; of such a catch,
one of the two confirmed domains that implicate it may be the catch itself. In the run
`readers` this happens. What is checked and proved is that every other catch is
preemptive, and that no catch is on the list.

## Not modelled

- `memoryDomainStore` and the repositories that do nothing (no usable
  `DATABASE_URL` at start): one mutex around two maps.
- Evidence capture and block page (`evidence.js`, `blocked.js`). Their state is
  the set of domains captured in this life of the worker; beyond it, they are a
  source of `/analyze`, `/report-false-positive` and `UNBLOCK_DOMAIN`, which
  `FeedbackLoop` and `BlocklistSync` take for any domain at any time, twice, late
  or at once. Which page a capture shows is left out.
- `GET /check`, one statement; the trustpositif stub, JSON, CORS, the stub modes
  without a database or key.
- `popup.js`, `search-guard.js`: user interface; they keep no state of the system.
- The fill-rate report: a sum over a list.
- Statuses `confirmed` and `trustpositif`: only the fixtures contain them.
- Columns kept for display (`first_registration_date`, `reason`,
  `matched_fields`, `evidence_url`, ...), `ASNPrefix` and `Raw`, which nothing reads.

## Plan

Done, in this order, the most important behaviour first: `Layer1`,
`FeedbackLoop` with `VerdictLedger`, `RealtimeRelay`, `BlocklistSync` with
`EnforcedList`, the vision client's files, kills of the service worker in the
middle of a call, `Readers`, `BlockFeed`, and the theorems above.

Next: an abstract specification of what a browser sees of the relay, a log with
gaps, and the proof that `RealtimeRelay` implements it; what `domain_count`
keeps when passes do not overlap; what the blocklist keeps when calls overlap
but concern different domains; a run for the leak of the bootstrap ratio.
