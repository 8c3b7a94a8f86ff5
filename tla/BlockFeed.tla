------------------------------ MODULE BlockFeed ------------------------------
(***************************************************************************)
(* How a block on the server gets to a device: the snapshot the service     *)
(* worker boots from (background.js), GET /blocklist polled with a cursor   *)
(* (polling.js), the WebSocket (realtime.js), and the switch between them.  *)
(*                                                                          *)
(* A block is told when the extension has called applyFull or applyOne with *)
(* it; what the calls then do to the stores, and to each other, is in       *)
(* BlocklistSync.  What happens between NOTIFY and a socket is in           *)
(* RealtimeRelay: here the relay passes a block on to a socket or drops it. *)
(*                                                                          *)
(* The server and its database have one clock; it ticks several times a     *)
(* second, and 0 is before all times.                                       *)
(***************************************************************************)
EXTENDS Integers, Sequences

CONSTANTS
    Domain,
    Second,         \* ticks in a second
    MaxTime,        \* bound: the last tick
    MaxAdapters,    \* bound: adapters in one life of the service worker
    MaxFlight       \* bound: unanswered polls of one adapter

ASSUME FeedAssumption ==
    /\ Second \in Nat \ {0} /\ MaxTime \in Nat \ {0}
    /\ MaxAdapters \in Nat \ {0} /\ MaxFlight \in Nat \ {0}

VARIABLES
    clock,
    blockedAt,  \* domains.blocked_at of the rows on the list, 0 for the others
    writing,    \* now() of an UpsertBlocked that has not committed, 0 for none
    mode,       \* adapterMode in chrome.storage.local
    boot,       \* bootPromise: "fetching", "applying", "done" or "failed"
    snapshot,   \* what fetchFull has got
    starting,   \* calls of startAdapter that wait for getAdapterMode
    creating,   \* the modes it has answered those calls with, in order
    active,     \* activeAdapter, 0 for null
    adapters,   \* the adapters this worker has created
    told,       \* domains the device has been told of
    overtaken,  \* history: domains on the list that met a gap of the feed
    overlap     \* history: a startAdapter began while another was under way

server  == <<clock, blockedAt, writing>>
worker  == <<mode, boot, snapshot, starting, creating, active>>
results == <<told, overtaken>>
vars    == <<server, worker, adapters, results, overlap>>

Modes == {"realtime", "polling"}
Slots == 1..MaxFlight
Ids   == DOMAIN adapters

Listed == {d \in Domain : blockedAt[d] # 0}

\* A poll under way: the cursor it was sent with, the rows its query found, the
\* updated_at that goes with them, and (history) the moment that, or before it
\* the cursor, was taken from.
NoRequest == [at |-> "none", since |-> 0, rows |-> {}, upto |-> 0, taken |-> 0]

Idle == [k \in Slots |-> NoRequest]

Init ==
    /\ clock = 1
    /\ blockedAt = [d \in Domain |-> 0] /\ writing = [d \in Domain |-> 0]
    /\ mode \in Modes
    /\ boot = "fetching" /\ snapshot = {}
    /\ starting = 0 /\ creating = <<>>
    /\ active = 0 /\ adapters = <<>>
    /\ told = {} /\ overtaken = {}
    /\ overlap = FALSE

\* The domains are told; whatever gap they met no longer matters.
Tell(domains) ==
    /\ told' = told \cup domains
    /\ overtaken' = overtaken \ domains

Miss(domains) ==
    /\ overtaken' = overtaken \cup (domains \ told)
    /\ UNCHANGED told

-----------------------------------------------------------------------------
(* The server *)

Tick ==
    /\ clock < MaxTime
    /\ clock' = clock + 1
    /\ UNCHANGED <<blockedAt, writing, worker, adapters, results, overlap>>

\* UpsertBlocked: now() is the time at which its statement begins ...
BeginBlock(d) ==
    /\ writing[d] = 0
    /\ writing' = [writing EXCEPT ![d] = clock]
    /\ UNCHANGED <<clock, blockedAt, worker, adapters, results, overlap>>

Running == active # 0 /\ ~ adapters[active].stopped

\* A cursor is past this time, which was before the answer it came with.
Past(cursor, taken, stamp) == stamp <= cursor /\ stamp <= taken

\* The request goes without a row that commits now and has this time in
\* blocked_at, and its answer sets the cursor past it.
Passed(request, stamp) ==
    \/ request.at = "queried"
    \/ request.at = "sent"     /\ Past(request.since, request.taken, stamp)
    \/ request.at = "answered" /\ Past(request.upto, request.taken, stamp)

\* Nothing will tell the device of a row that commits now and has this time in
\* blocked_at, the sockets that hear of it being the given ones.
MeetsGap(stamp, hearing) ==
    \/ ~ Running
    \/ Running /\ LET a == adapters[active]
                  IN  \/ a.kind = "realtime" /\ active \notin hearing
                      \/ /\ a.kind = "polling"
                         /\ \/ Past(a.since, a.taken, stamp)
                            \/ \E k \in Slots : Passed(a.flight[k], stamp)

\* Which sockets hear of it: those that are open, unless the relay drops it.
Hearings == SUBSET {i \in Ids : adapters[i].link = "open"}

Hear(hearing, d) ==
    [i \in Ids |-> IF i \in hearing THEN [adapters[i] EXCEPT !.wire = @ \cup {d}]
                                   ELSE adapters[i]]

\* ... and others see the row from its commit on, when the trigger notifies
\* those that are subscribed.
CommitBlock(d) ==
    /\ writing[d] # 0
    /\ blockedAt' = [blockedAt EXCEPT ![d] = writing[d]]
    /\ writing' = [writing EXCEPT ![d] = 0]
    /\ \E hearing \in Hearings :
          /\ adapters' = Hear(hearing, d)
          /\ IF MeetsGap(writing[d], hearing) THEN Miss({d}) ELSE UNCHANGED results
    /\ UNCHANGED <<clock, worker, overlap>>

\* ClusterRepository.Upsert attaches a domain that is on the list to its
\* cluster: the trigger notifies again.
AttachDomain(d) ==
    /\ d \in Listed
    /\ \E hearing \in Hearings : adapters' = Hear(hearing, d)
    /\ UNCHANGED <<server, worker, results, overlap>>

\* POST /report-false-positive: nobody is notified.
Retract(d) ==
    /\ blockedAt' = [blockedAt EXCEPT ![d] = 0]
    /\ UNCHANGED <<clock, writing, worker, adapters, results, overlap>>

-----------------------------------------------------------------------------
(* boot, startAdapter, SET_ADAPTER_MODE *)

\* Stopping a poller leaves its polls under way; a closed socket is silent.
Stopped(a) == [a EXCEPT !.stopped = TRUE, !.link = "none", !.wire = {}]

\* Mutant: activeAdapter is replaced and not stopped.
StartAnother ==
    /\ starting' = starting + 1
    /\ overlap' = (overlap \/ starting > 0 \/ creating # <<>>)
    /\ UNCHANGED adapters

\* startAdapter up to its await.
StartAdapter ==
    /\ adapters' = [i \in Ids |-> IF i = active THEN Stopped(adapters[i])
                                                ELSE adapters[i]]
    /\ starting' = starting + 1
    /\ overlap' = (overlap \/ starting > 0 \/ creating # <<>>)

\* GET /blocklist without a cursor: the rows on the list, or none, when the
\* query failed or the answer is an error.
FetchFull ==
    /\ boot = "fetching"
    /\ snapshot' \in {Listed, {}}
    /\ boot' = "applying"
    /\ UNCHANGED <<server, mode, starting, creating, active, adapters, results, overlap>>

\* fetch throws: no adapter is started for as long as the worker lives, unless
\* the mode is switched.
FetchFails ==
    /\ boot = "fetching"
    /\ boot' = "failed"
    /\ UNCHANGED <<server, mode, snapshot, starting, creating, active, adapters,
                   results, overlap>>

\* applyFull puts the snapshot in the place of all entries.  (A sync that Chrome
\* rejects, in BlocklistSync, ends the boot there.)
ApplyFull ==
    /\ boot = "applying"
    /\ boot' = "done"
    /\ told' = snapshot
    /\ overtaken' = Listed \ snapshot
    /\ snapshot' = {}
    /\ StartAdapter
    /\ UNCHANGED <<server, mode, creating, active>>

Room == Len(adapters) + starting + Len(creating)
          + (IF boot \in {"fetching", "applying"} THEN 1 ELSE 0) < MaxAdapters

\* Mutant: startAdapter is not made to wait for the mode to be stored.
StartThenStore(m) ==
    /\ Room
    /\ mode' = m
    /\ adapters' = [i \in Ids |-> IF i = active THEN Stopped(adapters[i])
                                                ELSE adapters[i]]
    /\ creating' = Append(creating, mode)
    /\ overlap' = (overlap \/ starting > 0 \/ creating # <<>>)
    /\ Miss(Listed)
    /\ UNCHANGED <<server, boot, snapshot, starting, active>>

\* The mode is stored and startAdapter begins.  What the adapter that ends was
\* still to tell is left to the next one.
SetAdapterMode(m) ==
    /\ Room
    /\ mode' = m
    /\ StartAdapter
    /\ Miss(Listed)
    /\ UNCHANGED <<server, boot, snapshot, creating, active>>

GetAdapterMode ==
    /\ starting > 0
    /\ starting' = starting - 1
    /\ creating' = Append(creating, mode)
    /\ UNCHANGED <<server, mode, boot, snapshot, active, adapters, results, overlap>>

\* createRealtimeAdapter and start: connect.
RealtimeAdapter == [kind |-> "realtime", stopped |-> FALSE, link |-> "connecting",
                    wire |-> {}, since |-> 0, taken |-> 0, flight |-> Idle]

\* createPollingAdapter and start: poll at once, from the beginning.
PollingAdapter ==
    [kind |-> "polling", stopped |-> FALSE, link |-> "none", wire |-> {},
     since |-> 0, taken |-> 0,
     flight |-> [Idle EXCEPT ![1] = [NoRequest EXCEPT !.at = "sent"]]]

\* The rest of startAdapter.  A poller that starts from the beginning closes
\* all gaps; a socket brings nothing of what was before.
Create ==
    /\ creating # <<>>
    /\ creating' = Tail(creating)
    /\ adapters' = Append(adapters, IF Head(creating) = "polling"
                                    THEN PollingAdapter ELSE RealtimeAdapter)
    /\ active' = Len(adapters) + 1
    /\ IF Head(creating) = "polling"
       THEN overtaken' = {} /\ UNCHANGED told ELSE Miss(Listed)
    /\ UNCHANGED <<server, mode, boot, snapshot, starting, overlap>>

\* Chrome ends the service worker and starts it again.
Restart ==
    /\ boot' = "fetching" /\ snapshot' = {}
    /\ starting' = 0 /\ creating' = <<>>
    /\ active' = 0 /\ adapters' = <<>>
    /\ overlap' = FALSE
    /\ Miss(Listed)
    /\ UNCHANGED <<server, mode>>

\* UNBLOCK_DOMAIN.
RemoveDomain(d) ==
    /\ d \in told
    /\ told' = told \ {d}
    /\ overtaken' = overtaken \cup ({d} \cap Listed)
    /\ UNCHANGED <<server, worker, adapters, overlap>>

-----------------------------------------------------------------------------
(* The polling adapter, and GET /blocklist with a cursor *)

Request(i, k) == adapters[i].flight[k]

\* Mutant: a timeout that is not renewed in the place of the interval.
PollOnce(i, k) ==
    /\ adapters[i].kind = "polling" /\ ~ adapters[i].stopped
    /\ Request(i, k).at = "none"
    /\ adapters[i].taken = 0
    /\ adapters' = [adapters EXCEPT ![i].flight[k] = [NoRequest EXCEPT !.at = "sent"]]
    /\ UNCHANGED <<server, worker, results, overlap>>

\* The timer fires, whatever has become of the polls before.
Poll(i, k) ==
    /\ adapters[i].kind = "polling" /\ ~ adapters[i].stopped
    /\ Request(i, k).at = "none"
    /\ adapters' = [adapters EXCEPT ![i].flight[k] =
                      [NoRequest EXCEPT !.at = "sent", !.since = adapters[i].since,
                                        !.taken = adapters[i].taken]]
    /\ UNCHANGED <<server, worker, results, overlap>>

Since(t) == {d \in Listed : blockedAt[d] > t}

\* The query, or its failure, which the handler answers with no rows.
Query(i, k) ==
    /\ Request(i, k).at = "sent"
    /\ \/ /\ adapters' = [adapters EXCEPT ![i].flight[k] =
                [@ EXCEPT !.at = "queried", !.rows = Since(Request(i, k).since)]]
          /\ UNCHANGED results
       \/ /\ adapters' = [adapters EXCEPT ![i].flight[k] = [@ EXCEPT !.at = "queried"]]
          /\ Miss(Listed)
    /\ UNCHANGED <<server, worker, overlap>>

\* Mutant: the time is rounded up.
RoundUp(t) == Second * ((t + Second - 1) \div Second)

\* RFC3339 has no fractions of a second.
Format(t) == Second * (t \div Second)

\* updated_at is the time after the query.
Respond(i, k) ==
    /\ Request(i, k).at = "queried"
    /\ adapters' = [adapters EXCEPT ![i].flight[k] =
         [@ EXCEPT !.at = "answered", !.upto = Format(clock), !.taken = clock]]
    /\ UNCHANGED <<server, worker, results, overlap>>

\* The answer arrives: each row is a call of applyOne, also when the adapter
\* has been stopped.
Answer(i, k) ==
    /\ Request(i, k).at = "answered"
    /\ Tell(Request(i, k).rows)
    /\ adapters' = [adapters EXCEPT ![i] =
         [@ EXCEPT !.since = Request(i, k).upto, !.taken = Request(i, k).taken,
                   !.flight[k] = NoRequest]]
    /\ UNCHANGED <<server, worker, overlap>>

\* Mutant: the cursor moves on though the answer is lost.
AdvanceAnyway(i, k) ==
    /\ Request(i, k).at = "answered"
    /\ adapters' = [adapters EXCEPT ![i] =
         [@ EXCEPT !.since = Request(i, k).upto, !.taken = Request(i, k).taken,
                   !.flight[k] = NoRequest]]
    /\ UNCHANGED <<server, worker, results, overlap>>

\* fetch throws, or the answer is an error: the cursor stays.  The query has
\* no effect of its own, so a request that gets lost is one whose answer is.
PollFails(i, k) ==
    /\ Request(i, k).at = "answered"
    /\ adapters' = [adapters EXCEPT ![i].flight[k] = NoRequest]
    /\ UNCHANGED <<server, worker, results, overlap>>

-----------------------------------------------------------------------------
(* The realtime adapter *)

Link(i, from, to) ==
    /\ adapters[i].link = from
    /\ adapters' = [adapters EXCEPT ![i].link = to]
    /\ UNCHANGED <<server, worker, results, overlap>>

\* The handshake succeeds: the server has subscribed the connection.
Open(i) == Link(i, "connecting", "open")

\* onerror and onclose; a stopped adapter, which has no socket, goes nowhere.
ConnectFails(i) == Link(i, "connecting", "waiting")

\* onmessage.
Deliver(i) ==
    /\ adapters[i].link = "open" /\ adapters[i].wire # {}
    /\ \E d \in adapters[i].wire :
          /\ Tell({d})
          /\ adapters' = [adapters EXCEPT ![i].wire = @ \ {d}]
    /\ UNCHANGED <<server, worker, overlap>>

\* The connection is lost, with what was on its way.
Drop(i) ==
    /\ adapters[i].link = "open"
    /\ adapters' = [adapters EXCEPT ![i].link = "dead", ![i].wire = {}]
    /\ Miss(adapters[i].wire \cap Listed)
    /\ UNCHANGED <<server, worker, overlap>>

\* Mutant: onclose does not schedule a reconnection.
GiveUp(i) == Link(i, "dead", "none")

\* onclose: scheduleReconnect.
OnClose(i) == Link(i, "dead", "waiting")

\* The timer of scheduleReconnect: connect.
Reconnect(i) == Link(i, "waiting", "connecting")

-----------------------------------------------------------------------------
Polling(i) ==
    \E k \in Slots : Poll(i, k) \/ Query(i, k) \/ Respond(i, k) \/ PollFails(i, k)
                       \/ Answer(i, k)

Realtime(i) ==
    \/ Open(i) \/ ConnectFails(i) \/ Deliver(i)
    \/ Drop(i) \/ OnClose(i) \/ Reconnect(i)

Next ==
    \/ Tick
    \/ \E d \in Domain :
          \/ BeginBlock(d) \/ CommitBlock(d) \/ AttachDomain(d) \/ Retract(d)
          \/ RemoveDomain(d)
    \/ FetchFull \/ FetchFails \/ ApplyFull
    \/ \E m \in Modes : SetAdapterMode(m)
    \/ GetAdapterMode \/ Create \/ Restart
    \/ \E i \in Ids : Polling(i) \/ Realtime(i)

Spec == Init /\ [][Next]_vars

\* Chrome's storage answers, timers fire, the server answers, a dead socket is
\* closed in the end; polls and handshakes that are tried for ever do not fail
\* for ever.
FairSpec ==
    /\ Spec
    /\ WF_vars(GetAdapterMode) /\ WF_vars(Create)
    /\ \A i \in 1..MaxAdapters :
          /\ \A k \in Slots :
                /\ WF_vars(i \in Ids /\ Poll(i, k))
                /\ WF_vars(i \in Ids /\ Query(i, k))
                /\ WF_vars(i \in Ids /\ Respond(i, k))
                /\ SF_vars(i \in Ids /\ Answer(i, k))
          /\ WF_vars(i \in Ids /\ OnClose(i)) /\ WF_vars(i \in Ids /\ Reconnect(i))
          /\ SF_vars(i \in Ids /\ Open(i))
          /\ SF_vars(i \in Ids /\ Deliver(i))

-----------------------------------------------------------------------------
(* Properties *)

Requests == [at : {"none", "sent", "queried", "answered"}, since : 0..MaxTime,
             rows : SUBSET Domain, upto : 0..MaxTime, taken : 0..MaxTime]

Adapters == [kind : Modes, stopped : BOOLEAN,
             link : {"none", "connecting", "open", "dead", "waiting"},
             wire : SUBSET Domain, since : 0..MaxTime, taken : 0..MaxTime,
             flight : [Slots -> Requests]]

\* Every variable holds a value of its kind; a cursor is never ahead of the
\* clock it was taken from.
TypeOK ==
    /\ clock \in 1..MaxTime
    /\ blockedAt \in [Domain -> 0..clock] /\ writing \in [Domain -> 0..clock]
    /\ mode \in Modes
    /\ boot \in {"fetching", "applying", "done", "failed"}
    /\ snapshot \subseteq Domain
    /\ starting \in 0..MaxAdapters /\ creating \in Seq(Modes)
    /\ active = Len(adapters)
    /\ adapters \in Seq(Adapters) /\ Len(adapters) <= MaxAdapters
    /\ \A i \in Ids :
          /\ adapters[i].since <= adapters[i].taken /\ adapters[i].taken <= clock
          /\ \A k \in Slots : /\ Request(i, k).upto <= Request(i, k).taken
                              /\ Request(i, k).taken <= clock
    /\ told \subseteq Domain /\ overtaken \subseteq Domain
    /\ overlap \in BOOLEAN

\* The socket brings the block, or the next poll does.
OnItsWay(d) ==
    /\ Running
    /\ LET a == adapters[active]
       IN  d \in a.wire \/ (a.kind = "polling" /\ blockedAt[d] > a.since)

\* A block that is on the list has been told, or is on its way, or has met one
\* of the gaps: no adapter or no socket at its commit, a socket lost with it, a
\* commit between a poll's query and its updated_at or later than a cursor that
\* is past its blocked_at, a query that failed, an adapter stopped before it
\* told, a boot that failed.  The cursor, the overlapping polls and the late
\* answers of pollers lose no other.
FeedAccounted == \A d \in Listed : d \in told \cup overtaken \/ OnItsWay(d)

\* Once all calls of startAdapter have returned, what runs is what the popup
\* last asked for, in whatever way the calls interleaved.
ActiveModeIsLatest ==
    starting = 0 /\ creating = <<>> /\ active # 0 => adapters[active].kind = mode

\* No adapter outlives the one that replaces it, unless one startAdapter began
\* before another had ended.
SwitchesHandOver ==
    ~ overlap /\ starting = 0 /\ creating = <<>> =>
        \A i \in Ids : i # active => adapters[i].stopped

\* docs/TASKS.md:504, "Reconnects after network drop": a realtime adapter that
\* has not been stopped gets its socket back, as often as it is lost.
RealtimeReturns ==
    \A i \in 1..MaxAdapters :
        (i \in Ids /\ adapters[i].link = "dead")
        ~> (i \in Ids => adapters[i].link = "open" \/ adapters[i].stopped)

\* A block that meets no gap is told, in either mode, also after a switch to
\* polling, which closes the gaps of the past.
BlocksArrive ==
    \A d \in Domain : (d \in Listed) ~> (d \notin Listed \/ d \in told \cup overtaken)
=============================================================================
