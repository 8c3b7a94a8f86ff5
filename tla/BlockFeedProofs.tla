--------------------------- MODULE BlockFeedProofs ---------------------------
(***************************************************************************)
(* BlockFeed for every set of domains, length of a second, and number of     *)
(* adapters and of overlapping polls: nothing is lost but in the gaps, what  *)
(* runs is what the popup last asked for, and adapters hand over.            *)
(***************************************************************************)
EXTENDS BlockFeed, SequenceTheorems, TLAPS

Pending == IF boot \in {"fetching", "applying"} THEN 1 ELSE 0

\* The bound on adapters leaves room for each start that is under way.
RoomKept == Len(adapters) + starting + Len(creating) + Pending <= MaxAdapters

CursorsOK(a) ==
    /\ a.since <= a.taken /\ a.taken <= clock
    /\ \A k \in Slots : /\ a.flight[k].upto <= a.flight[k].taken
                        /\ a.flight[k].since <= a.flight[k].taken
                        /\ a.flight[k].taken <= clock

CursorsKept == \A i \in Ids : CursorsOK(adapters[i])

\* A poll under way tells the row, or leaves a cursor that the row is beyond.
Spares(request, d) ==
    /\ request.at = "sent" => blockedAt[d] > request.since
    /\ request.at = "queried" => d \in request.rows
    /\ request.at = "answered" => d \in request.rows \/ blockedAt[d] > request.upto

Brings(a, d) ==
    /\ ~ a.stopped
    /\ a.kind = "realtime" => d \in a.wire
    /\ a.kind = "polling" => /\ blockedAt[d] > a.since
                             /\ \A k \in Slots : Spares(a.flight[k], d)

\* FeedAccounted, with what every poll under way must still do.
Carried ==
    \A d \in Listed \ (told \cup overtaken) :
        active # 0 /\ Brings(adapters[active], d)

\* The last start under way will find, or has found, the mode that is stored.
LastMode ==
    starting = 0 =>
        /\ creating # <<>> => creating[Len(creating)] = mode
        /\ creating = <<>> /\ active # 0 => adapters[active].kind = mode

\* As long as starts do not overlap, one that is under way has stopped all.
HandedOver ==
    ~ overlap =>
        /\ starting + Len(creating) <= 1
        /\ \A i \in Ids : i # active => adapters[i].stopped
        /\ starting + Len(creating) = 1 => \A i \in Ids : adapters[i].stopped

Typed == TypeOK /\ RoomKept /\ CursorsKept

-----------------------------------------------------------------------------
LEMMA FormatBounds == ASSUME NEW t \in Nat PROVE Format(t) \in 0..t
<1>1. Second \in Nat /\ Second > 0
  BY FeedAssumption
<1>2. t \div Second \in Nat /\ Second * (t \div Second) <= t
  BY <1>1, SMTT(30)
<1> QED BY <1>1, <1>2, SMTT(30) DEF Format

LEMMA EmptyRequest == NoRequest \in Requests
BY FeedAssumption DEF NoRequest, Requests

LEMMA IdleRequests == Idle \in [Slots -> Requests]
BY EmptyRequest DEF Idle

\* Replacing an adapter keeps the others and their number.
LEMMA ReplaceAdapter ==
    ASSUME NEW s \in Seq(Adapters), NEW i \in DOMAIN s, NEW a \in Adapters
    PROVE  /\ [s EXCEPT ![i] = a] \in Seq(Adapters)
           /\ Len([s EXCEPT ![i] = a]) = Len(s)
           /\ DOMAIN [s EXCEPT ![i] = a] = DOMAIN s
           /\ \A j \in DOMAIN s : [s EXCEPT ![i] = a][j] = IF j = i THEN a ELSE s[j]
OBVIOUS

\* A step that replaces one adapter, leaves the rest of the worker and the
\* server alone, and keeps the cursors in order keeps the types.
LEMMA ReplaceTyped ==
    ASSUME Typed, NEW i \in Ids, NEW a \in Adapters, CursorsOK(a),
           adapters' = [adapters EXCEPT ![i] = a],
           told' \subseteq Domain, overtaken' \subseteq Domain,
           UNCHANGED <<server, worker, overlap>>
    PROVE  Typed'
<1>1. /\ adapters' \in Seq(Adapters) /\ Len(adapters') = Len(adapters) /\ Ids' = Ids
      /\ \A j \in Ids : adapters'[j] = IF j = i THEN a ELSE adapters[j]
  BY ReplaceAdapter DEF Typed, TypeOK, Ids
<1>2. CursorsKept'
  <2> SUFFICES ASSUME NEW j \in Ids PROVE CursorsOK(adapters[j])'
    BY <1>1 DEF CursorsKept
  <2>1. clock' = clock
    BY DEF server
  <2> QED BY <1>1, <2>1 DEF CursorsOK, Typed, CursorsKept
<1>3. RoomKept'
  BY <1>1 DEF Typed, RoomKept, Pending, worker
<1>4. TypeOK'
  BY <1>1, <1>2 DEF Typed, TypeOK, CursorsKept, CursorsOK, Request, server, worker
<1> QED BY <1>2, <1>3, <1>4 DEF Typed

\* The same for a poll under way in slot k.
LEMMA SlotTyped ==
    ASSUME Typed, NEW i \in Ids, NEW k \in Slots, NEW r \in Requests,
           r.since <= r.taken, r.upto <= r.taken, r.taken <= clock,
           adapters' = [adapters EXCEPT ![i].flight[k] = r],
           told' \subseteq Domain, overtaken' \subseteq Domain,
           UNCHANGED <<server, worker, overlap>>
    PROVE  Typed'
<1> DEFINE a == [adapters[i] EXCEPT !.flight[k] = r]
<1>1. adapters[i] \in Adapters /\ CursorsOK(adapters[i])
  BY DEF Typed, TypeOK, CursorsKept, Ids
<1>2. a \in Adapters
  BY <1>1 DEF Adapters
<1>3. CursorsOK(a)
  BY <1>1 DEF CursorsOK, Adapters
<1>4. adapters' = [adapters EXCEPT ![i] = a]
  OBVIOUS
<1> HIDE DEF a
<1> QED BY <1>2, <1>3, <1>4, ReplaceTyped

\* A step that stops adapters, or gives them something to deliver, too.
LEMMA MapTyped ==
    ASSUME Typed, NEW f \in [Ids -> Adapters],
           \A i \in Ids : /\ f[i].since = adapters[i].since
                          /\ f[i].taken = adapters[i].taken
                          /\ f[i].flight = adapters[i].flight
    PROVE  /\ f \in Seq(Adapters) /\ Len(f) = Len(adapters) /\ DOMAIN f = Ids
           /\ \A i \in Ids : CursorsOK(f[i])
<1>1. adapters \in Seq(Adapters)
  BY DEF Typed, TypeOK
<1>2. f \in Seq(Adapters) /\ Len(f) = Len(adapters) /\ DOMAIN f = Ids
  BY <1>1 DEF Ids
<1> QED BY <1>2 DEF Typed, CursorsKept, CursorsOK

\* What a notification changes.
LEMMA HearKeeps ==
    ASSUME Typed, NEW hearing \in Hearings, NEW d \in Domain
    PROVE  /\ Hear(hearing, d) \in [Ids -> Adapters]
           /\ \A i \in Ids : /\ Hear(hearing, d)[i].since = adapters[i].since
                             /\ Hear(hearing, d)[i].taken = adapters[i].taken
                             /\ Hear(hearing, d)[i].flight = adapters[i].flight
                             /\ Hear(hearing, d)[i].kind = adapters[i].kind
                             /\ Hear(hearing, d)[i].stopped = adapters[i].stopped
                             /\ adapters[i].wire \subseteq Hear(hearing, d)[i].wire
                             /\ i \in hearing => d \in Hear(hearing, d)[i].wire
<1>1. \A i \in Ids : adapters[i] \in Adapters
  BY DEF Typed, TypeOK, Ids
<1> QED BY <1>1 DEF Hear, Adapters

LEMMA InitTyped == Init => Typed
<1> SUFFICES ASSUME Init PROVE Typed
  OBVIOUS
<1>1. adapters = <<>> /\ adapters \in Seq(Adapters) /\ Len(adapters) = 0 /\ Ids = {}
  BY DEF Init, Ids
<1>2. creating \in Seq(Modes) /\ Len(creating) = 0
  BY DEF Init
<1>3. TypeOK
  <2>1. clock \in 1..MaxTime /\ starting \in 0..MaxAdapters
    BY FeedAssumption DEF Init
  <2>2. blockedAt \in [Domain -> 0..clock] /\ writing \in [Domain -> 0..clock]
    BY DEF Init
  <2>3. overlap \in BOOLEAN
    BY Zenon DEF Init
  <2>4. active = Len(adapters) /\ Len(adapters) <= MaxAdapters
    BY <1>1, FeedAssumption DEF Init
  <2> QED BY <1>1, <1>2, <2>1, <2>2, <2>3, <2>4 DEF Init, TypeOK
<1>4. RoomKept
  BY <1>1, <1>2, FeedAssumption DEF Init, RoomKept, Pending
<1> QED BY <1>1, <1>3, <1>4 DEF Typed, CursorsKept

\* The steps that leave the adapters alone.
LEMMA ServerTyped ==
    ASSUME Typed, UNCHANGED <<worker, adapters, overlap>>,
           clock' \in clock..MaxTime,
           blockedAt' \in [Domain -> 0..clock'], writing' \in [Domain -> 0..clock'],
           told' \subseteq Domain, overtaken' \subseteq Domain
    PROVE  Typed'
<1>1. CursorsKept'
  <2>1. ASSUME NEW a, a \in Adapters, CursorsOK(a) PROVE CursorsOK(a)'
    BY <2>1 DEF CursorsOK, Adapters, Requests, Typed, TypeOK
  <2> QED BY <2>1 DEF Typed, TypeOK, CursorsKept, Ids
<1>2. RoomKept'
  BY DEF Typed, RoomKept, Pending, worker
<1>3. TypeOK'
  BY <1>1, FeedAssumption
  DEF Typed, TypeOK, CursorsKept, CursorsOK, Request, worker, Ids
<1> QED BY <1>1, <1>2, <1>3 DEF Typed

LEMMA StopTyped ==
    ASSUME Typed, StartAdapter
    PROVE  /\ adapters' \in [Ids -> Adapters]
           /\ \A i \in Ids : /\ adapters'[i].since = adapters[i].since
                             /\ adapters'[i].taken = adapters[i].taken
                             /\ adapters'[i].flight = adapters[i].flight
                             /\ adapters'[i].kind = adapters[i].kind
                             /\ i = active => adapters'[i].stopped
                             /\ i # active => adapters'[i] = adapters[i]
           /\ starting' = starting + 1
           /\ overlap' \in BOOLEAN
<1>1. adapters \in Seq(Adapters) /\ \A i \in Ids : adapters[i] \in Adapters
  BY DEF Typed, TypeOK, Ids
<1>2. ASSUME NEW i \in Ids PROVE Stopped(adapters[i]) \in Adapters
  BY <1>1 DEF Stopped, Adapters
<1>3. ASSUME NEW i \in Ids
      PROVE  /\ Stopped(adapters[i]).since = adapters[i].since
             /\ Stopped(adapters[i]).taken = adapters[i].taken
             /\ Stopped(adapters[i]).flight = adapters[i].flight
             /\ Stopped(adapters[i]).kind = adapters[i].kind
             /\ Stopped(adapters[i]).stopped = TRUE
  BY <1>1 DEF Stopped, Adapters
<1>4. adapters' = [i \in Ids |-> IF i = active THEN Stopped(adapters[i])
                                               ELSE adapters[i]]
  BY DEF StartAdapter
<1>5. overlap' \in BOOLEAN
  BY Zenon DEF StartAdapter
<1> QED BY <1>1, <1>2, <1>3, <1>4, <1>5 DEF StartAdapter

LEMMA StartTyped ==
    ASSUME Typed, StartAdapter, UNCHANGED <<server, creating, active>>,
           mode' \in Modes, boot' \in {"fetching", "applying", "done", "failed"},
           snapshot' \subseteq Domain,
           told' \subseteq Domain, overtaken' \subseteq Domain,
           Len(adapters) + starting + 1 + Len(creating) + Pending' <= MaxAdapters
    PROVE  Typed'
<1>1. /\ adapters' \in Seq(Adapters) /\ Len(adapters') = Len(adapters) /\ Ids' = Ids
      /\ \A i \in Ids : CursorsOK(adapters'[i])
  BY StopTyped, MapTyped DEF Ids
<1>2. CursorsKept'
  BY <1>1 DEF CursorsKept, CursorsOK, server
<1>3. starting' = starting + 1 /\ overlap' \in BOOLEAN
  BY StopTyped
<1>4. Pending' \in {0, 1}
  BY DEF Pending
<1>5. RoomKept'
  BY <1>1, <1>3 DEF Typed, TypeOK, RoomKept
<1>6. starting' \in 0..MaxAdapters
  BY <1>1, <1>3, <1>4, FeedAssumption DEF Typed, TypeOK
<1>7. TypeOK'
  BY <1>1, <1>2, <1>3, <1>6
  DEF Typed, TypeOK, CursorsKept, CursorsOK, Request, server
<1> QED BY <1>2, <1>5, <1>7 DEF Typed

LEMMA CreateTyped == ASSUME Typed, Create PROVE Typed'
<1> DEFINE a == IF Head(creating) = "polling" THEN PollingAdapter ELSE RealtimeAdapter
<1>1. /\ creating \in Seq(Modes) /\ creating # <<>> /\ creating' = Tail(creating)
      /\ creating' \in Seq(Modes) /\ Len(creating') = Len(creating) - 1
      /\ Len(creating) \in Nat
  BY DEF Typed, TypeOK, Create
<1>2. a \in Adapters /\ a.since = 0 /\ a.taken = 0
  <2>1. [NoRequest EXCEPT !.at = "sent"] \in Requests
    BY EmptyRequest DEF Requests
  <2>2. [Idle EXCEPT ![1] = [NoRequest EXCEPT !.at = "sent"]] \in [Slots -> Requests]
    BY <2>1, IdleRequests
  <2>3. PollingAdapter \in Adapters /\ PollingAdapter.since = 0 /\ PollingAdapter.taken = 0
    BY <2>2, FeedAssumption DEF PollingAdapter, Adapters, Modes
  <2>4. RealtimeAdapter \in Adapters /\ RealtimeAdapter.since = 0 /\ RealtimeAdapter.taken = 0
    BY IdleRequests, FeedAssumption DEF RealtimeAdapter, Adapters, Modes
  <2> QED BY <2>3, <2>4
<1>3. CursorsOK(a)
  <2>1. \A k \in Slots : /\ a.flight[k].since = 0 /\ a.flight[k].upto = 0
                         /\ a.flight[k].taken = 0
    BY DEF PollingAdapter, RealtimeAdapter, Idle, NoRequest
  <2> QED BY <1>2, <2>1 DEF CursorsOK, Typed, TypeOK
<1>4. adapters' = Append(adapters, a) /\ active' = Len(adapters) + 1
  BY DEF Create
<1> HIDE DEF a
<1>5. /\ adapters' \in Seq(Adapters) /\ Len(adapters') = Len(adapters) + 1
      /\ Ids' = 1..(Len(adapters) + 1) /\ Ids = 1..Len(adapters)
      /\ \A i \in Ids : adapters'[i] = adapters[i]
      /\ adapters'[Len(adapters) + 1] = a
  BY <1>2, <1>4 DEF Typed, TypeOK, Ids
<1>6. UNCHANGED <<server, mode, boot, snapshot, starting, overlap>>
  BY DEF Create
<1>7. CursorsKept'
  <2> SUFFICES ASSUME NEW i \in Ids' PROVE CursorsOK(adapters[i])'
    BY DEF CursorsKept
  <2>1. CASE i = Len(adapters) + 1
    BY <1>3, <1>5, <1>6, <2>1 DEF CursorsOK, server
  <2>2. CASE i # Len(adapters) + 1
    BY <1>5, <1>6, <2>2 DEF CursorsOK, CursorsKept, server, Typed, TypeOK
  <2> QED BY <2>1, <2>2
<1>8. RoomKept'
  BY <1>1, <1>5, <1>6 DEF Typed, TypeOK, RoomKept, Pending
<1>9. Len(adapters') <= MaxAdapters
  <2>1. Pending \in {0, 1}
    BY DEF Pending
  <2> QED BY <1>1, <1>5, <2>1, FeedAssumption DEF Typed, TypeOK, RoomKept
<1>10. told' \subseteq Domain /\ overtaken' \subseteq Domain
  BY DEF Typed, TypeOK, Create, Miss, Listed
<1>11. TypeOK'
  BY <1>1, <1>4, <1>5, <1>6, <1>7, <1>9, <1>10
  DEF Typed, TypeOK, CursorsKept, CursorsOK, Request, server
<1> QED BY <1>7, <1>8, <1>11 DEF Typed

LEMMA NextTyped == ASSUME Typed, Next PROVE Typed'
<1>1. CASE Tick
  <2>1. clock' = clock + 1 /\ clock' \in clock..MaxTime
    BY <1>1, FeedAssumption DEF Tick, Typed, TypeOK
  <2> QED BY <1>1, <2>1, ServerTyped DEF Tick, Typed, TypeOK, results
<1>2. ASSUME NEW d \in Domain, BeginBlock(d) PROVE Typed'
  BY <1>2, ServerTyped, FeedAssumption DEF BeginBlock, Typed, TypeOK, results
<1>3. ASSUME NEW d \in Domain, CommitBlock(d) \/ AttachDomain(d) PROVE Typed'
  <2>1. PICK hearing \in Hearings : adapters' = Hear(hearing, d)
    BY <1>3 DEF CommitBlock, AttachDomain
  <2>2. /\ adapters' \in Seq(Adapters) /\ Len(adapters') = Len(adapters) /\ Ids' = Ids
        /\ \A i \in Ids : CursorsOK(adapters'[i])
    BY <2>1, HearKeeps, MapTyped DEF Ids
  <2>3. UNCHANGED <<clock, worker, overlap>>
    BY <1>3 DEF CommitBlock, AttachDomain, server
  <2>4. CursorsKept'
    BY <2>2, <2>3 DEF CursorsKept, CursorsOK
  <2>5. RoomKept'
    BY <2>2, <2>3 DEF Typed, RoomKept, Pending, worker
  <2>6. told' \subseteq Domain /\ overtaken' \subseteq Domain
    BY <1>3 DEF CommitBlock, AttachDomain, Typed, TypeOK, Miss, results
  <2>7. blockedAt' \in [Domain -> 0..clock] /\ writing' \in [Domain -> 0..clock]
    <3>1. CASE CommitBlock(d)
      BY <3>1, FeedAssumption DEF CommitBlock, Typed, TypeOK
    <3>2. CASE AttachDomain(d)
      BY <3>2 DEF AttachDomain, server, Typed, TypeOK
    <3> QED BY <1>3, <3>1, <3>2
  <2>8. TypeOK'
    BY <2>2, <2>3, <2>4, <2>6, <2>7
    DEF Typed, TypeOK, CursorsKept, CursorsOK, Request, worker
  <2> QED BY <2>4, <2>5, <2>8 DEF Typed
<1>4. ASSUME NEW d \in Domain, Retract(d) PROVE Typed'
  BY <1>4, ServerTyped, FeedAssumption DEF Retract, Typed, TypeOK, results
<1>5. ASSUME NEW d \in Domain, RemoveDomain(d) PROVE Typed'
  <2>1. told' \subseteq Domain /\ overtaken' \subseteq Domain
    BY <1>5 DEF RemoveDomain, Typed, TypeOK
  <2> QED BY <1>5, <2>1, ServerTyped, FeedAssumption DEF RemoveDomain, Typed, TypeOK, server
<1>6. CASE FetchFull \/ FetchFails
  <2>1. /\ boot' \in {"applying", "failed"} /\ boot = "fetching"
        /\ snapshot' \subseteq Domain
        /\ UNCHANGED <<server, mode, starting, creating, active, adapters, results, overlap>>
    BY <1>6 DEF FetchFull, FetchFails, Listed, Typed, TypeOK
  <2>2. CursorsKept'
    BY <2>1 DEF Typed, CursorsKept, CursorsOK, Ids, server
  <2>3. RoomKept'
    <3>1. Pending = 1 /\ Pending' \in {0, 1}
      BY <2>1 DEF Pending
    <3> QED BY <2>1, <3>1, FeedAssumption DEF Typed, TypeOK, RoomKept
  <2>4. TypeOK'
    BY <2>1, <2>2 DEF Typed, TypeOK, CursorsKept, CursorsOK, Request, server, results, Ids
  <2> QED BY <2>2, <2>3, <2>4 DEF Typed
<1>7. CASE ApplyFull
  <2>1. /\ told' \subseteq Domain /\ overtaken' \subseteq Domain /\ snapshot' \subseteq Domain
        /\ boot = "applying" /\ boot' = "done" /\ StartAdapter
        /\ UNCHANGED <<server, mode, creating, active>>
    BY <1>7 DEF ApplyFull, Listed, Typed, TypeOK
  <2>2. Pending = 1 /\ Pending' = 0
    BY <2>1 DEF Pending
  <2>3. Len(adapters) + starting + 1 + Len(creating) + Pending' <= MaxAdapters
    BY <2>2, FeedAssumption DEF Typed, TypeOK, RoomKept
  <2> QED BY <2>1, <2>3, StartTyped DEF Typed, TypeOK
<1>8. ASSUME NEW m \in Modes, SetAdapterMode(m) PROVE Typed'
  <2>1. /\ told' \subseteq Domain /\ overtaken' \subseteq Domain
        /\ Room /\ mode' = m /\ StartAdapter
        /\ UNCHANGED <<server, boot, snapshot, creating, active>>
    BY <1>8 DEF SetAdapterMode, Miss, Listed, Typed, TypeOK
  <2>2. Len(adapters) + starting + Len(creating) + Pending < MaxAdapters
        /\ Pending' = Pending /\ Pending \in {0, 1}
    BY <2>1 DEF Room, Pending
  <2>3. Len(adapters) + starting + 1 + Len(creating) + Pending' <= MaxAdapters
    BY <2>2, FeedAssumption DEF Typed, TypeOK
  <2> QED BY <2>1, <2>3, StartTyped DEF Typed, TypeOK
<1>9. CASE GetAdapterMode
  <2>1. /\ creating' \in Seq(Modes) /\ Len(creating') = Len(creating) + 1
        /\ starting' = starting - 1 /\ starting' \in 0..MaxAdapters
        /\ UNCHANGED <<server, mode, boot, snapshot, active, adapters, results, overlap>>
    BY <1>9, FeedAssumption DEF GetAdapterMode, Typed, TypeOK
  <2>2. CursorsKept'
    BY <2>1 DEF Typed, CursorsKept, CursorsOK, Ids, server
  <2>3. RoomKept'
    BY <2>1, FeedAssumption DEF Typed, TypeOK, RoomKept, Pending
  <2>4. TypeOK'
    BY <2>1, <2>2 DEF Typed, TypeOK, CursorsKept, CursorsOK, Request, server, results, Ids
  <2> QED BY <2>2, <2>3, <2>4 DEF Typed
<1>10. CASE Create
  BY <1>10, CreateTyped
<1>11. CASE Restart
  <2>1. /\ adapters' = <<>> /\ adapters' \in Seq(Adapters) /\ Len(adapters') = 0 /\ Ids' = {}
        /\ creating' = <<>> /\ creating' \in Seq(Modes) /\ Len(creating') = 0
    BY <1>11 DEF Restart, Ids
  <2>2. told' \subseteq Domain /\ overtaken' \subseteq Domain
    BY <1>11 DEF Restart, Miss, Listed, Typed, TypeOK
  <2>3. starting' = 0 /\ active' = 0 /\ boot' = "fetching" /\ snapshot' = {}
        /\ UNCHANGED <<server, mode>>
    BY <1>11 DEF Restart
  <2>4. RoomKept'
    BY <2>1, <2>3, FeedAssumption DEF RoomKept, Pending
  <2>5. overlap' \in BOOLEAN
    BY <1>11, Zenon DEF Restart
  <2>6. TypeOK'
    BY <2>1, <2>2, <2>3, <2>5, FeedAssumption DEF Typed, TypeOK, server
  <2> QED BY <2>1, <2>4, <2>6 DEF Typed, CursorsKept
<1>12. ASSUME NEW i \in Ids, NEW k \in Slots,
              Poll(i, k) \/ Query(i, k) \/ Respond(i, k) \/ PollFails(i, k) \/ Answer(i, k)
       PROVE  Typed'
  <2>1. /\ adapters[i] \in Adapters /\ CursorsOK(adapters[i])
        /\ Request(i, k) \in Requests
        /\ Request(i, k).since <= Request(i, k).taken
        /\ Request(i, k).upto <= Request(i, k).taken /\ Request(i, k).taken <= clock
        /\ clock \in 1..MaxTime
        /\ told \subseteq Domain /\ overtaken \subseteq Domain
    <3>1. adapters[i] \in Adapters /\ CursorsOK(adapters[i]) /\ clock \in 1..MaxTime
          /\ told \subseteq Domain /\ overtaken \subseteq Domain
      BY DEF Typed, TypeOK, CursorsKept, Ids
    <3>2. Request(i, k) \in Requests
      BY <3>1 DEF Request, Adapters
    <3> QED BY <3>1, <3>2 DEF CursorsOK, Request
  <2>2. CASE Poll(i, k)
    <3> DEFINE r == [NoRequest EXCEPT !.at = "sent", !.since = adapters[i].since,
                                      !.taken = adapters[i].taken]
    <3>1. adapters[i].since \in 0..MaxTime /\ adapters[i].taken \in 0..MaxTime
          /\ adapters[i].since <= adapters[i].taken /\ adapters[i].taken <= clock
      BY <2>1 DEF CursorsOK, Adapters
    <3>2. r \in Requests
      BY <3>1, EmptyRequest DEF Requests
    <3>3. r.since = adapters[i].since /\ r.taken = adapters[i].taken /\ r.upto = 0
      BY DEF NoRequest
    <3> HIDE DEF r
    <3>4. r.since <= r.taken /\ r.upto <= r.taken /\ r.taken <= clock
      BY <3>1, <3>3, FeedAssumption
    <3>5. adapters' = [adapters EXCEPT ![i].flight[k] = r]
      BY <2>2 DEF Poll, r
    <3> QED BY <2>1, <2>2, <3>2, <3>4, <3>5, SlotTyped DEF Poll, results
  <2>3. CASE Query(i, k)
    <3>1. PICK rows \in SUBSET Domain :
            adapters' = [adapters EXCEPT ![i].flight[k] =
                           [Request(i, k) EXCEPT !.at = "queried", !.rows = rows]]
      <4>1. Since(Request(i, k).since) \subseteq Domain
        BY DEF Since, Listed
      <4>2. [Request(i, k) EXCEPT !.at = "queried"]
             = [Request(i, k) EXCEPT !.at = "queried", !.rows = Request(i, k).rows]
        BY <2>1 DEF Requests
      <4>3. Request(i, k).rows \in SUBSET Domain
        BY <2>1 DEF Requests
      <4> QED BY <2>3, <4>1, <4>2, <4>3 DEF Query, Request
    <3> DEFINE r == [Request(i, k) EXCEPT !.at = "queried", !.rows = rows]
    <3>2. r \in Requests /\ r.since <= r.taken /\ r.upto <= r.taken /\ r.taken <= clock
      BY <2>1 DEF Requests
    <3>3. adapters' = [adapters EXCEPT ![i].flight[k] = r]
      BY <3>1
    <3>4. told' \subseteq Domain /\ overtaken' \subseteq Domain
          /\ UNCHANGED <<server, worker, overlap>>
      BY <2>1, <2>3 DEF Query, Miss, Listed, results
    <3> HIDE DEF r
    <3> QED BY <3>2, <3>3, <3>4, SlotTyped
  <2>4. CASE Respond(i, k)
    <3> DEFINE r == [Request(i, k) EXCEPT !.at = "answered", !.upto = Format(clock),
                                          !.taken = clock]
    <3>1. Format(clock) \in 0..clock
      BY <2>1, FormatBounds, FeedAssumption
    <3>2. r \in Requests /\ r.since <= r.taken /\ r.upto <= r.taken /\ r.taken <= clock
      <4>1. Format(clock) \in 0..MaxTime /\ clock \in 0..MaxTime
        BY <2>1, <3>1, FeedAssumption
      <4>2. r.since = Request(i, k).since /\ r.taken = clock /\ r.upto = Format(clock)
        BY <2>1 DEF Requests
      <4>3. r \in Requests
        BY <2>1, <4>1 DEF Requests
      <4> HIDE DEF r
      <4>4. r.since <= r.taken /\ r.upto <= r.taken /\ r.taken <= clock
        BY <2>1, <3>1, <4>2 DEF Requests
      <4> QED BY <4>3, <4>4
    <3>3. adapters' = [adapters EXCEPT ![i].flight[k] = r]
      BY <2>4 DEF Respond, Request
    <3> HIDE DEF r
    <3> QED BY <2>1, <2>4, <3>2, <3>3, SlotTyped DEF Respond, results
  <2>5. CASE PollFails(i, k)
    <3>1. /\ NoRequest.since <= NoRequest.taken /\ NoRequest.upto <= NoRequest.taken
          /\ NoRequest.taken <= clock
      BY <2>1, FeedAssumption DEF NoRequest
    <3>2. told' \subseteq Domain /\ overtaken' \subseteq Domain
          /\ UNCHANGED <<server, worker, overlap>>
          /\ adapters' = [adapters EXCEPT ![i].flight[k] = NoRequest]
      BY <2>1, <2>5 DEF PollFails, results
    <3> QED BY <3>1, <3>2, EmptyRequest, SlotTyped
  <2>6. CASE Answer(i, k)
    <3> DEFINE a == [adapters[i] EXCEPT !.since = Request(i, k).upto,
                       !.taken = Request(i, k).taken, !.flight[k] = NoRequest]
    <3>1. adapters' = [adapters EXCEPT ![i] = a]
      BY <2>6 DEF Answer
    <3>2. a \in Adapters
      BY <2>1, EmptyRequest DEF Adapters, Requests
    <3>3. CursorsOK(a)
      BY <2>1, FeedAssumption DEF CursorsOK, Adapters, NoRequest
    <3>4. told' \subseteq Domain /\ overtaken' \subseteq Domain
          /\ UNCHANGED <<server, worker, overlap>>
      BY <2>1, <2>6 DEF Answer, Tell, Requests
    <3> HIDE DEF a
    <3> QED BY <3>1, <3>2, <3>3, <3>4, ReplaceTyped
  <2> QED BY <1>12, <2>2, <2>3, <2>4, <2>5, <2>6
<1>13. ASSUME NEW i \in Ids, Realtime(i) PROVE Typed'
  <2>1. /\ adapters[i] \in Adapters /\ CursorsOK(adapters[i])
        /\ told \subseteq Domain /\ overtaken \subseteq Domain
    BY DEF Typed, TypeOK, CursorsKept, Ids
  <2>2. ASSUME NEW from, NEW to \in {"none", "connecting", "open", "dead", "waiting"},
               Link(i, from, to)
        PROVE  Typed'
    <3> DEFINE a == [adapters[i] EXCEPT !.link = to]
    <3>1. a \in Adapters /\ CursorsOK(a)
      BY <2>1 DEF Adapters, CursorsOK
    <3>2. adapters' = [adapters EXCEPT ![i] = a]
      BY <2>2 DEF Link
    <3> HIDE DEF a
    <3> QED BY <2>1, <2>2, <3>1, <3>2, ReplaceTyped DEF Link, results
  <2>3. CASE Deliver(i)
    <3>1. PICK d \in adapters[i].wire :
            Tell({d}) /\ adapters' = [adapters EXCEPT ![i].wire = @ \ {d}]
      BY <2>3 DEF Deliver
    <3> DEFINE a == [adapters[i] EXCEPT !.wire = @ \ {d}]
    <3>2. a \in Adapters /\ CursorsOK(a)
      BY <2>1 DEF Adapters, CursorsOK
    <3>3. adapters' = [adapters EXCEPT ![i] = a]
      BY <3>1
    <3>4. told' \subseteq Domain /\ overtaken' \subseteq Domain
      BY <2>1, <3>1 DEF Tell, Adapters
    <3> HIDE DEF a
    <3> QED BY <2>3, <3>2, <3>3, <3>4, ReplaceTyped DEF Deliver
  <2>4. CASE Drop(i)
    <3> DEFINE a == [adapters[i] EXCEPT !.link = "dead", !.wire = {}]
    <3>1. a \in Adapters /\ CursorsOK(a)
      BY <2>1 DEF Adapters, CursorsOK
    <3>2. adapters' = [adapters EXCEPT ![i] = a]
      BY <2>4 DEF Drop
    <3>3. told' \subseteq Domain /\ overtaken' \subseteq Domain
      BY <2>1, <2>4 DEF Drop, Miss, Listed
    <3> HIDE DEF a
    <3> QED BY <2>4, <3>1, <3>2, <3>3, ReplaceTyped DEF Drop
  <2> QED BY <1>13, <2>2, <2>3, <2>4
      DEF Realtime, Open, ConnectFails, OnClose, Reconnect
<1> QED BY <1>1, <1>2, <1>3, <1>4, <1>5, <1>6, <1>7, <1>8, <1>9, <1>10, <1>11, <1>12, <1>13
    DEF Next, Polling

-----------------------------------------------------------------------------
(* Which adapter runs *)

\* The steps that neither start nor stop an adapter.
KeepsRoles ==
    /\ Ids' = Ids
    /\ \A i \in Ids : /\ adapters'[i].kind = adapters[i].kind
                      /\ adapters'[i].stopped = adapters[i].stopped
    /\ UNCHANGED <<starting, creating, mode, active, overlap>>

LEMMA AdapterStepRoles ==
    ASSUME Typed, NEW i \in Ids, Polling(i) \/ Realtime(i)
    PROVE  KeepsRoles
<1>1. adapters[i] \in Adapters /\ adapters \in Seq(Adapters)
  BY DEF Typed, TypeOK, Ids
<1>2. \E a : /\ adapters' = [adapters EXCEPT ![i] = a]
             /\ a.kind = adapters[i].kind /\ a.stopped = adapters[i].stopped
  <2>1. ASSUME NEW k \in Slots, NEW r, adapters' = [adapters EXCEPT ![i].flight[k] = r]
        PROVE  \E a : /\ adapters' = [adapters EXCEPT ![i] = a]
                      /\ a.kind = adapters[i].kind /\ a.stopped = adapters[i].stopped
    <3> DEFINE a == [adapters[i] EXCEPT !.flight[k] = r]
    <3>1. adapters' = [adapters EXCEPT ![i] = a]
      BY <2>1
    <3>2. a.kind = adapters[i].kind /\ a.stopped = adapters[i].stopped
      BY <1>1 DEF Adapters
    <3> QED BY <3>1, <3>2
  <2>2. ASSUME NEW k \in Slots,
               Poll(i, k) \/ Query(i, k) \/ Respond(i, k) \/ PollFails(i, k)
        PROVE  \E r : adapters' = [adapters EXCEPT ![i].flight[k] = r]
    BY <2>2 DEF Poll, Query, Respond, PollFails
  <2>3. ASSUME NEW k \in Slots, Answer(i, k)
        PROVE  \E a : /\ adapters' = [adapters EXCEPT ![i] = a]
                      /\ a.kind = adapters[i].kind /\ a.stopped = adapters[i].stopped
    <3> DEFINE a == [adapters[i] EXCEPT !.since = Request(i, k).upto,
                       !.taken = Request(i, k).taken, !.flight[k] = NoRequest]
    <3>1. adapters' = [adapters EXCEPT ![i] = a]
      BY <2>3 DEF Answer
    <3>2. a.kind = adapters[i].kind /\ a.stopped = adapters[i].stopped
      BY <1>1 DEF Adapters
    <3> QED BY <3>1, <3>2
  <2>4. ASSUME NEW link, NEW wire,
               \/ adapters' = [adapters EXCEPT ![i].link = link]
               \/ adapters' = [adapters EXCEPT ![i].wire = wire]
               \/ adapters' = [adapters EXCEPT ![i].link = link, ![i].wire = wire]
        PROVE  \E a : /\ adapters' = [adapters EXCEPT ![i] = a]
                      /\ a.kind = adapters[i].kind /\ a.stopped = adapters[i].stopped
    <3>1. CASE adapters' = [adapters EXCEPT ![i].link = link]
      <4> DEFINE a == [adapters[i] EXCEPT !.link = link]
      <4>1. a.kind = adapters[i].kind /\ a.stopped = adapters[i].stopped
        BY <1>1 DEF Adapters
      <4> QED BY <3>1, <4>1
    <3>2. CASE adapters' = [adapters EXCEPT ![i].wire = wire]
      <4> DEFINE a == [adapters[i] EXCEPT !.wire = wire]
      <4>1. a.kind = adapters[i].kind /\ a.stopped = adapters[i].stopped
        BY <1>1 DEF Adapters
      <4> QED BY <3>2, <4>1
    <3>3. CASE adapters' = [adapters EXCEPT ![i].link = link, ![i].wire = wire]
      <4> DEFINE a == [adapters[i] EXCEPT !.link = link, !.wire = wire]
      <4>1. a.kind = adapters[i].kind /\ a.stopped = adapters[i].stopped
        BY <1>1 DEF Adapters
      <4> QED BY <3>3, <4>1
    <3> QED BY <2>4, <3>1, <3>2, <3>3
  <2>5. ASSUME Realtime(i)
        PROVE  \E link, wire :
                 \/ adapters' = [adapters EXCEPT ![i].link = link]
                 \/ adapters' = [adapters EXCEPT ![i].wire = wire]
                 \/ adapters' = [adapters EXCEPT ![i].link = link, ![i].wire = wire]
    BY <2>5 DEF Realtime, Open, ConnectFails, Deliver, Drop, OnClose, Reconnect, Link
  <2>6. CASE Realtime(i)
    BY <2>4, <2>5, <2>6
  <2>7. CASE Polling(i)
    BY <2>1, <2>2, <2>3, <2>7 DEF Polling
  <2> QED BY <2>6, <2>7
<1>3. UNCHANGED <<worker, overlap>>
  BY DEF Polling, Poll, Query, Respond, PollFails, Answer,
         Realtime, Open, ConnectFails, Deliver, Drop, OnClose, Reconnect, Link
<1> QED BY <1>1, <1>2, <1>3 DEF KeepsRoles, worker, Ids

LEMMA StepRoles ==
    ASSUME Typed, Next
    PROVE  \/ KeepsRoles
           \/ ApplyFull \/ (\E m \in Modes : SetAdapterMode(m))
           \/ GetAdapterMode \/ Create \/ Restart
<1>1. ASSUME NEW i \in Ids, Polling(i) \/ Realtime(i) PROVE KeepsRoles
  BY <1>1, AdapterStepRoles
<1>2. ASSUME NEW d \in Domain, CommitBlock(d) \/ AttachDomain(d) PROVE KeepsRoles
  <2>1. PICK hearing \in Hearings : adapters' = Hear(hearing, d)
    BY <1>2 DEF CommitBlock, AttachDomain
  <2> QED BY <1>2, <2>1, HearKeeps DEF KeepsRoles, CommitBlock, AttachDomain, worker, Ids
<1>3. ASSUME UNCHANGED <<starting, creating, mode, active, adapters, overlap>>
      PROVE  KeepsRoles
  BY <1>3 DEF KeepsRoles, Ids
<1>4. ASSUME NEW d \in Domain, BeginBlock(d) \/ Retract(d) \/ RemoveDomain(d)
      PROVE  KeepsRoles
  BY <1>3, <1>4 DEF BeginBlock, Retract, RemoveDomain, worker
<1>5. ASSUME Tick \/ FetchFull \/ FetchFails PROVE KeepsRoles
  BY <1>3, <1>5 DEF Tick, FetchFull, FetchFails, worker
<1> QED BY <1>1, <1>2, <1>4, <1>5 DEF Next

LEMMA HandedOverStep == ASSUME Typed, HandedOver, Next PROVE HandedOver'
<1>1. starting \in Nat /\ Len(creating) \in Nat /\ creating \in Seq(Modes)
      /\ active = Len(adapters) /\ adapters \in Seq(Adapters)
  BY FeedAssumption DEF Typed, TypeOK
<1>2. CASE KeepsRoles
  BY <1>2 DEF KeepsRoles, HandedOver
<1>3. ASSUME StartAdapter, UNCHANGED <<creating, active>> PROVE HandedOver'
  <2>1. adapters' \in [Ids -> Adapters] /\ Ids' = Ids /\ starting' = starting + 1
        /\ \A i \in Ids : /\ i = active => adapters'[i].stopped
                          /\ i # active => adapters'[i] = adapters[i]
    BY <1>3, StopTyped DEF Ids
  <2>2. ~ overlap' => ~ overlap /\ starting = 0 /\ creating = <<>>
    <3>1. ~ overlap' => ~ overlap /\ ~ (starting > 0) /\ creating = <<>>
      BY <1>3, Zenon DEF StartAdapter
    <3> QED BY <1>1, <3>1
  <2>3. Len(<<>>) = 0
    OBVIOUS
  <2> QED BY <1>3, <2>1, <2>2, <2>3 DEF HandedOver
<1>4. CASE ApplyFull \/ \E m \in Modes : SetAdapterMode(m)
  BY <1>3, <1>4 DEF ApplyFull, SetAdapterMode
<1>5. CASE GetAdapterMode
  <2>1. /\ starting' = starting - 1 /\ Len(creating') = Len(creating) + 1
        /\ UNCHANGED <<active, adapters, overlap>>
    BY <1>1, <1>5 DEF GetAdapterMode
  <2> QED BY <1>1, <2>1 DEF HandedOver, Ids
<1>6. CASE Create
  <2>1. /\ creating # <<>> /\ Len(creating') = Len(creating) - 1 /\ Len(creating) > 0
        /\ active' = Len(adapters) + 1 /\ UNCHANGED <<starting, overlap>>
    BY <1>1, <1>6 DEF Create
  <2>2. /\ Ids' = 1..(Len(adapters) + 1) /\ Ids = 1..Len(adapters)
        /\ \A i \in Ids : adapters'[i] = adapters[i]
    BY <1>1, <1>6 DEF Create, Ids
  <2> QED BY <1>1, <2>1, <2>2 DEF HandedOver
<1>7. CASE Restart
  BY <1>7 DEF Restart, HandedOver, Ids
<1> QED BY <1>2, <1>4, <1>5, <1>6, <1>7, StepRoles

LEMMA LastModeStep == ASSUME Typed, LastMode, Next PROVE LastMode'
<1>1. starting \in Nat /\ creating \in Seq(Modes) /\ active = Len(adapters)
      /\ adapters \in Seq(Adapters) /\ mode \in Modes
  BY FeedAssumption DEF Typed, TypeOK
<1>2. CASE KeepsRoles
  <2>1. active # 0 => active \in Ids
    BY <1>1 DEF Ids
  <2> QED BY <1>2, <2>1 DEF KeepsRoles, LastMode
<1>3. CASE ApplyFull \/ \E m \in Modes : SetAdapterMode(m)
  <2>1. starting' = starting + 1
    BY <1>3 DEF ApplyFull, SetAdapterMode, StartAdapter
  <2> QED BY <1>1, <2>1 DEF LastMode
<1>4. CASE GetAdapterMode
  <2>1. creating' = Append(creating, mode) /\ mode' = mode
    BY <1>4 DEF GetAdapterMode
  <2>2. creating' # <<>> /\ creating'[Len(creating')] = mode
    BY <1>1, <2>1
  <2> QED BY <2>1, <2>2 DEF LastMode
<1>5. CASE Create
  <2>1. /\ creating # <<>> /\ creating' = Tail(creating)
        /\ active' = Len(adapters) + 1 /\ UNCHANGED <<starting, mode>>
    BY <1>5 DEF Create
  <2>2. adapters'[active'] = IF Head(creating) = "polling" THEN PollingAdapter
                                                          ELSE RealtimeAdapter
    BY <1>1, <1>5, <2>1 DEF Create
  <2>3. Head(creating) \in Modes
    BY <1>1, <2>1
  <2>4. adapters'[active'].kind = Head(creating)
    BY <2>2, <2>3 DEF PollingAdapter, RealtimeAdapter, Modes
  <2>5. CASE Len(creating) = 1
    <3>1. creating' = <<>> /\ Head(creating) = creating[Len(creating)]
      BY <1>1, <2>1, <2>5
    <3> QED BY <2>1, <2>4, <3>1 DEF LastMode
  <2>6. CASE Len(creating) # 1
    <3>1. creating' # <<>> /\ creating'[Len(creating')] = creating[Len(creating)]
      <4>1. Len(creating) \in Nat /\ Len(creating) > 1
        <5>1. Len(creating) \in Nat /\ Len(creating) # 0
          BY <1>1, <2>1, EmptySeq
        <5>2. \A n \in Nat : n # 0 /\ n # 1 => n > 1
          OBVIOUS
        <5> QED BY <2>6, <5>1, <5>2, Zenon
      <4>2. creating' \in Seq(Modes) /\ Len(creating') = Len(creating) - 1
        BY <1>1, <2>1
      <4>3. \A n \in 1..Len(creating') : creating'[n] = creating[n + 1]
        BY <1>1, <2>1, <4>2
      <4>4. Len(creating') \in 1..Len(creating') /\ creating' # <<>>
        BY <4>1, <4>2
      <4> QED BY <4>1, <4>2, <4>3, <4>4
    <3> QED BY <2>1, <3>1 DEF LastMode
  <2> QED BY <2>5, <2>6
<1>6. CASE Restart
  BY <1>6 DEF Restart, LastMode
<1> QED BY <1>2, <1>3, <1>4, <1>5, <1>6, StepRoles

-----------------------------------------------------------------------------
(* What the feed still carries *)

\* A step of one adapter, after which what ran still brings the rest.
LEMMA ReplaceCarried ==
    ASSUME Typed, Carried, NEW i \in Ids, NEW a,
           adapters' = [adapters EXCEPT ![i] = a],
           UNCHANGED <<blockedAt, active>>,
           told \cup overtaken \subseteq told' \cup overtaken',
           \A d \in Listed \ (told' \cup overtaken') :
               Brings(adapters[i], d) => Brings(a, d)
    PROVE  Carried'
<1> SUFFICES ASSUME NEW d \in Listed \ (told' \cup overtaken')
             PROVE  active # 0 /\ Brings(adapters'[active], d)
  BY DEF Carried, Brings, Spares, Listed
<1>1. active # 0 /\ Brings(adapters[active], d)
  BY DEF Carried
<1>2. CASE i = active
  BY <1>1, <1>2
<1>3. CASE i # active
  BY <1>1, <1>3
<1> QED BY <1>2, <1>3

\* The same for a poll under way.
LEMMA SlotCarried ==
    ASSUME Typed, Carried, NEW i \in Ids, NEW k \in Slots, NEW r,
           adapters' = [adapters EXCEPT ![i].flight[k] = r],
           UNCHANGED <<blockedAt, active>>,
           told \cup overtaken \subseteq told' \cup overtaken',
           \A d \in Listed \ (told' \cup overtaken') :
               blockedAt[d] > adapters[i].since /\ Spares(Request(i, k), d) => Spares(r, d)
    PROVE  Carried'
<1> DEFINE a == [adapters[i] EXCEPT !.flight[k] = r]
<1>1. adapters[i] \in Adapters
  BY DEF Typed, TypeOK, Ids
<1>2. adapters' = [adapters EXCEPT ![i] = a]
  OBVIOUS
<1>3. /\ a.stopped = adapters[i].stopped /\ a.kind = adapters[i].kind
      /\ a.wire = adapters[i].wire /\ a.since = adapters[i].since
      /\ \A l \in Slots : a.flight[l] = IF l = k THEN r ELSE adapters[i].flight[l]
  BY <1>1 DEF Adapters
<1> HIDE DEF a
<1>4. ASSUME NEW d \in Listed \ (told' \cup overtaken'), Brings(adapters[i], d)
      PROVE  Brings(a, d)
  BY <1>3, <1>4 DEF Brings, Request
<1> QED BY <1>2, <1>4, ReplaceCarried

LEMMA CommitCarried ==
    ASSUME Typed, Carried, NEW e \in Domain, CommitBlock(e)
    PROVE  Carried'
<1>1. PICK hearing \in Hearings :
        /\ adapters' = Hear(hearing, e)
        /\ IF MeetsGap(writing[e], hearing) THEN Miss({e}) ELSE UNCHANGED results
  BY DEF CommitBlock
<1>2. /\ blockedAt' = [blockedAt EXCEPT ![e] = writing[e]] /\ active' = active
      /\ blockedAt \in [Domain -> 0..clock]
  BY DEF CommitBlock, worker, Typed, TypeOK
<1>3. told \cup overtaken \subseteq told' \cup overtaken'
  BY <1>1 DEF Miss, results
<1> SUFFICES ASSUME NEW d \in Domain, blockedAt'[d] # 0, d \notin told' \cup overtaken'
             PROVE  active # 0 /\ Brings(adapters[active], d)'
  BY <1>2 DEF Carried, Listed
<1>4. \A i \in Ids : adapters[i] \in Adapters
  BY DEF Typed, TypeOK, Ids
<1>5. active # 0 => active \in Ids
  BY DEF Typed, TypeOK, Ids
<1>6. ASSUME active # 0
      PROVE  /\ adapters'[active].stopped = adapters[active].stopped
             /\ adapters'[active].kind = adapters[active].kind
             /\ adapters'[active].since = adapters[active].since
             /\ adapters'[active].flight = adapters[active].flight
             /\ adapters[active].wire \subseteq adapters'[active].wire
             /\ active \in hearing => e \in adapters'[active].wire
  BY <1>1, <1>5, <1>6, HearKeeps
<1>7. CASE d = e
  <2>1. ~ MeetsGap(writing[e], hearing)
    BY <1>1, <1>7 DEF Miss
  <2>2. active # 0 /\ ~ adapters[active].stopped
    BY <2>1 DEF MeetsGap, Running
  <2> DEFINE a == adapters[active]
  <2>3. a.kind = "realtime" => active \in hearing
    BY <2>1, <2>2 DEF MeetsGap, Running
  <2>4. a.kind = "polling" => /\ ~ Past(a.since, a.taken, writing[e])
                              /\ \A k \in Slots : ~ Passed(a.flight[k], writing[e])
    BY <2>1, <2>2 DEF MeetsGap, Running
  <2>5. CursorsOK(a) /\ a \in Adapters /\ writing[e] \in Nat
    BY <1>4, <1>5, <2>2 DEF Typed, TypeOK, CursorsKept
  <2>6. ASSUME a.kind = "polling"
        PROVE  writing[e] > a.since
    BY <2>4, <2>5, <2>6, FeedAssumption DEF CursorsOK, Adapters, Past
  <2>7. ASSUME a.kind = "polling", NEW k \in Slots
        PROVE  /\ a.flight[k].at = "sent" => writing[e] > a.flight[k].since
               /\ a.flight[k].at # "queried"
               /\ a.flight[k].at = "answered" => writing[e] > a.flight[k].upto
    <3>1. a.flight[k] \in Requests
      BY <2>5 DEF Adapters
    <3> QED BY <2>4, <2>5, <2>7, <3>1, FeedAssumption DEF CursorsOK, Requests, Passed, Past
  <2>8. blockedAt'[d] = writing[e]
    BY <1>2, <1>7
  <2> HIDE DEF a
  <2>9. adapters[active] = a
    BY DEF a
  <2>10. a.kind = "polling" => \A k \in Slots : Spares(adapters[active].flight[k], d)'
    BY <1>2, <1>6, <2>2, <2>7, <2>8, <2>9 DEF Spares
  <2> QED BY <1>2, <1>6, <1>7, <2>2, <2>3, <2>6, <2>8, <2>9, <2>10 DEF Brings, Spares
<1>8. CASE d # e
  <2>1. blockedAt'[d] = blockedAt[d] /\ d \in Listed
    BY <1>2, <1>8 DEF Listed
  <2>2. active # 0 /\ Brings(adapters[active], d)
    BY <1>3, <2>1 DEF Carried
  <2> QED BY <1>2, <1>6, <2>1, <2>2 DEF Brings, Spares
<1> QED BY <1>7, <1>8

LEMMA AttachCarried ==
    ASSUME Typed, Carried, NEW e \in Domain, AttachDomain(e)
    PROVE  Carried'
<1>1. PICK hearing \in Hearings : adapters' = Hear(hearing, e)
  BY DEF AttachDomain
<1>2. UNCHANGED <<blockedAt, active, told, overtaken>>
  BY DEF AttachDomain, server, worker, results
<1>3. active # 0 => active \in Ids
  BY DEF Typed, TypeOK, Ids
<1>4. ASSUME NEW d \in Listed \ (told \cup overtaken)
      PROVE  active # 0 /\ Brings(adapters'[active], d)
  <2>1. active # 0 /\ Brings(adapters[active], d)
    BY DEF Carried
  <2> QED BY <1>1, <1>3, <2>1, HearKeeps DEF Brings
<1> QED BY <1>2, <1>4 DEF Carried, Listed, Brings, Spares

LEMMA PollingCarried ==
    ASSUME Typed, Carried, NEW i \in Ids, NEW k \in Slots,
           Poll(i, k) \/ Query(i, k) \/ Respond(i, k) \/ PollFails(i, k) \/ Answer(i, k)
    PROVE  Carried'
<1>1. /\ adapters[i] \in Adapters /\ Request(i, k) \in Requests
      /\ UNCHANGED <<blockedAt, active>>
  <2>1. adapters[i] \in Adapters
    BY DEF Typed, TypeOK, Ids
  <2> QED BY <2>1 DEF Request, Adapters, Poll, Query, Respond, PollFails, Answer, server, worker
<1>2. CASE Poll(i, k)
  <2> DEFINE r == [NoRequest EXCEPT !.at = "sent", !.since = adapters[i].since,
                                    !.taken = adapters[i].taken]
  <2>1. r.at = "sent" /\ r.since = adapters[i].since
    BY DEF NoRequest
  <2>2. adapters' = [adapters EXCEPT ![i].flight[k] = r] /\ UNCHANGED results
    BY <1>2 DEF Poll
  <2> HIDE DEF r
  <2>3. \A d \in Listed : blockedAt[d] > adapters[i].since => Spares(r, d)
    BY <2>1 DEF Spares
  <2> QED BY <1>1, <2>2, <2>3, SlotCarried DEF results
<1>3. CASE Query(i, k)
  <2>1. Miss(Listed) => Listed \ (told' \cup overtaken') = {}
    BY DEF Miss
  <2>2. CASE Miss(Listed)
    BY <1>1, <2>1, <2>2 DEF Carried, Listed
  <2>3. CASE ~ Miss(Listed)
    <3> DEFINE r == [Request(i, k) EXCEPT !.at = "queried",
                                          !.rows = Since(Request(i, k).since)]
    <3>1. adapters' = [adapters EXCEPT ![i].flight[k] = r] /\ UNCHANGED results
      BY <1>3, <2>3 DEF Query, Request
    <3>2. r.at = "queried" /\ r.rows = Since(Request(i, k).since)
      BY <1>1 DEF Requests
    <3> HIDE DEF r
    <3>3. Request(i, k).at = "sent"
      BY <1>3 DEF Query
    <3>4. \A d \in Listed : Spares(Request(i, k), d) => Spares(r, d)
      BY <3>2, <3>3 DEF Spares, Since
    <3> QED BY <1>1, <3>1, <3>4, SlotCarried DEF results
  <2> QED BY <2>2, <2>3
<1>4. CASE Respond(i, k)
  <2> DEFINE r == [Request(i, k) EXCEPT !.at = "answered", !.upto = Format(clock),
                                        !.taken = clock]
  <2>1. adapters' = [adapters EXCEPT ![i].flight[k] = r] /\ UNCHANGED results
    BY <1>4 DEF Respond, Request
  <2>2. r.at = "answered" /\ r.rows = Request(i, k).rows /\ Request(i, k).at = "queried"
    BY <1>1, <1>4 DEF Respond, Requests
  <2> HIDE DEF r
  <2>3. \A d \in Listed : Spares(Request(i, k), d) => Spares(r, d)
    BY <2>2 DEF Spares
  <2> QED BY <1>1, <2>1, <2>3, SlotCarried DEF results
<1>5. CASE PollFails(i, k)
  <2>1. adapters' = [adapters EXCEPT ![i].flight[k] = NoRequest] /\ UNCHANGED results
    BY <1>5 DEF PollFails
  <2>2. \A d \in Listed : Spares(NoRequest, d)
    BY DEF Spares, NoRequest
  <2> QED BY <1>1, <2>1, <2>2, SlotCarried DEF results
<1>6. CASE Answer(i, k)
  <2> DEFINE a == [adapters[i] EXCEPT !.since = Request(i, k).upto,
                     !.taken = Request(i, k).taken, !.flight[k] = NoRequest]
  <2>1. adapters' = [adapters EXCEPT ![i] = a] /\ Tell(Request(i, k).rows)
        /\ Request(i, k).at = "answered"
    BY <1>6 DEF Answer
  <2>2. told' = told \cup Request(i, k).rows /\ overtaken' = overtaken \ Request(i, k).rows
    BY <2>1 DEF Tell
  <2>3. /\ a.stopped = adapters[i].stopped /\ a.kind = adapters[i].kind
        /\ a.wire = adapters[i].wire /\ a.since = Request(i, k).upto
        /\ \A l \in Slots : a.flight[l] = IF l = k THEN NoRequest ELSE adapters[i].flight[l]
    BY <1>1 DEF Adapters
  <2>4. \A d \in Listed : Spares(NoRequest, d)
    BY DEF Spares, NoRequest
  <2> HIDE DEF a
  <2>5. ASSUME NEW d \in Listed \ (told' \cup overtaken'), Brings(adapters[i], d)
        PROVE  Brings(a, d)
    <3>1. CASE a.kind = "polling"
      <4>1. Spares(Request(i, k), d) /\ d \notin Request(i, k).rows
        BY <2>2, <2>3, <2>5, <3>1 DEF Brings, Request
      <4>2. blockedAt[d] > a.since
        BY <2>1, <2>3, <4>1 DEF Spares
      <4> QED BY <2>3, <2>4, <2>5, <4>2 DEF Brings
    <3>2. CASE a.kind # "polling"
      BY <2>3, <2>5, <3>2 DEF Brings
    <3> QED BY <3>1, <3>2
  <2>6. told \cup overtaken \subseteq told' \cup overtaken'
    BY <2>2
  <2> QED BY <1>1, <2>1, <2>5, <2>6, ReplaceCarried
<1> QED BY <1>2, <1>3, <1>4, <1>5, <1>6

LEMMA RealtimeCarried ==
    ASSUME Typed, Carried, NEW i \in Ids, Realtime(i)
    PROVE  Carried'
<1>1. adapters[i] \in Adapters /\ UNCHANGED <<blockedAt, active>>
  BY DEF Typed, TypeOK, Ids, Realtime, Open, ConnectFails, Deliver, Drop, OnClose,
         Reconnect, Link, server, worker
<1>2. ASSUME NEW from, NEW to, Link(i, from, to) PROVE Carried'
  <2> DEFINE a == [adapters[i] EXCEPT !.link = to]
  <2>1. adapters' = [adapters EXCEPT ![i] = a] /\ UNCHANGED results
    BY <1>2 DEF Link
  <2>2. /\ a.stopped = adapters[i].stopped /\ a.kind = adapters[i].kind
        /\ a.wire = adapters[i].wire /\ a.since = adapters[i].since
        /\ a.flight = adapters[i].flight
    BY <1>1 DEF Adapters
  <2> HIDE DEF a
  <2>3. \A d \in Listed : Brings(adapters[i], d) => Brings(a, d)
    BY <2>2 DEF Brings
  <2> QED BY <1>1, <2>1, <2>3, ReplaceCarried DEF results
<1>3. CASE Deliver(i)
  <2>1. PICK e \in adapters[i].wire :
          Tell({e}) /\ adapters' = [adapters EXCEPT ![i].wire = @ \ {e}]
    BY <1>3 DEF Deliver
  <2> DEFINE a == [adapters[i] EXCEPT !.wire = @ \ {e}]
  <2>2. adapters' = [adapters EXCEPT ![i] = a]
    BY <2>1
  <2>3. /\ a.stopped = adapters[i].stopped /\ a.kind = adapters[i].kind
        /\ a.wire = adapters[i].wire \ {e} /\ a.since = adapters[i].since
        /\ a.flight = adapters[i].flight
    BY <1>1 DEF Adapters
  <2> HIDE DEF a
  <2>4. told' = told \cup {e} /\ overtaken' = overtaken \ {e}
    BY <2>1 DEF Tell
  <2>5. \A d \in Listed \ (told' \cup overtaken') : Brings(adapters[i], d) => Brings(a, d)
    BY <2>3, <2>4 DEF Brings
  <2>6. told \cup overtaken \subseteq told' \cup overtaken'
    BY <2>4
  <2> QED BY <1>1, <2>2, <2>5, <2>6, ReplaceCarried
<1>4. CASE Drop(i)
  <2> DEFINE a == [adapters[i] EXCEPT !.link = "dead", !.wire = {}]
  <2>1. adapters' = [adapters EXCEPT ![i] = a] /\ Miss(adapters[i].wire \cap Listed)
    BY <1>4 DEF Drop
  <2>2. /\ a.stopped = adapters[i].stopped /\ a.kind = adapters[i].kind
        /\ a.since = adapters[i].since /\ a.flight = adapters[i].flight
    BY <1>1 DEF Adapters
  <2> HIDE DEF a
  <2>3. overtaken' = overtaken \cup ((adapters[i].wire \cap Listed) \ told) /\ told' = told
    BY <2>1 DEF Miss
  <2>4. \A d \in Listed \ (told' \cup overtaken') : Brings(adapters[i], d) => Brings(a, d)
    BY <2>2, <2>3 DEF Brings
  <2> QED BY <1>1, <2>1, <2>3, <2>4, ReplaceCarried
<1> QED BY <1>2, <1>3, <1>4 DEF Realtime, Open, ConnectFails, OnClose, Reconnect

LEMMA CarriedStep == ASSUME Typed, Carried, Next PROVE Carried'
<1>1. ASSUME told \cup overtaken \subseteq told' \cup overtaken',
             UNCHANGED <<active, adapters>>,
             \A d \in Listed' : d \in Listed /\ blockedAt'[d] = blockedAt[d]
      PROVE  Carried'
  BY <1>1 DEF Carried, Brings, Spares
<1>2. ASSUME Listed' \subseteq told' \cup overtaken' PROVE Carried'
  BY <1>2 DEF Carried
<1>3. CASE Tick \/ FetchFull \/ FetchFails \/ GetAdapterMode
  BY <1>1, <1>3 DEF Tick, FetchFull, FetchFails, GetAdapterMode, server, worker, results,
                    Listed
<1>4. ASSUME NEW d \in Domain, BeginBlock(d) PROVE Carried'
  BY <1>1, <1>4 DEF BeginBlock, worker, results, Listed
<1>5. ASSUME NEW d \in Domain, Retract(d) PROVE Carried'
  <2>1. blockedAt' = [blockedAt EXCEPT ![d] = 0] /\ DOMAIN blockedAt = Domain
    BY <1>5 DEF Retract, Typed, TypeOK
  <2>2. \A e \in Listed' : e \in Listed /\ blockedAt'[e] = blockedAt[e]
    BY <2>1 DEF Listed
  <2> QED BY <1>1, <1>5, <2>2 DEF Retract, worker, results
<1>6. ASSUME NEW d \in Domain, RemoveDomain(d) PROVE Carried'
  <2>1. told' = told \ {d} /\ overtaken' = overtaken \cup ({d} \cap Listed)
        /\ UNCHANGED <<blockedAt, active, adapters>>
    BY <1>6 DEF RemoveDomain, server, worker
  <2>2. \A e \in Listed \ (told' \cup overtaken') : e \in Listed \ (told \cup overtaken)
    BY <2>1
  <2> QED BY <2>1, <2>2 DEF Carried, Brings, Spares, Listed
<1>7. ASSUME NEW d \in Domain, CommitBlock(d) \/ AttachDomain(d) PROVE Carried'
  BY <1>7, CommitCarried, AttachCarried
<1>8. CASE ApplyFull \/ Restart \/ \E m \in Modes : SetAdapterMode(m)
  BY <1>2, <1>8 DEF ApplyFull, Restart, SetAdapterMode, Miss, Listed, server
<1>9. CASE Create
  <2>1. UNCHANGED server
    BY <1>9 DEF Create
  <2>2. CASE Head(creating) # "polling"
    BY <1>2, <1>9, <2>1, <2>2 DEF Create, Miss, Listed, server
  <2>3. CASE Head(creating) = "polling"
    <3>1. adapters' = Append(adapters, PollingAdapter) /\ active' = Len(adapters) + 1
      BY <1>9, <2>3 DEF Create
    <3>2. PollingAdapter.kind = "polling" /\ PollingAdapter.since = 0
          /\ ~ PollingAdapter.stopped
      BY DEF PollingAdapter
    <3>3. \A k \in Slots : PollingAdapter.flight[k].at \in {"none", "sent"}
                           /\ PollingAdapter.flight[k].since = 0
      BY DEF PollingAdapter, Idle, NoRequest
    <3>4. \A d \in Listed : blockedAt[d] > 0
      BY FeedAssumption DEF Listed, Typed, TypeOK
    <3>5. \A d \in Listed : Brings(PollingAdapter, d)
      BY <3>2, <3>3, <3>4 DEF Brings, Spares
    <3>6. adapters'[active'] = PollingAdapter /\ active' # 0
      BY <3>1 DEF Typed, TypeOK
    <3>7. ASSUME NEW d \in Listed PROVE Brings(PollingAdapter, d)'
      BY <2>1, <3>5 DEF Brings, Spares, server, PollingAdapter, Idle, NoRequest, Slots
    <3> QED BY <2>1, <3>6, <3>7 DEF Carried, Listed, server
  <2> QED BY <2>2, <2>3
<1>10. ASSUME NEW i \in Ids, Polling(i) PROVE Carried'
  BY <1>10, PollingCarried DEF Polling
<1>11. ASSUME NEW i \in Ids, Realtime(i) PROVE Carried'
  BY <1>11, RealtimeCarried
<1> QED BY <1>3, <1>4, <1>5, <1>6, <1>7, <1>8, <1>9, <1>10, <1>11 DEF Next

-----------------------------------------------------------------------------
IInv == Typed /\ Carried /\ LastMode /\ HandedOver

LEMMA InitIInv == Init => IInv
<1> SUFFICES ASSUME Init PROVE IInv
  OBVIOUS
<1>1. Typed
  BY InitTyped
<1>2. Carried
  BY DEF Init, Carried, Listed
<1>3. LastMode
  BY DEF Init, LastMode
<1>4. HandedOver
  BY DEF Init, HandedOver, Ids
<1> QED BY <1>1, <1>2, <1>3, <1>4 DEF IInv

LEMMA IdleStep == ASSUME IInv, UNCHANGED vars PROVE IInv'
BY DEF IInv, vars, server, worker, results, Typed, TypeOK, RoomKept, Pending, CursorsKept,
       CursorsOK, Ids, Request, Carried, Listed, Brings, Spares, LastMode, HandedOver

\* What the feed's data structures keep in every behaviour: types, room, cursors
\* no later than the moments they were taken at, and all that follows.
THEOREM FeedInvariant == Spec => []IInv
<1>1. Init => IInv
  BY InitIInv
<1>2. IInv /\ [Next]_vars => IInv'
  <2> SUFFICES ASSUME IInv, [Next]_vars PROVE IInv'
    OBVIOUS
  <2>1. CASE Next
    BY <2>1, NextTyped, CarriedStep, LastModeStep, HandedOverStep DEF IInv
  <2>2. CASE UNCHANGED vars
    BY <2>2, IdleStep
  <2> QED BY <2>1, <2>2
<1> QED BY <1>1, <1>2, PTL DEF Spec

\* The variables keep their types and cursors are never ahead of the clock,
\* however many polls of an adapter overlap (polling.js, main.go).
THEOREM FeedTypes == Spec => []TypeOK
<1>1. IInv => TypeOK
  BY DEF IInv, Typed
<1> QED BY <1>1, FeedInvariant, PTL

\* A block on the list is told, or on its way, or has met one of the gaps that
\* FeedAccounted lists, for every number of overlapping polls and adapters
\* (background.js, polling.js, realtime.js, GET /blocklist).
THEOREM FeedAccountedHolds == Spec => []FeedAccounted
<1>1. IInv => FeedAccounted
  <2> SUFFICES ASSUME IInv, NEW d \in Listed \ (told \cup overtaken) PROVE OnItsWay(d)
    BY DEF FeedAccounted
  <2>1. active # 0 /\ Brings(adapters[active], d)
    BY DEF IInv, Carried
  <2>2. adapters[active].kind \in Modes
    <3>1. adapters \in Seq(Adapters) /\ active = Len(adapters)
      BY DEF IInv, Typed, TypeOK
    <3>2. adapters[active] \in Adapters
      BY <2>1, <3>1
    <3> QED BY <3>2 DEF Adapters
  <2> QED BY <2>1, <2>2 DEF OnItsWay, Running, Brings, Modes
<1> QED BY <1>1, FeedInvariant, PTL

\* When no startAdapter is under way, what runs is the mode that was stored
\* last, in whatever way boots, switches and restarts interleaved (background.js).
THEOREM ActiveModeIsLatestHolds == Spec => []ActiveModeIsLatest
<1>1. IInv => ActiveModeIsLatest
  BY DEF IInv, LastMode, ActiveModeIsLatest
<1> QED BY <1>1, FeedInvariant, PTL

\* An adapter outlives the one that replaces it only if two calls of
\* startAdapter overlapped (background.js).
THEOREM SwitchesHandOverHolds == Spec => []SwitchesHandOver
<1>1. IInv => SwitchesHandOver
  BY DEF IInv, HandedOver, SwitchesHandOver
<1> QED BY <1>1, FeedInvariant, PTL
=============================================================================
