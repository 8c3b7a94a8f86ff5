---------------------------- MODULE RealtimeRelay ----------------------------
(***************************************************************************)
(* From the database trigger to the browsers: pg_notify, the one LISTEN     *)
(* session and its retry loop, realtimeHub with its mutex and a bounded     *)
(* channel per client, and the goroutine of each WebSocket connection.      *)
(*                                                                          *)
(* The hub's mutex is held exactly while the listener is "sending"; the     *)
(* critical sections of subscribe and unsubscribe are single steps that     *)
(* need it free.  A notification is its number in commit order.             *)
(***************************************************************************)
EXTENDS Integers, Sequences, FiniteSets, Functions

CONSTANTS
    Client,         \* connections the server can hold at a time
    Cap,            \* capacity of a client's channel (8 in the code)
    MaxNotified,    \* bound: notifications over a behaviour
    MaxBreaks,      \* bound: losses of the LISTEN session
    MaxConnects     \* bound: connections accepted

ASSUME RelayAssumption ==
    /\ Cap \in Nat \ {0}
    /\ MaxNotified \in Nat /\ MaxBreaks \in Nat /\ MaxConnects \in Nat

VARIABLES
    notified,   \* notifications so far
    session,    \* the LISTEN session: "none", "up" or "broken"
    feed,       \* notifications the session has yet to hand out
    listener,   \* the goroutine of runRealtimeListener
    payload,    \* the notification it broadcasts, 0 for none
    remaining,  \* clients the range over h.clients has yet to visit
    registered, \* h.clients
    buffer,     \* the channel of each client
    pc,         \* the goroutine of each connection
    holding,    \* what it has received from the channel and not written yet
    link,       \* the TCP connection: "none", "up", "gone" (the peer has left
                \* and nobody knows) or "noticed" (ctx is done)
    delivered,  \* history: what the browser got on this connection
    owed,       \* history: what was notified while the client was registered
    missed,     \* history: what found the client's channel full
    lost,       \* history: what no session handed out
    breaks, connects    \* history: for the bounds

database   == <<notified, session, feed, lost, breaks>>
hub        == <<listener, payload, remaining>>
connection == <<buffer, pc, holding, link, delivered>>
vars == <<database, hub, registered, connection, owed, missed, connects>>

Payloads == 1..MaxNotified

Init ==
    /\ notified = 0 /\ session = "none" /\ feed = <<>> /\ lost = {}
    /\ breaks = 0 /\ connects = 0
    /\ listener = "down" /\ payload = 0 /\ remaining = {}
    /\ registered = {}
    /\ buffer = [c \in Client |-> <<>>]
    /\ pc = [c \in Client |-> "away"]
    /\ holding = [c \in Client |-> <<>>]
    /\ link = [c \in Client |-> "none"]
    /\ delivered = [c \in Client |-> <<>>]
    /\ owed = [c \in Client |-> {}]
    /\ missed = [c \in Client |-> {}]

LockFree == listener # "sending"

-----------------------------------------------------------------------------
(* The database and the LISTEN session *)

\* The trigger fires; PostgreSQL keeps nothing for those who do not listen.
Notify ==
    /\ notified < MaxNotified
    /\ notified' = notified + 1
    /\ IF session = "up"
       THEN feed' = Append(feed, notified') /\ UNCHANGED lost
       ELSE lost' = lost \cup {notified'} /\ UNCHANGED feed
    /\ owed' = [c \in Client |->
                  IF c \in registered THEN owed[c] \cup {notified'} ELSE owed[c]]
    /\ UNCHANGED <<session, breaks, hub, registered, connection, missed, connects>>

\* What had arrived before the connection broke can still be read.
SessionBreaks ==
    /\ session = "up"
    /\ breaks < MaxBreaks
    /\ breaks' = breaks + 1
    /\ session' = "broken"
    /\ \E kept \in 0..Len(feed) :
          /\ feed' = SubSeq(feed, 1, kept)
          /\ lost' = lost \cup {feed[i] : i \in kept + 1 .. Len(feed)}
    /\ UNCHANGED <<notified, hub, registered, connection, owed, missed, connects>>

Connect ==
    /\ listener = "down"
    /\ session' = "up"
    /\ listener' = "waiting"
    /\ UNCHANGED <<notified, feed, lost, breaks, payload, remaining, registered,
                   connection, owed, missed, connects>>

\* WaitForNotification returns an error; the loop sleeps and tries again.
SessionEnds ==
    /\ listener = "waiting"
    /\ session = "broken" /\ feed = <<>>
    /\ session' = "none"
    /\ listener' = "down"
    /\ UNCHANGED <<notified, feed, lost, breaks, payload, remaining, registered,
                   connection, owed, missed, connects>>

Receive ==
    /\ listener = "waiting"
    /\ feed # <<>>
    /\ payload' = Head(feed)
    /\ feed' = Tail(feed)
    /\ listener' = "lock"
    /\ UNCHANGED <<notified, session, lost, breaks, remaining, registered,
                   connection, owed, missed, connects>>

-----------------------------------------------------------------------------
(* broadcast: the mutex is taken, every client visited, the mutex released. *)

Lock ==
    /\ listener = "lock"
    /\ remaining' = registered
    /\ listener' = "sending"
    /\ UNCHANGED <<database, payload, registered, connection, owed, missed, connects>>

\* Mutant: the select has no default, a full channel is waited for.
BlockingSend(c) ==
    /\ listener = "sending"
    /\ c \in remaining
    /\ Len(buffer[c]) < Cap
    /\ buffer' = [buffer EXCEPT ![c] = Append(@, payload)]
    /\ remaining' = remaining \ {c}
    /\ UNCHANGED <<database, listener, payload, registered, pc, holding, link,
                   delivered, owed, missed, connects>>

\* Mutant: a full channel loses its oldest payload, and nobody is told.
DropOldest(c) ==
    /\ listener = "sending"
    /\ c \in remaining
    /\ buffer' = [buffer EXCEPT ![c] =
                    Append(IF Len(@) < Cap THEN @ ELSE Tail(@), payload)]
    /\ remaining' = remaining \ {c}
    /\ UNCHANGED <<database, listener, payload, registered, pc, holding, link,
                   delivered, owed, missed, connects>>

Send(c) ==
    /\ listener = "sending"
    /\ c \in remaining
    /\ IF Len(buffer[c]) < Cap
       THEN buffer' = [buffer EXCEPT ![c] = Append(@, payload)] /\ UNCHANGED missed
       ELSE missed' = [missed EXCEPT ![c] = @ \cup {payload}] /\ UNCHANGED buffer
    /\ remaining' = remaining \ {c}
    /\ UNCHANGED <<database, listener, payload, registered, pc, holding, link,
                   delivered, owed, connects>>

Unlock ==
    /\ listener = "sending"
    /\ remaining = {}
    /\ payload' = 0
    /\ listener' = "waiting"
    /\ UNCHANGED <<database, remaining, registered, connection, owed, missed, connects>>

-----------------------------------------------------------------------------
(* serveWS: one goroutine per connection *)

Goto(c, step) == pc' = [pc EXCEPT ![c] = step]

Accept(c) ==
    /\ pc[c] = "away"
    /\ connects < MaxConnects
    /\ connects' = connects + 1
    /\ link' = [link EXCEPT ![c] = "up"]
    /\ Goto(c, "accepted")
    /\ UNCHANGED <<database, hub, registered, buffer, holding, delivered, owed, missed>>

Subscribe(c) ==
    /\ pc[c] = "accepted"
    /\ LockFree
    /\ registered' = registered \cup {c}
    /\ Goto(c, "select")
    /\ UNCHANGED <<database, hub, buffer, holding, link, delivered, owed, missed,
                   connects>>

Take(c) ==
    /\ pc[c] = "select"
    /\ buffer[c] # <<>>
    /\ holding' = [holding EXCEPT ![c] = <<Head(buffer[c])>>]
    /\ buffer' = [buffer EXCEPT ![c] = Tail(@)]
    /\ Goto(c, "writing")
    /\ UNCHANGED <<database, hub, registered, link, delivered, owed, missed, connects>>

\* A write to a peer that has left may succeed as long as that is not known.
Wrote(c) ==
    /\ pc[c] = "writing"
    /\ link[c] \in {"up", "gone"}
    /\ delivered' = IF link[c] = "up"
                    THEN [delivered EXCEPT ![c] = @ \o holding[c]] ELSE delivered
    /\ holding' = [holding EXCEPT ![c] = <<>>]
    /\ Goto(c, "select")
    /\ UNCHANGED <<database, hub, registered, buffer, link, owed, missed, connects>>

Tick(c) ==
    /\ pc[c] = "select"
    /\ Goto(c, "pinging")
    /\ UNCHANGED <<database, hub, registered, buffer, holding, link, delivered, owed,
                   missed, connects>>

\* Mutant: nobody reads the connection, so that no pong is ever seen.
NoReader(c) ==
    /\ pc[c] = "pinging"
    /\ link[c] \notin {"up", "gone", "noticed"}
    /\ Goto(c, "select")
    /\ UNCHANGED <<database, hub, registered, buffer, holding, link, delivered, owed,
                   missed, connects>>

Pong(c) ==
    /\ pc[c] = "pinging"
    /\ link[c] = "up"
    /\ Goto(c, "select")
    /\ UNCHANGED <<database, hub, registered, buffer, holding, link, delivered, owed,
                   missed, connects>>

\* The browser goes away, whatever the server is doing with the connection ...
PeerLeaves(c) ==
    /\ link[c] = "up"
    /\ link' = [link EXCEPT ![c] = "gone"]
    /\ UNCHANGED <<database, hub, registered, buffer, pc, holding, delivered, owed,
                   missed, connects>>

\* ... and CloseRead's reader cancels ctx once TCP tells it.
Notice(c) ==
    /\ link[c] = "gone"
    /\ link' = [link EXCEPT ![c] = "noticed"]
    /\ UNCHANGED <<database, hub, registered, buffer, pc, holding, delivered, owed,
                   missed, connects>>

\* Mutant: the ping and the write do not get ctx.
LeaveFromSelect(c) ==
    /\ pc[c] = "select"
    /\ link[c] = "noticed"
    /\ Goto(c, "leaving")
    /\ UNCHANGED <<database, hub, registered, buffer, holding, link, delivered, owed,
                   missed, connects>>

\* ctx is done, or the write or the ping returns an error.
Leave(c) ==
    /\ \/ pc[c] \in {"select", "writing", "pinging"} /\ link[c] = "noticed"
       \/ pc[c] = "writing" /\ link[c] = "gone"
    /\ Goto(c, "leaving")
    /\ UNCHANGED <<database, hub, registered, buffer, holding, link, delivered, owed,
                   missed, connects>>

\* Mutant: unsubscribe does not take the mutex.
UnlockedDelete(c) ==
    /\ pc[c] = "leaving"
    /\ registered' = registered \ {c}
    /\ Goto(c, "closing")
    /\ UNCHANGED <<database, hub, buffer, holding, link, delivered, owed, missed,
                   connects>>

\* Mutant: the entry stays in the map.
EntryStays(c) ==
    /\ pc[c] = "leaving"
    /\ LockFree
    /\ Goto(c, "closing")
    /\ UNCHANGED <<database, hub, registered, buffer, holding, link, delivered,
                   owed, missed, connects>>

Unregister(c) ==
    /\ pc[c] = "leaving"
    /\ LockFree
    /\ registered' = registered \ {c}
    /\ Goto(c, "closing")
    /\ UNCHANGED <<database, hub, buffer, holding, link, delivered, owed, missed,
                   connects>>

\* close(ch) and CloseNow; the slot is free for another connection.
Close(c) ==
    /\ pc[c] = "closing"
    /\ Goto(c, "away")
    /\ buffer' = [buffer EXCEPT ![c] = <<>>]
    /\ holding' = [holding EXCEPT ![c] = <<>>]
    /\ link' = [link EXCEPT ![c] = "none"]
    /\ delivered' = [delivered EXCEPT ![c] = <<>>]
    /\ owed' = [owed EXCEPT ![c] = {}]
    /\ missed' = [missed EXCEPT ![c] = {}]
    /\ UNCHANGED <<database, hub, registered, connects>>

-----------------------------------------------------------------------------
Listener ==
    \/ Connect \/ SessionEnds \/ Receive \/ Lock
    \/ \E c \in Client : Send(c)
    \/ Unlock

\* What a connection does once there is something to do.
Serve(c) == Wrote(c) \/ Pong(c) \/ Notice(c) \/ Close(c)

Next ==
    \/ Notify \/ SessionBreaks \/ Listener
    \/ \E c \in Client :
          \/ Accept(c) \/ Subscribe(c) \/ Take(c) \/ Tick(c) \/ PeerLeaves(c)
          \/ Serve(c) \/ Leave(c) \/ Unregister(c)

Spec == Init /\ [][Next]_vars

\* Goroutines are scheduled, the database takes a new session, TCP notices a
\* dead peer.  sync.Mutex hands itself over in order after a millisecond, and
\* select chooses among what is ready at random: strong fairness for both.
FairSpec ==
    /\ Spec
    /\ WF_vars(Listener)
    /\ \A c \in Client :
          /\ WF_vars(Serve(c))
          /\ SF_vars(Take(c)) /\ SF_vars(Leave(c))
          /\ SF_vars(Subscribe(c)) /\ SF_vars(Unregister(c))

-----------------------------------------------------------------------------
(* Properties *)

\* Every variable holds a value of its kind; no channel exceeds its capacity,
\* and the clients of the map are those between subscribe and unsubscribe.
TypeOK ==
    /\ notified \in 0..MaxNotified
    /\ session \in {"none", "up", "broken"}
    /\ feed \in Seq(Payloads)
    /\ listener \in {"down", "waiting", "lock", "sending"}
    /\ payload \in 0..MaxNotified
    /\ remaining \subseteq Client
    /\ registered = {c \in Client :
                       pc[c] \in {"select", "writing", "pinging", "leaving"}}
    /\ buffer \in [Client -> Seq(Payloads)]
    /\ \A c \in Client : Len(buffer[c]) <= Cap /\ Len(holding[c]) <= 1
    /\ pc \in [Client -> {"away", "accepted", "select", "writing", "pinging",
                          "leaving", "closing"}]
    /\ holding \in [Client -> Seq(Payloads)]
    /\ link \in [Client -> {"none", "up", "gone", "noticed"}]
    /\ delivered \in [Client -> Seq(Payloads)]
    /\ owed \in [Client -> SUBSET Payloads]
    /\ missed \in [Client -> SUBSET Payloads]
    /\ lost \subseteq Payloads
    /\ breaks \in 0..MaxBreaks /\ connects \in 0..MaxConnects

\* broadcast never sends on a closed channel, which would take the whole
\* server down: whoever is still to be visited has not been unregistered.
NoSendOnClosed == listener = "sending" => remaining \subseteq registered

\* What is on its way to the browser, oldest first.
Stream(c) == delivered[c] \o holding[c] \o buffer[c]

Current(c) == IF listener = "lock" \/ c \in remaining THEN {payload} ELSE {}

\* A client whose connection stands gets blocks in commit order and none
\* twice, and of those notified since it subscribed it misses exactly the ones
\* that found no session, or its own channel full.
Accounted ==
    \A c \in registered :
        link[c] = "up" =>
            /\ \A i, j \in DOMAIN Stream(c) : i < j => Stream(c)[i] < Stream(c)[j]
            /\ owed[c] \subseteq Range(Stream(c)) \cup missed[c] \cup lost
                                   \cup Range(feed) \cup Current(c)
            /\ Range(Stream(c)) \cap (missed[c] \cup lost) = {}

\* No client, however slow or dead, holds up the hub for the others.
HubNeverBlocks == []<>(listener \notin {"lock", "sending"})

\* A connection whose peer is gone does not stay registered.
GoneUnregistered ==
    \A c \in Client :
        (c \in registered /\ link[c] = "gone") ~> c \notin registered

\* What has reached a client's channel reaches the browser while it is there.
BufferedArrives ==
    \A c \in Client, n \in Payloads :
        (c \in registered /\ n \in Range(buffer[c]))
        ~> (n \in Range(delivered[c]) \/ link[c] # "up")

-----------------------------------------------------------------------------
\* README.md:56, "pushes every new block to all connected clients within
\* seconds": what is notified while a client is connected gets there.
PushesEveryBlock ==
    \A c \in Client, n \in Payloads :
        n \in owed[c] ~> (n \in Range(delivered[c]) \/ link[c] # "up")
=============================================================================
