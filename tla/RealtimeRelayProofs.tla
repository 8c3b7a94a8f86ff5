------------------------- MODULE RealtimeRelayProofs -------------------------
(***************************************************************************)
(* Theorems about RealtimeRelay for any number of clients and connections,  *)
(* any capacity of the channels and any number of lost sessions.            *)
(***************************************************************************)
EXTENDS RealtimeRelay, SequenceTheorems, TLAPS

\* While there is something to broadcast, the payload is a notification.
Carrying == listener \in {"lock", "sending"} => payload \in Payloads

RelayInv == TypeOK /\ Carrying /\ NoSendOnClosed

LEMMA InitInv == Init => RelayInv
BY RelayAssumption DEF Init, RelayInv, TypeOK, Carrying, NoSendOnClosed, Payloads

\* The goroutine of one connection changes; the map changes with it if c enters
\* or leaves the steps at which it is registered.
LEMMA ConnectionStep ==
    ASSUME RelayInv, NEW c \in Client,
           \/ Accept(c) \/ Subscribe(c) \/ Take(c) \/ Tick(c) \/ PeerLeaves(c)
           \/ Serve(c) \/ Leave(c) \/ Unregister(c)
    PROVE  RelayInv'
<1>. USE DEF RelayInv, TypeOK, Carrying, NoSendOnClosed, Payloads, Goto,
             database, hub
<1>1. CASE Accept(c)
  BY <1>1, RelayAssumption DEF Accept
<1>2. CASE Subscribe(c)
  BY <1>2 DEF Subscribe, LockFree
<1>3. CASE Take(c)
  <2>1. /\ Head(buffer[c]) \in Payloads
        /\ Tail(buffer[c]) \in Seq(Payloads)
        /\ Len(Tail(buffer[c])) <= Cap
    BY <1>3, RelayAssumption DEF Take
  <2>2. /\ <<Head(buffer[c])>> \in Seq(Payloads)
        /\ Len(<<Head(buffer[c])>>) = 1
    BY <2>1
  <2>. QED  BY <1>3, <2>1, <2>2 DEF Take
<1>4. CASE Tick(c)
  BY <1>4 DEF Tick
<1>5. CASE PeerLeaves(c)
  BY <1>5 DEF PeerLeaves
<1>6. CASE Wrote(c)
  <2>1. delivered[c] \o holding[c] \in Seq(Payloads)
    BY <1>6
  <2>2. <<>> \in Seq(Payloads) /\ Len(<<>>) = 0
    OBVIOUS
  <2>. QED  BY <1>6, <2>1, <2>2 DEF Wrote
<1>7. CASE Pong(c)
  BY <1>7 DEF Pong
<1>8. CASE Notice(c)
  BY <1>8 DEF Notice
<1>9. CASE Close(c)
  BY <1>9, RelayAssumption DEF Close
<1>10. CASE Leave(c)
  BY <1>10 DEF Leave
<1>11. CASE Unregister(c)
  BY <1>11 DEF Unregister, LockFree
<1>. QED
  BY <1>1, <1>2, <1>3, <1>4, <1>5, <1>6, <1>7, <1>8, <1>9, <1>10, <1>11 DEF Serve

LEMMA ListenerStep ==
    ASSUME RelayInv, Listener
    PROVE  RelayInv'
<1>. USE DEF RelayInv, TypeOK, Carrying, NoSendOnClosed, Payloads, database,
             connection
<1>1. CASE Connect
  BY <1>1 DEF Connect
<1>2. CASE SessionEnds
  BY <1>2 DEF SessionEnds
<1>3. CASE Receive
  <2>1. feed \in Seq(Payloads) /\ feed # <<>>
    BY <1>3 DEF Receive
  <2>2. Head(feed) \in Payloads /\ Tail(feed) \in Seq(Payloads)
    <3>. HIDE DEF RelayInv, TypeOK, Payloads
    <3>. QED  BY <2>1, HeadTailProperties
  <2>. QED  BY <1>3, <2>2, RelayAssumption DEF Receive
<1>4. CASE Lock
  BY <1>4 DEF Lock
<1>5. ASSUME NEW c \in Client, Send(c) PROVE RelayInv'
  <2>1. payload \in Payloads
    BY <1>5 DEF Send
  <2>2. CASE Len(buffer[c]) < Cap
    <3>1. /\ Append(buffer[c], payload) \in Seq(Payloads)
          /\ Len(Append(buffer[c], payload)) <= Cap
      BY <2>1, <2>2, RelayAssumption
    <3>. QED  BY <1>5, <2>2, <3>1 DEF Send
  <2>3. CASE ~ (Len(buffer[c]) < Cap)
    <3>1. missed' = [missed EXCEPT ![c] = @ \cup {payload}] /\ UNCHANGED buffer
      BY <1>5, <2>3 DEF Send
    <3>2. missed' \in [Client -> SUBSET Payloads]
      BY <2>1, <3>1
    <3>. QED  BY <1>5, <3>1, <3>2 DEF Send
  <2>. QED  BY <2>2, <2>3
<1>6. CASE Unlock
  BY <1>6, RelayAssumption DEF Unlock
<1>. QED  BY <1>1, <1>2, <1>3, <1>4, <1>5, <1>6 DEF Listener

LEMMA DatabaseStep ==
    ASSUME RelayInv, Notify \/ SessionBreaks
    PROVE  RelayInv'
<1>. USE RelayAssumption
         DEF RelayInv, TypeOK, Carrying, NoSendOnClosed, Payloads, hub, connection
<1>1. CASE Notify
  <2>1. notified' \in Payloads
    BY <1>1 DEF Notify
  <2>2. feed' \in Seq(Payloads)
    <3>1. feed \in Seq(Payloads) /\ feed' \in {feed, Append(feed, notified')}
      BY <1>1 DEF Notify
    <3>. HIDE DEF RelayInv, TypeOK, Payloads
    <3>. QED  BY <2>1, <3>1
  <2>3. lost' \subseteq Payloads /\ owed' \in [Client -> SUBSET Payloads]
    BY <1>1, <2>1 DEF Notify
  <2>. QED  BY <1>1, <2>1, <2>2, <2>3 DEF Notify
<1>2. CASE SessionBreaks
  <2>1. PICK kept \in 0..Len(feed) :
            /\ feed' = SubSeq(feed, 1, kept)
            /\ lost' = lost \cup {feed[i] : i \in kept + 1 .. Len(feed)}
    BY <1>2 DEF SessionBreaks
  <2>2. feed' \in Seq(Payloads)
    <3>1. feed \in Seq(Payloads)
      OBVIOUS
    <3>2. kept \in 0..Len(feed)
      BY <2>1
    <3>. HIDE DEF RelayInv, TypeOK, Payloads
    <3>3. Len(feed) \in Nat
      BY <3>1
    <3>4. \A i \in 1..kept : feed[i] \in Payloads
      BY <3>1, <3>2, <3>3
    <3>5. SubSeq(feed, 1, kept) \in Seq(Payloads)
      BY <3>1, <3>2, <3>3, <3>4
    <3>. QED  BY <2>1, <3>5
  <2>3. lost' \subseteq Payloads
    <3>1. feed \in Seq(Payloads) /\ lost \subseteq Payloads
      OBVIOUS
    <3>. HIDE DEF RelayInv, TypeOK, Payloads
    <3>2. \A i \in kept + 1 .. Len(feed) : feed[i] \in Payloads
      BY <2>1, <3>1
    <3>. QED  BY <2>1, <3>1, <3>2
  <2>4. breaks' \in 0..MaxBreaks
    BY <1>2 DEF SessionBreaks
  <2>. QED  BY <1>2, <2>2, <2>3, <2>4 DEF SessionBreaks
<1>. QED  BY <1>1, <1>2

\* The inductive invariant of the relay.
THEOREM RelayInvariant == Spec => []RelayInv
<1>1. RelayInv /\ [Next]_vars => RelayInv'
  <2>1. SUFFICES ASSUME RelayInv, [Next]_vars PROVE RelayInv'
    OBVIOUS
  <2>2. CASE UNCHANGED vars
    BY <2>1, <2>2 DEF RelayInv, TypeOK, Carrying, NoSendOnClosed, Payloads, vars,
                      database, hub, connection
  <2>. QED  BY <2>1, <2>2, DatabaseStep, ListenerStep, ConnectionStep DEF Next
<1>. QED  BY InitInv, <1>1, PTL DEF Spec

\* Types hold, channels stay within their capacity, and the hub's map has
\* exactly the connections between subscribe and unsubscribe.
THEOREM RelayTypeCorrect == Spec => []TypeOK
<1>1. RelayInv => TypeOK
  BY DEF RelayInv
<1>. QED  BY <1>1, RelayInvariant, PTL

\* No broadcast ever sends on a channel that has been closed: who is still to
\* be visited is in the map, because unsubscribe deletes under the mutex.
THEOREM NeverSendsOnClosed == Spec => []NoSendOnClosed
<1>1. RelayInv => NoSendOnClosed
  BY DEF RelayInv
<1>. QED  BY <1>1, RelayInvariant, PTL

-----------------------------------------------------------------------------
(* Every block is accounted for *)

Ascending(s) == \A i, j \in DOMAIN s : i < j => s[i] < s[j]

\* What the session has yet to hand out comes in commit order, after the
\* payload of the broadcast under way, and none of it has been lost.
FeedKept ==
    /\ Ascending(feed)
    /\ Range(feed) \cup lost \subseteq 1..notified
    /\ Range(feed) \cap lost = {}
    /\ listener \in {"lock", "sending"} =>
          /\ payload \in (1..notified) \ lost
          /\ \A n \in Range(feed) : payload < n
    /\ listener # "sending" => remaining = {}

\* A connection starts with nothing, and writes what it holds before it takes
\* more: Take does not disturb the order of its stream.
Fresh(c) ==
    /\ pc[c] \in {"away", "accepted"} =>
          Stream(c) = <<>> /\ owed[c] = {} /\ missed[c] = {}
    /\ pc[c] \in {"select", "pinging"} => holding[c] = <<>>

\* What a client has got or missed was notified before all that is to come.
Kept(c) ==
    /\ Ascending(Stream(c))
    /\ \A m \in Range(Stream(c)) \cup missed[c] :
          /\ m <= notified
          /\ \A n \in Range(feed) \cup Current(c) : m < n
    /\ Range(Stream(c)) \cap (missed[c] \cup lost) = {}
    /\ owed[c] \subseteq Range(Stream(c)) \cup missed[c] \cup lost
                           \cup Range(feed) \cup Current(c)

Standing == {c \in registered : link[c] = "up"}

AccountInv ==
    /\ FeedKept
    /\ \A c \in Client : Fresh(c)
    /\ \A c \in Standing : Kept(c)

LEMMA InitAccount == Init => AccountInv
<1>1. SUFFICES ASSUME Init PROVE AccountInv
  OBVIOUS
<1>2. FeedKept
  BY <1>1 DEF Init, FeedKept, Ascending, Range
<1>3. \A c \in Client : Stream(c) = <<>>
  BY <1>1 DEF Init, Stream
<1>4. Standing = {}
  BY <1>1 DEF Init, Standing
<1>. QED  BY <1>1, <1>2, <1>3, <1>4 DEF AccountInv, Fresh, Init

-----------------------------------------------------------------------------
(* Sequences of notifications *)

LEMMA StreamTyped ==
    ASSUME TypeOK, NEW c \in Client
    PROVE  Stream(c) \in Seq(Payloads)
<1>1. /\ delivered[c] \in Seq(Payloads)
      /\ holding[c] \in Seq(Payloads)
      /\ buffer[c] \in Seq(Payloads)
  BY DEF TypeOK
<1>. QED  BY <1>1, ConcatProperties DEF Stream

\* What is appended last is the range's only new element.
LEMMA AppendRange ==
    ASSUME NEW S, NEW s \in Seq(S), NEW n \in S
    PROVE  Range(Append(s, n)) = Range(s) \cup {n}
<1>1. /\ Len(Append(s, n)) = Len(s) + 1 /\ Len(s) \in Nat
      /\ DOMAIN Append(s, n) = 1..Len(s) + 1 /\ DOMAIN s = 1..Len(s)
      /\ \A i \in 1..Len(s) : Append(s, n)[i] = s[i]
      /\ Append(s, n)[Len(s) + 1] = n
  BY AppendProperties, LenProperties
<1>2. \A i \in 1..Len(s) + 1 : i = Len(s) + 1 \/ i \in 1..Len(s)
  BY <1>1
<1>3. Len(s) + 1 \in 1..Len(s) + 1 /\ \A i \in 1..Len(s) : i \in 1..Len(s) + 1
  BY <1>1
<1>. QED  BY <1>1, <1>2, <1>3 DEF Range

\* Appending what is later than all keeps a sequence ascending.
LEMMA AppendAscending ==
    ASSUME NEW S \in SUBSET Int, NEW s \in Seq(S), NEW n \in S, Ascending(s),
           \A m \in Range(s) : m < n
    PROVE  Ascending(Append(s, n))
<1>1. /\ Len(s) \in Nat
      /\ DOMAIN Append(s, n) = 1..Len(s) + 1 /\ DOMAIN s = 1..Len(s)
      /\ \A i \in 1..Len(s) : Append(s, n)[i] = s[i]
      /\ Append(s, n)[Len(s) + 1] = n
  BY AppendProperties, LenProperties
<1>2. SUFFICES ASSUME NEW i \in 1..Len(s) + 1, NEW j \in 1..Len(s) + 1, i < j
               PROVE  Append(s, n)[i] < Append(s, n)[j]
  BY <1>1 DEF Ascending
<1>3. i \in 1..Len(s)
  BY <1>1, <1>2
<1>4. CASE j = Len(s) + 1
  BY <1>1, <1>3, <1>4 DEF Range
<1>5. CASE j \in 1..Len(s)
  BY <1>1, <1>2, <1>3, <1>5 DEF Ascending
<1>. QED  BY <1>1, <1>4, <1>5

\* The head of an ascending sequence is before all of its tail.
LEMMA HeadOfAscending ==
    ASSUME NEW S \in SUBSET Int, NEW s \in Seq(S), s # <<>>, Ascending(s)
    PROVE  /\ Range(s) = {Head(s)} \cup Range(Tail(s))
           /\ \A n \in Range(Tail(s)) : Head(s) < n
           /\ Ascending(Tail(s))
<1>1. /\ Len(s) \in Nat \ {0} /\ DOMAIN s = 1..Len(s)
      /\ Tail(s) \in Seq(S) /\ Len(Tail(s)) = Len(s) - 1
      /\ \A i \in 1..Len(s) - 1 : Tail(s)[i] = s[i + 1]
      /\ Head(s) = s[1]
  BY HeadTailProperties, LenProperties, EmptySeq
<1>. DEFINE t == Tail(s)
<1>2. /\ DOMAIN t = 1..Len(s) - 1
      /\ \A i \in 1..Len(s) - 1 : t[i] = s[i + 1]
  BY <1>1, LenProperties
<1>. HIDE DEF t
<1>3. \A i \in 1..Len(s) - 1 : i + 1 \in 1..Len(s) /\ 1 < i + 1
  BY <1>1
<1>4. 1 \in 1..Len(s) /\ \A i \in 1..Len(s) : i = 1 \/ i - 1 \in 1..Len(s) - 1
  BY <1>1
<1>5. \A i \in 1..Len(s) : i = 1 \/ s[i] = t[i - 1]
  BY <1>1, <1>2, <1>4
<1>6. Range(s) \subseteq {s[1]} \cup Range(t)
  BY <1>1, <1>2, <1>4, <1>5 DEF Range
<1>7. {s[1]} \cup Range(t) \subseteq Range(s)
  BY <1>1, <1>2, <1>3, <1>4 DEF Range
<1>8. \A n \in Range(t) : s[1] < n
  BY <1>1, <1>2, <1>3, <1>4 DEF Range, Ascending
<1>9. Ascending(t)
  BY <1>1, <1>2, <1>3 DEF Ascending
<1>. QED  BY <1>1, <1>6, <1>7, <1>8, <1>9 DEF t

\* What a break keeps of a sequence, and what it loses.
LEMMA CutAscending ==
    ASSUME NEW S \in SUBSET Int, NEW s \in Seq(S), Ascending(s),
           NEW kept \in 0..Len(s)
    PROVE  LET lostNow == {s[i] : i \in kept + 1 .. Len(s)}
           IN  /\ Range(s) = Range(SubSeq(s, 1, kept)) \cup lostNow
               /\ Range(SubSeq(s, 1, kept)) \cap lostNow = {}
               /\ Ascending(SubSeq(s, 1, kept))
<1>. DEFINE t == SubSeq(s, 1, kept)
<1>1. Len(s) \in Nat /\ DOMAIN s = 1..Len(s) /\ \A i \in 1..Len(s) : s[i] \in S
  BY LenProperties, ElementOfSeq
<1>2. kept \in Int /\ 1 \in Int /\ \A i \in 1..kept : s[i] \in S
  BY <1>1
<1>3. /\ t \in Seq(S)
      /\ Len(t) = IF 1 <= kept THEN kept - 1 + 1 ELSE 0
      /\ \A i \in 1..kept - 1 + 1 : t[i] = s[1 + i - 1]
  BY <1>2, SubSeqProperties
<1>4. DOMAIN t = 1..kept /\ \A i \in 1..kept : t[i] = s[i]
  BY <1>1, <1>3, LenProperties
<1>. HIDE DEF t
<1>a. \A i \in 1..kept, j \in kept + 1 .. Len(s) :
         i \in DOMAIN s /\ j \in DOMAIN s /\ i < j
  BY <1>1
<1>5. \A i \in 1..kept, j \in kept + 1 .. Len(s) : s[i] < s[j] /\ s[i] \in Int
  BY <1>1, <1>a DEF Ascending
<1>6. Range(t) \cap {s[i] : i \in kept + 1 .. Len(s)} = {}
  BY <1>4, <1>5 DEF Range
<1>7. Range(s) = Range(t) \cup {s[i] : i \in kept + 1 .. Len(s)}
  BY <1>1, <1>4 DEF Range
<1>8. Ascending(t)
  BY <1>1, <1>4 DEF Ascending
<1>. QED  BY <1>6, <1>7, <1>8 DEF t

-----------------------------------------------------------------------------
(* What a step leaves of the account of one client *)

\* A client whose stream, losses and debts stay, while the feed does.
LEMMA KeptStays ==
    ASSUME NEW c, Kept(c), Stream(c)' = Stream(c),
           missed'[c] = missed[c], owed'[c] = owed[c], Current(c)' = Current(c),
           UNCHANGED <<notified, feed, lost>>
    PROVE  Kept(c)'
BY DEF Kept, Ascending, Range

\* The goroutine of c does nothing to another connection.
LEMMA OthersStay ==
    ASSUME NEW c \in Client, NEW e \in Client,
           pc'[e] = pc[e], buffer'[e] = buffer[e], holding'[e] = holding[e],
           delivered'[e] = delivered[e], missed'[e] = missed[e], owed'[e] = owed[e],
           UNCHANGED <<notified, feed, lost, hub>>
    PROVE  /\ Fresh(e) => Fresh(e)'
           /\ Kept(e) => Kept(e)'
<1>1. Stream(e)' = Stream(e) /\ Current(e)' = Current(e)
  BY DEF Stream, Current, hub
<1>. QED  BY <1>1, KeptStays DEF Fresh

LEMMA FeedStays ==
    ASSUME FeedKept, UNCHANGED <<notified, feed, lost, hub>>
    PROVE  FeedKept'
BY DEF FeedKept, Ascending, Range, hub

\* A stream is cut in three anywhere.
LEMMA Associates ==
    \A s, t, u \in Seq(Payloads) : (s \o t) \o u = s \o (t \o u)
BY ConcatAssociative

\* Taking from the channel, and writing to a peer that is there, move a block
\* along the stream.
LEMMA TakeMoves ==
    ASSUME TypeOK, NEW c \in Client, Fresh(c), Take(c)
    PROVE  Stream(c)' = Stream(c)
<1>1. /\ buffer[c] \in Seq(Payloads) /\ buffer[c] # <<>>
      /\ delivered[c] \in Seq(Payloads)
  BY DEF Take, TypeOK
<1>2. holding[c] = <<>>
  BY DEF Take, Fresh
<1>3. /\ holding'[c] = <<Head(buffer[c])>> /\ buffer'[c] = Tail(buffer[c])
      /\ delivered'[c] = delivered[c]
  BY DEF Take, TypeOK
<1>4. <<Head(buffer[c])>> \o Tail(buffer[c]) = buffer[c]
  BY <1>1
<1>5. /\ <<Head(buffer[c])>> \in Seq(Payloads) /\ Tail(buffer[c]) \in Seq(Payloads)
  BY <1>1, HeadTailProperties
<1>6. (delivered[c] \o <<Head(buffer[c])>>) \o Tail(buffer[c])
         = delivered[c] \o (<<Head(buffer[c])>> \o Tail(buffer[c]))
  BY <1>1, <1>5, Associates, Zenon
<1>7. delivered[c] \o <<>> = delivered[c]
  BY <1>1, ConcatEmptySeq
<1>. QED  BY <1>2, <1>3, <1>4, <1>6, <1>7 DEF Stream

LEMMA WroteMoves ==
    ASSUME TypeOK, NEW c \in Client, Wrote(c), link[c] = "up"
    PROVE  Stream(c)' = Stream(c)
<1>1. delivered[c] \in Seq(Payloads) /\ holding[c] \in Seq(Payloads)
  BY DEF TypeOK
<1>2. /\ delivered'[c] = delivered[c] \o holding[c]
      /\ holding'[c] = <<>> /\ buffer'[c] = buffer[c]
  BY DEF Wrote, TypeOK
<1>3. (delivered[c] \o holding[c]) \o <<>> = delivered[c] \o holding[c]
  BY <1>1, ConcatProperties, ConcatEmptySeq
<1>. QED  BY <1>2, <1>3 DEF Stream

\* A broadcast puts its payload behind all there is.
LEMMA SendExtends ==
    ASSUME TypeOK, NEW c \in Client, payload \in Payloads,
           buffer'[c] = Append(buffer[c], payload),
           holding'[c] = holding[c], delivered'[c] = delivered[c]
    PROVE  Stream(c)' = Append(Stream(c), payload)
<1>1. /\ delivered[c] \o holding[c] \in Seq(Payloads)
      /\ buffer[c] \in Seq(Payloads)
      /\ <<payload>> \in Seq(Payloads)
      /\ Stream(c) \in Seq(Payloads)
  BY StreamTyped, ConcatProperties DEF TypeOK
<1>2. Append(buffer[c], payload) = buffer[c] \o <<payload>>
  BY <1>1, AppendIsConcat
<1>3. (delivered[c] \o holding[c]) \o (buffer[c] \o <<payload>>)
         = ((delivered[c] \o holding[c]) \o buffer[c]) \o <<payload>>
  BY <1>1, Associates, Zenon
<1>4. Append(Stream(c), payload) = Stream(c) \o <<payload>>
  BY <1>1, AppendIsConcat
<1>. QED  BY <1>2, <1>3, <1>4 DEF Stream

-----------------------------------------------------------------------------
LEMMA ConnectionAccounts ==
    ASSUME RelayInv, AccountInv, NEW c \in Client,
           \/ Accept(c) \/ Subscribe(c) \/ Take(c) \/ Tick(c) \/ PeerLeaves(c)
           \/ Serve(c) \/ Leave(c) \/ Unregister(c)
    PROVE  AccountInv'
<1>1. TypeOK /\ FeedKept /\ Fresh(c)
  BY DEF RelayInv, AccountInv
<1>2. UNCHANGED <<notified, feed, lost, hub>>
  BY DEF Accept, Subscribe, Take, Tick, PeerLeaves, Serve, Wrote, Pong, Notice,
         Close, Leave, Unregister, database
<1>3. FeedKept'
  BY <1>1, <1>2, FeedStays
<1>4. ASSUME NEW e \in Client, e # c
      PROVE  Fresh(e)' /\ (e \in Standing' => Kept(e)')
  <2>1. /\ pc'[e] = pc[e] /\ buffer'[e] = buffer[e] /\ holding'[e] = holding[e]
        /\ delivered'[e] = delivered[e] /\ missed'[e] = missed[e]
        /\ owed'[e] = owed[e] /\ link'[e] = link[e]
        /\ e \in registered' <=> e \in registered
    BY <1>1, <1>4
       DEF Accept, Subscribe, Take, Tick, PeerLeaves, Serve, Wrote, Pong, Notice,
           Close, Leave, Unregister, Goto, TypeOK
  <2>2. Fresh(e)' /\ (Kept(e) => Kept(e)')
    BY <1>2, <1>4, <2>1, OthersStay DEF AccountInv
  <2>. QED  BY <2>1, <2>2 DEF Standing, AccountInv
<1>5. Fresh(c)' /\ (c \in Standing' => Kept(c)')
  <2>1. CASE Accept(c)
    <3>1. Stream(c)' = Stream(c) /\ pc[c] = "away" /\ pc'[c] = "accepted"
      BY <1>1, <2>1 DEF Accept, Goto, Stream, TypeOK
    <3>2. c \notin registered'
      BY <1>1, <2>1, <3>1 DEF Accept, TypeOK
    <3>. QED  BY <1>1, <2>1, <3>1, <3>2 DEF Accept, Fresh, Standing
  <2>2. CASE Subscribe(c)
    <3>1. /\ pc[c] = "accepted" /\ pc'[c] = "select" /\ holding'[c] = holding[c]
          /\ owed' = owed /\ missed' = missed /\ Stream(c)' = Stream(c)
      BY <1>1, <2>2 DEF Subscribe, Goto, Stream, TypeOK
    <3>2. Stream(c) = <<>> /\ owed[c] = {} /\ missed[c] = {}
      BY <1>1, <3>1 DEF Fresh
    <3>3. holding[c] = <<>>
      <4>1. /\ delivered[c] \in Seq(Payloads) /\ holding[c] \in Seq(Payloads)
            /\ buffer[c] \in Seq(Payloads)
        BY <1>1 DEF TypeOK
      <4>2. delivered[c] \o holding[c] \in Seq(Payloads)
        BY <4>1, ConcatProperties
      <4>3. delivered[c] \o holding[c] = <<>>
        BY <3>2, <4>1, <4>2, ConcatEqualIffEmpty DEF Stream
      <4>. QED  BY <4>1, <4>3, ConcatEqualIffEmpty
    <3>4. Kept(c)'
      BY <3>1, <3>2 DEF Kept, Ascending, Range
    <3>. QED  BY <3>1, <3>3, <3>4 DEF Fresh
  <2>3. CASE Take(c)
    <3>1. Stream(c)' = Stream(c)
      BY <1>1, <2>3, TakeMoves
    <3>2. /\ pc'[c] = "writing" /\ UNCHANGED <<missed, owed, registered, link>>
      BY <1>1, <2>3 DEF Take, Goto, TypeOK
    <3>3. Current(c)' = Current(c)
      BY <1>2 DEF Current, hub
    <3>. QED  BY <1>2, <3>1, <3>2, <3>3, KeptStays DEF Fresh, Standing, AccountInv
  <2>4. CASE Wrote(c)
    <3>1. /\ pc'[c] = "select" /\ holding'[c] = <<>>
          /\ UNCHANGED <<missed, owed, registered, link>>
      BY <1>1, <2>4 DEF Wrote, Goto, TypeOK
    <3>2. Current(c)' = Current(c)
      BY <1>2 DEF Current, hub
    <3>3. link[c] = "up" => Stream(c)' = Stream(c)
      BY <1>1, <2>4, WroteMoves
    <3>. QED  BY <1>2, <3>1, <3>2, <3>3, KeptStays DEF Fresh, Standing, AccountInv
  <2>5. CASE Close(c)
    <3>1. /\ pc[c] = "closing" /\ pc'[c] = "away" /\ owed'[c] = {} /\ missed'[c] = {}
          /\ buffer'[c] = <<>> /\ holding'[c] = <<>> /\ delivered'[c] = <<>>
          /\ registered' = registered
      BY <1>1, <2>5 DEF Close, Goto, TypeOK
    <3>2. Stream(c)' = <<>>
      BY <3>1 DEF Stream
    <3>3. c \notin registered'
      BY <1>1, <3>1 DEF TypeOK
    <3>. QED  BY <3>1, <3>2, <3>3 DEF Fresh, Standing
  <2>6. CASE Tick(c) \/ Pong(c) \/ Leave(c) \/ Unregister(c) \/ PeerLeaves(c) \/ Notice(c)
    <3>1. /\ UNCHANGED <<buffer, holding, delivered, missed, owed>>
          /\ pc'[c] \in {pc[c], "pinging", "select", "leaving", "closing"}
          /\ pc'[c] \in {"pinging", "select"} => pc[c] \in {"pinging", "select"}
          /\ pc'[c] \in {"away", "accepted"} => pc[c] \in {"away", "accepted"}
          /\ c \in Standing' => c \in Standing
      BY <1>1, <2>6
         DEF Tick, Pong, Leave, Unregister, PeerLeaves, Notice, Goto, Standing, TypeOK
    <3>2. Stream(c)' = Stream(c) /\ Current(c)' = Current(c)
      BY <1>2, <3>1 DEF Stream, Current, hub
    <3>. QED  BY <1>1, <1>2, <3>1, <3>2, KeptStays DEF Fresh, AccountInv
  <2>. QED  BY <2>1, <2>2, <2>3, <2>4, <2>5, <2>6 DEF Serve
<1>6. Standing' \subseteq Client
  BY ConnectionStep DEF Standing, RelayInv, TypeOK
<1>. QED  BY <1>3, <1>4, <1>5, <1>6 DEF AccountInv

\* While there is nothing to broadcast, no client waits to be visited.
LEMMA NothingCurrent ==
    ASSUME FeedKept, NEW c
    PROVE  listener \notin {"lock", "sending"} => Current(c) = {}
BY DEF FeedKept, Current

\* The listener leaves the streams to the connections.
LEMMA FreshStays ==
    ASSUME AccountInv, UNCHANGED <<connection, owed, missed>>
    PROVE  \A c \in Client : Fresh(c)' /\ Stream(c)' = Stream(c)
BY DEF AccountInv, Fresh, Stream, connection

\* Taken from the session, a notification is the one to be broadcast.
LEMMA ReceiveAccounts ==
    ASSUME RelayInv, AccountInv, Receive
    PROVE  AccountInv'
<1>1. /\ feed \in Seq(Payloads) /\ feed # <<>> /\ Ascending(feed)
      /\ Payloads \in SUBSET Int
  BY DEF Receive, RelayInv, TypeOK, AccountInv, FeedKept, Payloads
<1>2. /\ Range(feed) = {payload'} \cup Range(feed')
      /\ \A n \in Range(feed') : payload' < n
      /\ Ascending(feed')
  <2>1. /\ Range(feed) = {Head(feed)} \cup Range(Tail(feed))
        /\ \A n \in Range(Tail(feed)) : Head(feed) < n
        /\ Ascending(Tail(feed))
    BY <1>1, HeadOfAscending
  <2>. QED  BY <2>1 DEF Receive
<1>3. /\ listener = "waiting" /\ listener' = "lock"
      /\ UNCHANGED <<notified, lost, remaining, registered, link>>
      /\ UNCHANGED <<connection, owed, missed>>
  BY DEF Receive, connection
<1>4. FeedKept'
  <2>1. Ascending(feed)'
    BY <1>2 DEF Ascending
  <2>2. Range(feed)' = Range(feed')
    OBVIOUS
  <2>. QED  BY <1>2, <1>3, <2>1, <2>2 DEF AccountInv, FeedKept
<1>5. ASSUME NEW c \in Standing PROVE Kept(c)'
  <2>1. Kept(c) /\ c \in Client
    BY DEF AccountInv, Standing, RelayInv, TypeOK
  <2>2. Stream(c)' = Stream(c) /\ missed'[c] = missed[c] /\ owed'[c] = owed[c]
    BY <1>3, <2>1, FreshStays
  <2>3. Current(c) = {} /\ Current(c)' = {payload'}
    BY <1>3 DEF AccountInv, FeedKept, Current
  <2>4. Range(feed) = Range(feed)' \cup Current(c)' /\ Range(Stream(c))' = Range(Stream(c))
    BY <1>2, <2>2, <2>3 DEF Range
  <2>5. Ascending(Stream(c))'
    BY <2>1, <2>2 DEF Kept, Ascending
  <2>. QED  BY <1>3, <2>1, <2>2, <2>3, <2>4, <2>5 DEF Kept
<1>6. Standing' = Standing
  BY <1>3 DEF Standing
<1>. QED  BY <1>3, <1>4, <1>5, <1>6, FreshStays DEF AccountInv

\* A client that is visited gets the payload behind all it has, or misses it;
\* the others still wait for it, or have had their turn.
LEMMA SendAccounts ==
    ASSUME RelayInv, AccountInv, NEW e \in Client, Send(e)
    PROVE  AccountInv'
<1>1. /\ listener = "sending" /\ e \in remaining /\ e \in registered
      /\ payload \in Payloads /\ TypeOK /\ FeedKept /\ Payloads \in SUBSET Int
      /\ payload \in (1..notified) \ lost
      /\ \A n \in Range(feed) : payload < n
  BY DEF Send, RelayInv, Carrying, NoSendOnClosed, AccountInv, FeedKept, Payloads
<1>2. /\ remaining' = remaining \ {e}
      /\ UNCHANGED <<notified, feed, lost, listener, payload, registered, pc,
                     holding, link, delivered, owed>>
  BY DEF Send, database
<1>3. FeedKept'
  BY <1>1, <1>2 DEF FeedKept, Ascending, Range
<1>4. ASSUME NEW c \in Client, c # e
      PROVE  Fresh(c)' /\ (c \in Standing => Kept(c)')
  <2>1. buffer'[c] = buffer[c] /\ missed'[c] = missed[c]
    BY <1>1, <1>4 DEF Send, TypeOK
  <2>2. Stream(c)' = Stream(c) /\ Current(c)' = Current(c)
    BY <1>2, <1>4, <2>1 DEF Stream, Current
  <2>3. Fresh(c)'
    BY <1>2, <2>1, <2>2 DEF Fresh, AccountInv
  <2>4. ASSUME c \in Standing PROVE Kept(c)'
    <3>1. Kept(c)
      BY <2>4 DEF AccountInv
    <3>. QED  BY <3>1, <1>2, <2>1, <2>2, KeptStays
  <2>. QED  BY <2>3, <2>4
<1>5. Fresh(e)'
  <2>1. pc[e] \notin {"away", "accepted"}
    BY <1>1 DEF TypeOK
  <2>. QED  BY <1>2, <2>1 DEF Fresh, AccountInv
<1>6. ASSUME e \in Standing PROVE Kept(e)'
  <2>1. Kept(e) /\ Current(e) = {payload} /\ Current(e)' = {}
    BY <1>1, <1>2, <1>6 DEF AccountInv, Current
  <2>2. Stream(e) \in Seq(Payloads)
    BY <1>1, StreamTyped
  <2>3. \A m \in Range(Stream(e)) \cup missed[e] : m < payload
    BY <2>1 DEF Kept
  <2>4. CASE Len(buffer[e]) < Cap
    <3>1. /\ buffer'[e] = Append(buffer[e], payload) /\ missed'[e] = missed[e]
      BY <1>1, <2>4 DEF Send, TypeOK
    <3>2. Stream(e)' = Append(Stream(e), payload)
      BY <1>1, <1>2, <3>1, SendExtends
    <3>3. Range(Stream(e))' = Range(Stream(e)) \cup {payload}
      <4>1. Range(Append(Stream(e), payload)) = Range(Stream(e)) \cup {payload}
        BY <1>1, <2>2, AppendRange
      <4>2. Range(Stream(e))' = Range(Append(Stream(e), payload))
        BY <3>2 DEF Range
      <4>. QED  BY <4>1, <4>2
    <3>4. Ascending(Stream(e))'
      <4>1. Ascending(Append(Stream(e), payload))
        BY <1>1, <2>1, <2>2, <2>3, AppendAscending DEF Kept
      <4>. QED  BY <3>2, <4>1 DEF Ascending
    <3>5. payload \notin missed[e] /\ payload \notin lost
      BY <1>1, <2>3
    <3>6. payload <= notified
      BY <1>1, RelayAssumption DEF TypeOK
    <3>7. Range(feed)' = Range(feed)
      BY <1>2 DEF Range
    <3>. QED  BY <1>1, <1>2, <2>1, <3>1, <3>3, <3>4, <3>5, <3>6, <3>7 DEF Kept
  <2>5. CASE ~ (Len(buffer[e]) < Cap)
    <3>1. buffer'[e] = buffer[e] /\ missed'[e] = missed[e] \cup {payload}
      BY <1>1, <2>5 DEF Send, TypeOK
    <3>2. Stream(e)' = Stream(e)
      BY <1>2, <3>1 DEF Stream
    <3>3. Ascending(Stream(e))' /\ Range(Stream(e))' = Range(Stream(e))
      BY <2>1, <3>2 DEF Kept, Ascending, Range
    <3>4. payload \notin Range(Stream(e))
      BY <1>1, <2>3
    <3>5. payload <= notified
      BY <1>1, RelayAssumption DEF TypeOK
    <3>6. Range(feed)' = Range(feed)
      BY <1>2 DEF Range
    <3>. QED  BY <1>1, <1>2, <2>1, <3>1, <3>3, <3>4, <3>5, <3>6 DEF Kept
  <2>. QED  BY <2>4, <2>5
<1>7. Standing' = Standing /\ Standing \subseteq Client
  BY <1>1, <1>2 DEF Standing, TypeOK
<1>. QED  BY <1>3, <1>4, <1>5, <1>6, <1>7 DEF AccountInv

LEMMA ListenerAccounts ==
    ASSUME RelayInv, AccountInv, Listener
    PROVE  AccountInv'
<1>1. ASSUME Connect \/ SessionEnds \/ Lock \/ Unlock PROVE AccountInv'
  <2>1. /\ UNCHANGED <<notified, feed, lost, registered, link>>
        /\ UNCHANGED <<connection, owed, missed>>
    BY <1>1 DEF Connect, SessionEnds, Lock, Unlock, database, connection
  <2>2. FeedKept'
    BY <1>1, <2>1
       DEF Connect, SessionEnds, Lock, Unlock, AccountInv, FeedKept, Ascending, Range
  <2>3. Standing' = Standing /\ Standing \subseteq Client
    BY <2>1 DEF Standing, RelayInv, TypeOK
  <2>4. ASSUME NEW c \in Standing PROVE Kept(c)'
    <3>1. Current(c)' = Current(c)
      BY <1>1 DEF Connect, SessionEnds, Lock, Unlock, Current, Standing,
                  AccountInv, FeedKept
    <3>2. Kept(c) /\ Stream(c)' = Stream(c) /\ missed'[c] = missed[c] /\ owed'[c] = owed[c]
      BY <2>1, <2>3, FreshStays DEF AccountInv
    <3>. QED  BY <2>1, <3>1, <3>2, KeptStays
  <2>. QED  BY <2>1, <2>2, <2>3, <2>4, FreshStays DEF AccountInv
<1>. QED  BY <1>1, ReceiveAccounts, SendAccounts DEF Listener

\* A new notification is later than all that is on its way or lost.
LEMMA NotifyAccounts ==
    ASSUME RelayInv, AccountInv, Notify
    PROVE  AccountInv'
<1>. DEFINE n == notified + 1
<1>1. /\ TypeOK /\ FeedKept /\ feed \in Seq(Payloads) /\ Payloads \in SUBSET Int
      /\ n \in Payloads /\ notified' = n /\ notified \in Nat /\ payload \in Int
  BY RelayAssumption DEF Notify, RelayInv, AccountInv, TypeOK, Payloads
<1>2. UNCHANGED <<hub, registered, connection, missed>>
  BY DEF Notify
<1>3. \/ feed' = Append(feed, n) /\ lost' = lost
      \/ feed' = feed /\ lost' = lost \cup {n}
  BY DEF Notify
<1>. HIDE DEF n
<1>4. /\ Range(Append(feed, n)) = Range(feed) \cup {n}
      /\ \A m \in Range(feed) \cup lost : m <= notified /\ m < n /\ m \in Int
  BY <1>1, AppendRange DEF FeedKept, n
<1>5. Ascending(Append(feed, n))
  BY <1>1, <1>4, AppendAscending DEF FeedKept
<1>6. /\ Ascending(feed)'
      /\ Range(feed)' \cup lost' = Range(feed) \cup lost \cup {n}
      /\ \/ Range(feed)' = Range(feed) \cup {n} /\ lost' = lost
         \/ Range(feed)' = Range(feed) /\ lost' = lost \cup {n}
  BY <1>1, <1>3, <1>4, <1>5 DEF FeedKept, Ascending, Range
<1>7. 1..n = (1..notified) \cup {n} /\ n \notin 1..notified
  BY <1>1 DEF n
<1>8. FeedKept'
  <2>1. listener' = listener /\ payload' = payload /\ remaining' = remaining
    BY <1>2 DEF hub
  <2>2. payload \in 1..notified => payload < n
    BY <1>1 DEF n
  <2>3. Range(feed)' \cap lost' = {}
    BY <1>1, <1>4, <1>6 DEF FeedKept
  <2>4. Range(feed)' \cup lost' \subseteq 1..n
    BY <1>1, <1>6, <1>7 DEF FeedKept
  <2>5. listener \in {"lock", "sending"} =>
           /\ payload \in (1..n) \ lost'
           /\ \A m \in Range(feed)' : payload < m
    BY <1>1, <1>6, <1>7, <2>2 DEF FeedKept
  <2>. QED  BY <1>1, <1>6, <2>1, <2>3, <2>4, <2>5 DEF FeedKept
<1>9. ASSUME NEW c \in Client PROVE Fresh(c)' /\ Stream(c)' = Stream(c)
  <2>1. Stream(c)' = Stream(c) /\ Fresh(c)
    BY <1>2 DEF Stream, connection, AccountInv
  <2>2. pc[c] \in {"away", "accepted"} => owed'[c] = owed[c]
    BY <1>1 DEF Notify, TypeOK
  <2>. QED  BY <1>2, <2>1, <2>2 DEF Fresh, connection
<1>10. ASSUME NEW c \in Standing PROVE Kept(c)'
  <2>1. Kept(c) /\ c \in Client /\ c \in registered
    BY DEF AccountInv, Standing, RelayInv, TypeOK
  <2>2. /\ Stream(c)' = Stream(c) /\ missed'[c] = missed[c] /\ Current(c)' = Current(c)
        /\ Range(Stream(c))' = Range(Stream(c))
    BY <1>2, <1>9, <2>1 DEF Current, hub, Range
  <2>3. owed'[c] = owed[c] \cup {n}
    BY <1>1, <2>1 DEF Notify
  <2>4. Stream(c) \in Seq(Payloads) /\ missed[c] \subseteq Payloads
    BY <1>1, <2>1, StreamTyped DEF TypeOK
  <2>5. \A m \in Range(Stream(c)) \cup missed[c] : m \in Int
    BY <1>1, <2>4, RangeOfSeq
  <2>6. \A m \in Range(Stream(c)) \cup missed[c] : m <= n /\ m < n /\ m # n
    BY <1>1, <2>1, <2>5 DEF Kept, n
  <2>7. Ascending(Stream(c))'
    BY <2>1, <2>2 DEF Kept, Ascending
  <2>8. \A m \in Range(Stream(c)) \cup missed[c] :
           \A k \in Range(feed)' \cup Current(c) : m < k
    BY <1>6, <2>1, <2>6 DEF Kept
  <2>9. Range(Stream(c)) \cap (missed[c] \cup lost') = {}
    BY <1>6, <2>1, <2>6 DEF Kept
  <2>10. owed'[c] \subseteq Range(Stream(c)) \cup missed[c] \cup lost'
                              \cup Range(feed)' \cup Current(c)
    BY <1>6, <2>1, <2>3 DEF Kept
  <2>. QED  BY <1>1, <2>2, <2>6, <2>7, <2>8, <2>9, <2>10 DEF Kept
<1>11. Standing' = Standing /\ Standing \subseteq Client
  BY <1>1, <1>2 DEF Standing, connection, TypeOK
<1>. QED  BY <1>8, <1>9, <1>10, <1>11 DEF AccountInv

\* A break loses the end of the feed, and nothing any client has got.
LEMMA BreakAccounts ==
    ASSUME RelayInv, AccountInv, SessionBreaks
    PROVE  AccountInv'
<1>1. /\ TypeOK /\ FeedKept /\ feed \in Seq(Payloads) /\ Payloads \in SUBSET Int
  BY DEF RelayInv, AccountInv, TypeOK, Payloads
<1>2. UNCHANGED <<notified, hub, registered, connection, owed, missed>>
  BY DEF SessionBreaks
<1>3. PICK kept \in 0..Len(feed) :
          /\ feed' = SubSeq(feed, 1, kept)
          /\ lost' = lost \cup {feed[i] : i \in kept + 1 .. Len(feed)}
  BY DEF SessionBreaks
<1>. DEFINE gone == {feed[i] : i \in kept + 1 .. Len(feed)}
<1>4. /\ Range(feed) = Range(SubSeq(feed, 1, kept)) \cup gone
      /\ Range(SubSeq(feed, 1, kept)) \cap gone = {}
      /\ Ascending(SubSeq(feed, 1, kept))
  BY <1>1, CutAscending DEF FeedKept
<1>5. lost' = lost \cup gone
  BY <1>3
<1>. HIDE DEF gone
<1>6. /\ Range(feed) = Range(feed)' \cup gone /\ Range(feed)' \cap gone = {}
      /\ Ascending(feed)'
  BY <1>3, <1>4 DEF Ascending, Range
<1>7. FeedKept'
  <2>1. payload \notin gone \/ listener \notin {"lock", "sending"}
    <3>1. \A m \in gone : m \in Range(feed) /\ m \in Int
      BY <1>1, <1>6, RangeOfSeq
    <3>2. payload \in Int
      BY <1>1, RelayAssumption DEF TypeOK
    <3>. QED  BY <1>1, <3>1, <3>2 DEF FeedKept
  <2>. QED  BY <1>1, <1>2, <1>5, <1>6, <2>1 DEF FeedKept, hub
<1>8. ASSUME NEW c \in Standing PROVE Kept(c)'
  <2>1. Kept(c) /\ c \in Client
    BY DEF AccountInv, Standing, RelayInv, TypeOK
  <2>2. /\ Stream(c)' = Stream(c) /\ Current(c)' = Current(c)
        /\ Range(Stream(c))' = Range(Stream(c)) /\ missed' = missed /\ owed' = owed
    BY <1>2 DEF Stream, Current, hub, connection, Range
  <2>3. Stream(c) \in Seq(Payloads)
    BY <1>1, <2>1, StreamTyped
  <2>4. \A m \in Range(Stream(c)) : m \in Int
    BY <1>1, <2>3, RangeOfSeq
  <2>5. \A m \in Range(Stream(c)) : m \notin gone
    BY <1>6, <2>1, <2>4 DEF Kept
  <2>6. Ascending(Stream(c))'
    BY <2>1, <2>2 DEF Kept, Ascending
  <2>. QED  BY <1>2, <1>5, <1>6, <2>1, <2>2, <2>5, <2>6 DEF Kept
<1>9. /\ Standing' = Standing /\ Standing \subseteq Client
      /\ UNCHANGED <<connection, owed, missed>>
  BY <1>1, <1>2 DEF Standing, connection, TypeOK
<1>. QED  BY <1>7, <1>8, <1>9, FreshStays DEF AccountInv

\* What the order and the account of the relay rest on, for any capacity, any
\* number of clients and any number of lost sessions.
THEOREM AccountInvariant == Spec => [](RelayInv /\ AccountInv)
<1>1. RelayInv /\ AccountInv /\ [Next]_vars => AccountInv'
  <2>1. SUFFICES ASSUME RelayInv, AccountInv, [Next]_vars PROVE AccountInv'
    OBVIOUS
  <2>2. CASE UNCHANGED vars
    <3>1. /\ UNCHANGED <<notified, feed, lost, hub, registered, link>>
          /\ UNCHANGED <<connection, owed, missed>>
      BY <2>2 DEF vars, database, connection
    <3>2. FeedKept'
      BY <2>1, <3>1, FeedStays DEF AccountInv
    <3>3. Standing' = Standing /\ Standing \subseteq Client
      BY <2>1, <3>1 DEF Standing, RelayInv, TypeOK
    <3>4. ASSUME NEW c \in Standing PROVE Kept(c)'
      <4>1. Kept(c) /\ Current(c)' = Current(c) /\ Stream(c)' = Stream(c)
        BY <2>1, <3>1, <3>3, FreshStays DEF AccountInv, Current, hub
      <4>. QED  BY <3>1, <4>1, KeptStays
    <3>. QED  BY <2>1, <3>1, <3>2, <3>3, <3>4, FreshStays DEF AccountInv
  <2>. QED
    BY <2>1, <2>2, NotifyAccounts, BreakAccounts, ListenerAccounts, ConnectionAccounts
       DEF Next
<1>2. Init => AccountInv
  BY InitAccount
<1>. QED  BY <1>1, <1>2, RelayInvariant, PTL DEF Spec

\* A browser whose connection stands gets blocks in commit order and none
\* twice; of what was notified since it subscribed it misses exactly what found
\* no LISTEN session or its own channel full, and nothing it gets is among that.
THEOREM AccountedHolds == Spec => []Accounted
<1>1. RelayInv /\ AccountInv => Accounted
  BY DEF AccountInv, Accounted, Standing, Kept, Ascending
<1>. QED  BY <1>1, AccountInvariant, PTL
=============================================================================
