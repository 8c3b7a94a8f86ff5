------------------------- MODULE BlocklistSyncProofs -------------------------
(***************************************************************************)
(* Theorems about BlocklistSync for any domains, details, hashes and number *)
(* of calls and starts, for calls that overlap in any way and a worker that *)
(* is killed at any step of any of them.                                    *)
(***************************************************************************)
EXTENDS BlocklistSync, TLAPS

-----------------------------------------------------------------------------
(* Types *)

Entries == {NoEntry} \cup [domain : Domain, details : Details \cup {NoValue}]

TypeInv == TypeOK /\ change \in [Task -> Entries]

LEMMA IdInRange ==
    ASSUME NEW d \in Domain
    PROVE  RuleIdFor(d) \in 1..IdRange
<1>1. Hash[d] \in Nat /\ IdRange \in Nat \ {0}
  BY SyncAssumption
<1>2. Hash[d] % IdRange \in 0..IdRange - 1
  BY <1>1
<1>. QED  BY <1>1, <1>2 DEF RuleIdFor

\* The one update Chrome takes leaves an id to one rule: what it adds has
\* distinct ids, and whatever had one of them is removed.
LEMMA UpdateKeepsIds ==
    ASSUME TypeInv, NEW t \in Task,
           \A d, e \in Changed(t) : RuleIdFor(d) = RuleIdFor(e) => d = e,
           rules' = {r \in rules : r.id \notin Ids(Touched(t))}
                       \cup {Rule(d, list[t][d]) : d \in Changed(t)}
    PROVE  /\ \A r \in rules' : /\ r.domain \in Domain /\ r.details \in Details
                                /\ r.id \in 1..IdRange
           /\ \A q, r \in rules' : q.id = r.id => q = r
<1>. DEFINE added == {Rule(d, list[t][d]) : d \in Changed(t)}
<1>1. list[t] \in Lists
  BY DEF TypeInv, TypeOK
<1>2. \A r \in added : \E d \in Changed(t) :
         /\ r = Rule(d, list[t][d]) /\ r.id = RuleIdFor(d) /\ r.domain = d
         /\ r.details = list[t][d] /\ d \in Domain /\ list[t][d] \in Details
  BY <1>1 DEF Rule, Changed, Lists
<1>3. \A r \in added : /\ r.domain \in Domain /\ r.details \in Details
                       /\ r.id \in 1..IdRange
                       /\ r.id \in Ids(Touched(t))
  BY <1>2, IdInRange DEF Ids, Touched
<1>4. \A q, r \in added : q.id = r.id => q = r
  BY <1>2
<1>5. \A r \in rules' : r \in added \/ (r \in rules /\ r.id \notin Ids(Touched(t)))
  OBVIOUS
<1>6. /\ \A r \in rules : /\ r.domain \in Domain /\ r.details \in Details
                          /\ r.id \in 1..IdRange
      /\ \A q, r \in rules : q.id = r.id => q = r
  BY DEF TypeInv, TypeOK
<1>. HIDE DEF added
<1>. QED  BY <1>3, <1>4, <1>5, <1>6

LEMMA TypeInvStep ==
    ASSUME TypeInv, [Next]_vars
    PROVE  TypeInv'
<1>. USE DEF TypeInv, TypeOK, Entries
<1>1. Nothing \in Lists
  BY DEF Nothing, Lists
<1>2. CASE UNCHANGED vars
  BY <1>2 DEF vars, stored, worker, locals, gaps, counts
<1>3. CASE Restart
  <2>1. starts' \in 0..MaxStarts /\ calls' = calls
    BY <1>3, SyncAssumption DEF Restart
  <2>2. \A t \in Task : Touched(t) \subseteq Domain
    BY DEF Touched, Gone, Changed
  <2>3. torn' \subseteq Domain
    BY <1>3, <2>2 DEF Restart
  <2>. QED  BY <1>1, <1>3, <2>1, <2>3 DEF Restart, stored
<1>4. CASE FetchFails \/ SetAdapterMode
  BY <1>4 DEF FetchFails, SetAdapterMode, stored, locals, gaps, counts
<1>5. ASSUME NEW t \in Task, Call(t)
      PROVE  /\ calls' \in 0..MaxCalls /\ starts' = starts
             /\ torn' \subseteq Domain /\ unfinished' = unfinished
  BY <1>5, SyncAssumption DEF Call
<1>6. ASSUME NEW t \in Task, NEW entries \in Lists, ApplyFull(t, entries)
      PROVE  TypeInv'
  <2>1. Call(t)
    BY <1>6 DEF ApplyFull
  <2>. QED  BY <1>5, <1>6, <2>1 DEF ApplyFull, Goto, TaskSteps, stored
<1>7. ASSUME NEW t \in Task, NEW d \in Domain, NEW details \in Details \cup {NoValue},
             Amend(t, d, details)
      PROVE  TypeInv'
  <2>1. Call(t)
    BY <1>7 DEF Amend
  <2>2. asked' \in Lists
    BY <1>7 DEF Amend, Lists
  <2>3. change' \in [Task -> Entries]
    BY <1>7 DEF Amend
  <2>4. mixed' \in BOOLEAN
    BY <1>7 DEF Amend
  <2>. QED
    BY <1>5, <1>7, <2>1, <2>2, <2>3, <2>4 DEF Amend, Goto, TaskSteps, stored, worker
<1>8. ASSUME NEW t \in Task, LoadCache(t) PROVE TypeInv'
  <2>1. change[t].details \in Details \cup {NoValue}
    BY DEF NoEntry
  <2>2. [cache EXCEPT ![change[t].domain] = change[t].details] \in Lists
    BY <2>1 DEF Lists
  <2>. QED  BY <1>8, <2>2 DEF LoadCache, Goto, TaskSteps, stored, worker, gaps, counts
<1>9. ASSUME NEW t \in Task, SaveCache(t) \/ ReadMap(t) PROVE TypeInv'
  BY <1>9 DEF SaveCache, ReadMap, Goto, TaskSteps, stored, worker, gaps, counts
<1>10. ASSUME NEW t \in Task, NEW outcome \in {"failed", "done"},
              Return(t), Boots(t, outcome)
       PROVE  /\ pc' \in [Task -> TaskSteps \cup {"idle"}]
              /\ change' \in [Task -> Entries]
              /\ list' \in [Task -> Lists] /\ seen' \in [Task -> Lists]
              /\ boot' \in {"fetching", "applying", "done", "failed"}
              /\ adapter' \in BOOLEAN
  BY <1>1, <1>10 DEF Return, Goto, Boots, worker
<1>11. ASSUME NEW t \in Task, UpdateRules(t) PROVE TypeInv'
  <2>1. CASE \A d, e \in Changed(t) : RuleIdFor(d) = RuleIdFor(e) => d = e
    <3>1. /\ rules' = {r \in rules : r.id \notin Ids(Touched(t))}
                        \cup {Rule(d, list[t][d]) : d \in Changed(t)}
          /\ torn' \subseteq torn
      BY <1>11, <2>1 DEF UpdateRules
    <3>2. /\ \A r \in rules' : /\ r.domain \in Domain /\ r.details \in Details
                               /\ r.id \in 1..IdRange
          /\ \A q, r \in rules' : q.id = r.id => q = r
      BY <2>1, <3>1, UpdateKeepsIds
    <3>3. /\ pc' = [pc EXCEPT ![t] = "keep"]
          /\ UNCHANGED <<cache, ruleMap, asked, unfinished, mixed, counts>>
          /\ UNCHANGED <<worker, change, list, seen>>
      BY <1>11, <2>1 DEF UpdateRules, Goto
    <3>. QED  BY <3>1, <3>2, <3>3 DEF TaskSteps, worker, counts
  <2>2. CASE ~ \A d, e \in Changed(t) : RuleIdFor(d) = RuleIdFor(e) => d = e
    <3>1. /\ Return(t) /\ Boots(t, "failed") /\ unfinished' = TRUE
          /\ UNCHANGED <<cache, ruleMap, rules, asked, mixed, torn, counts>>
      BY <1>11, <2>2 DEF UpdateRules
    <3>. QED  BY <1>10, <3>1 DEF counts
  <2>. QED  BY <2>1, <2>2
<1>12. ASSUME NEW t \in Task, SaveMap(t) PROVE TypeInv'
  <2>1. /\ Return(t) /\ Boots(t, "done") /\ ruleMap' = list[t] /\ unfinished' = FALSE
        /\ UNCHANGED <<cache, rules, asked, mixed, torn, counts>>
    BY <1>12 DEF SaveMap
  <2>. QED  BY <1>10, <2>1 DEF counts
<1>. QED
  BY <1>2, <1>3, <1>4, <1>6, <1>7, <1>8, <1>9, <1>11, <1>12
     DEF Next, Step, ApplyOne, RemoveDomain

LEMMA InitTypes == Init => TypeInv
<1>1. SUFFICES ASSUME Init PROVE TypeInv
  OBVIOUS
<1>2. Nothing \in Lists
  BY DEF Nothing, Lists
<1>3. /\ cache \in Lists /\ ruleMap \in Lists /\ asked \in Lists
      /\ list \in [Task -> Lists] /\ seen \in [Task -> Lists]
      /\ change \in [Task -> Entries]
      /\ pc \in [Task -> TaskSteps \cup {"idle"}]
  BY <1>1, <1>2 DEF Init, Entries
<1>4. /\ calls \in 0..MaxCalls /\ starts \in 0..MaxStarts
      /\ rules = {} /\ boot = "fetching" /\ adapter = FALSE
      /\ unfinished = FALSE /\ mixed = FALSE /\ torn = {}
  BY <1>1, SyncAssumption DEF Init
<1>5. \A t \in Task : change[t] \in Entries
  BY <1>3
<1>. QED  BY <1>3, <1>4, <1>5 DEF TypeInv, TypeOK, Entries

\* However calls overlap, wherever the worker is killed and whatever hashes
\* coincide: the stores hold lists, and Chrome's rules have ids from 1 to the
\* end of the range, each for one rule.
THEOREM SyncTypeCorrect == Spec => []TypeOK
<1>1. TypeInv /\ [Next]_vars => TypeInv'
  BY TypeInvStep
<1>2. TypeInv => TypeOK
  BY DEF TypeInv
<1>. QED  BY InitTypes, <1>1, <1>2, PTL DEF Spec

-----------------------------------------------------------------------------
(* What a set of rules says of one domain *)

\* What Chrome has about d is the rule made from these details, or nothing.
Has(d, details) ==
    {r \in rules : r.domain = d} =
        IF details = NoValue THEN {} ELSE {Rule(d, details)}

LEMMA HasShows ==
    ASSUME NEW d \in Domain, NEW details, Has(d, details)
    PROVE  Enforced[d] = details
<1>. DEFINE about == {r \in rules : r.domain = d}
<1>1. Enforced[d] = IF about = {} THEN NoValue
                    ELSE (CHOOSE r \in about : TRUE).details
  BY DEF Enforced
<1>2. CASE details = NoValue
  BY <1>1, <1>2 DEF Has
<1>3. CASE details # NoValue
  <2>1. about = {Rule(d, details)}
    BY <1>3 DEF Has
  <2>2. (CHOOSE r \in about : TRUE) = Rule(d, details)
    BY <2>1
  <2>. QED  BY <1>1, <2>1, <2>2 DEF Rule
<1>. QED  BY <1>2, <1>3

LEMMA HasShowsPrimed ==
    ASSUME NEW d \in Domain, NEW details, Has(d, details)'
    PROVE  Enforced'[d] = details
<1>. DEFINE about == {r \in rules' : r.domain = d}
<1>1. Enforced'[d] = IF about = {} THEN NoValue
                     ELSE (CHOOSE r \in about : TRUE).details
  BY DEF Enforced
<1>2. about = IF details = NoValue THEN {} ELSE {Rule(d, details)}
  BY DEF Has, Rule, RuleIdFor
<1>3. CASE details = NoValue
  BY <1>1, <1>2, <1>3
<1>4. CASE details # NoValue
  <2>1. (CHOOSE r \in about : TRUE) = Rule(d, details)
    BY <1>2, <1>4
  <2>. QED  BY <1>1, <1>2, <1>4, <2>1 DEF Rule
<1>. QED  BY <1>3, <1>4

\* What the rules redirect is a list.
LEMMA EnforcedIsList ==
    ASSUME TypeInv'
    PROVE  Enforced' \in List!Lists
<1>1. SUFFICES ASSUME NEW d \in Domain
               PROVE  (LET about == {r \in rules' : r.domain = d}
                       IN  IF about = {} THEN NoValue
                           ELSE (CHOOSE r \in about : TRUE).details)
                        \in Details \cup {NoValue}
  BY DEF Enforced, List!Lists
<1>2. \A r \in rules' : r.details \in Details
  BY DEF TypeInv, TypeOK
<1>. QED  BY <1>2

\* What it changes it sets right, whatever Chrome had before.
LEMMA UpdateTouched ==
    ASSUME NEW t \in Task, NEW d \in Domain, OwnsId(d), d \in Touched(t),
           \A r \in rules : r.id = RuleIdFor(r.domain),
           rules' = {r \in rules : r.id \notin Ids(Touched(t))}
                       \cup {Rule(e, list[t][e]) : e \in Changed(t)}
    PROVE  {r \in rules' : r.domain = d} =
              IF list[t][d] = NoValue THEN {} ELSE {Rule(d, list[t][d])}
<1>1. RuleIdFor(d) \in Ids(Touched(t))
  BY DEF Ids
<1>2. \A r \in rules : r.domain = d => r.id = RuleIdFor(d)
  OBVIOUS
<1>3. \A e \in Domain : Rule(e, list[t][e]).domain = e
  BY DEF Rule
<1>4. Changed(t) \subseteq Domain
  BY DEF Changed
<1>5. \A r \in rules' : r.domain = d => d \in Changed(t) /\ r = Rule(d, list[t][d])
  BY <1>1, <1>2, <1>3, <1>4
<1>6. CASE d \in Changed(t)
  <2>1. list[t][d] # NoValue
    BY <1>6 DEF Changed
  <2>2. Rule(d, list[t][d]) \in rules' /\ Rule(d, list[t][d]).domain = d
    BY <1>3, <1>6
  <2>. QED  BY <1>5, <2>1, <2>2
<1>7. CASE d \notin Changed(t)
  <2>1. list[t][d] = NoValue
    BY <1>7 DEF Touched, Gone
  <2>. QED  BY <1>5, <1>7, <2>1
<1>. QED  BY <1>6, <1>7

\* An update takes of a domain with an id of its own the rule that is no longer
\* right, and nothing else, whatever it does to the ids of others.
LEMMA UpdateOwn ==
    ASSUME NEW t \in Task, NEW d \in Domain, OwnsId(d), Has(d, seen[t][d]),
           \A r \in rules : r.id = RuleIdFor(r.domain),
           rules' = {r \in rules : r.id \notin Ids(Touched(t))}
                       \cup {Rule(e, list[t][e]) : e \in Changed(t)}
    PROVE  {r \in rules' : r.domain = d} =
              IF list[t][d] = NoValue THEN {} ELSE {Rule(d, list[t][d])}
<1>1. CASE d \in Touched(t)
  BY <1>1, UpdateTouched
<1>2. CASE d \notin Touched(t)
  <2>1. RuleIdFor(d) \notin Ids(Touched(t))
    BY <1>2 DEF Ids, OwnsId, Touched, Gone, Changed
  <2>2. \A e \in Changed(t) : e \in Touched(t) /\ Rule(e, list[t][e]).domain = e
    BY DEF Rule, Touched
  <2>3. \A r : r.domain = d => (r \in rules' <=> r \in rules)
    BY <1>2, <2>1, <2>2
  <2>4. list[t][d] = seen[t][d]
    BY <1>2 DEF Touched, Gone, Changed
  <2>. QED  BY <2>3, <2>4 DEF Has
<1>. QED  BY <1>1, <1>2

-----------------------------------------------------------------------------
(* The inductive invariant *)

\* Of two calls under way the later overlapped the earlier.
Apart ==
    \A s, t \in Task : s # t /\ pc[s] # "idle" /\ pc[t] # "idle"
                           => mixed /\ torn = Domain

\* What a call that nothing overlapped has done of the way from one list to
\* the next.
Progress(t) ==
    /\ pc[t] = "load" =>
          /\ change[t] \in [domain : Domain, details : Details \cup {NoValue}]
          /\ asked = [cache EXCEPT ![change[t].domain] = change[t].details]
    /\ pc[t] \in {"save", "map", "update", "keep"} => list[t] = asked
    /\ pc[t] \in {"map", "update", "keep"} => cache = asked

InLine ==
    ~ mixed =>
        /\ \A t \in Task : Progress(t)
        /\ Quiet => cache = asked /\ (unfinished \/ ruleMap = asked)

\* A call takes the map for what it was when it read it.  That is right of a
\* domain that is not torn, unless the call has since changed its rule.
Follows(t) ==
    /\ pc[t] = "update" => \A d \in Domain \ torn : seen[t][d] = ruleMap[d]
    /\ pc[t] = "keep" =>
          \A d \in Domain \ torn : d \in Touched(t) \/ seen[t][d] = ruleMap[d]

\* The map tells of every domain tracked what Chrome has; from the update to
\* the saving of the map, the list does.
Told ==
    /\ \A r \in rules : r.id = RuleIdFor(r.domain)
    /\ \A t \in Task : Follows(t)
    /\ (\A t \in Task : pc[t] # "keep") => \A d \in Tracked : Has(d, ruleMap[d])
    /\ \A t \in Task : pc[t] = "keep" => \A d \in Tracked : Has(d, list[t][d])

SyncInv == TypeInv /\ Apart /\ InLine /\ Told

LEMMA InitSync == Init => SyncInv
<1>1. SUFFICES ASSUME Init PROVE SyncInv
  OBVIOUS
<1>2. TypeInv
  BY <1>1, InitTypes
<1>3. Apart /\ InLine
  BY <1>1 DEF Init, Apart, InLine, Progress
<1>4. Told
  BY <1>1 DEF Init, Told, Follows, Tracked, Has, Nothing
<1>. QED  BY <1>2, <1>3, <1>4 DEF SyncInv

\* Where calls do not overlap, or some domain is not torn, one call at most is
\* under way.
LEMMA OneBusy ==
    ASSUME Apart, NEW t \in Task, pc[t] # "idle", ~ mixed \/ torn # Domain
    PROVE  \A u \in Task \ {t} : pc[u] = "idle"
BY DEF Apart

\* A call that begins while another is under way is recorded.
LEMMA CallStep ==
    ASSUME SyncInv, NEW t \in Task,
           \/ \E entries \in Lists : ApplyFull(t, entries)
           \/ \E d \in Domain, details \in Details \cup {NoValue} :
                 Amend(t, d, details)
    PROVE  Apart' /\ InLine' /\ Told'
<1>. DEFINE full == \E entries \in Lists : ApplyFull(t, entries)
<1>1. /\ pc[t] = "idle" /\ pc' = [pc EXCEPT ![t] = IF full THEN "save" ELSE "load"]
      /\ UNCHANGED <<cache, ruleMap, rules, seen, unfinished>>
      /\ torn' = IF Quiet THEN torn ELSE Domain
      /\ mixed' = IF full THEN ~ Quiet ELSE (mixed \/ ~ Quiet)
  <2>1. CASE full
    BY <2>1 DEF ApplyFull, Call, Goto, stored
  <2>2. CASE ~ full
    BY <2>2 DEF Amend, Call, Goto, stored
  <2>. QED  BY <2>1, <2>2
<1>2. /\ pc \in [Task -> TaskSteps \cup {"idle"}] /\ list \in [Task -> Lists]
      /\ change \in [Task -> Entries] /\ mixed \in BOOLEAN /\ torn \subseteq Domain
      /\ cache \in Lists
  BY DEF SyncInv, TypeInv, TypeOK
<1>3. pc'[t] = IF full THEN "save" ELSE "load"
  BY <1>1, <1>2
<1>4. \A u \in Task \ {t} : pc'[u] = pc[u]
  BY <1>1, <1>2
<1>. HIDE DEF full
<1>5. ~ Quiet => mixed' /\ torn' = Domain
  BY <1>1, <1>2
<1>6. Apart'
  BY <1>3, <1>4, <1>5 DEF Apart, Quiet
<1>7. InLine'
  <2>1. SUFFICES ASSUME ~ mixed'
                 PROVE  (\A u \in Task : Progress(u)') /\ ~ Quiet'
    BY DEF InLine
  <2>2. Quiet
    BY <1>5, <2>1
  <2>3. ~ Quiet'
    BY <1>3 DEF Quiet
  <2>4. \A u \in Task \ {t} : pc'[u] = "idle"
    BY <1>4, <2>2 DEF Quiet
  <2>5. Progress(t)'
    <3>1. CASE full
      <4>1. PICK entries \in Lists : ApplyFull(t, entries)
        BY <3>1 DEF full
      <4>2. list'[t] = asked'
        BY <1>2, <4>1 DEF ApplyFull
      <4>. QED  BY <1>3, <3>1, <4>2 DEF Progress
    <3>2. CASE ~ full
      <4>1. ~ mixed
        BY <1>1, <1>2, <2>1, <3>2
      <4>2. cache = asked
        BY <2>2, <4>1 DEF SyncInv, InLine
      <4>3. PICK d \in Domain, details \in Details \cup {NoValue} : Amend(t, d, details)
        BY <3>2 DEF full
      <4>4. /\ change'[t] = [domain |-> d, details |-> details]
            /\ asked' = [asked EXCEPT ![d] = details]
        BY <1>2, <4>3 DEF Amend
      <4>5. /\ change'[t] \in [domain : Domain, details : Details \cup {NoValue}]
            /\ change'[t].domain = d /\ change'[t].details = details
        BY <4>4
      <4>. QED  BY <1>1, <1>3, <3>2, <4>2, <4>4, <4>5 DEF Progress
    <3>. QED  BY <3>1, <3>2
  <2>. QED  BY <2>3, <2>4, <2>5 DEF Progress
<1>8. Told'
  <2>1. torn \subseteq torn' /\ Tracked' \subseteq Tracked
    BY <1>1, <1>2 DEF Tracked, OwnsId, RuleIdFor
  <2>2. ASSUME NEW d \in Domain \ torn' PROVE Quiet
    BY <1>1
  <2>3. \A u \in Task : Follows(u)'
    <3>1. SUFFICES ASSUME NEW d \in Domain \ torn', NEW u \in Task
                   PROVE  pc'[u] \notin {"update", "keep"}
      BY DEF Follows
    <3>2. Quiet
      BY <2>2, <3>1
    <3>. QED  BY <1>3, <1>4, <3>2 DEF Quiet
  <2>4. ASSUME NEW d \in Tracked'
        PROVE  /\ Has(d, ruleMap[d])' /\ \A u \in Task : pc'[u] # "keep"
    <3>1. Quiet /\ d \in Tracked
      BY <2>1, <2>2, <2>4 DEF Tracked
    <3>2. Has(d, ruleMap[d])
      BY <3>1 DEF SyncInv, Told, Quiet
    <3>3. Has(d, ruleMap[d])'
      BY <1>1, <3>2 DEF Has
    <3>. QED  BY <1>3, <1>4, <3>1, <3>3 DEF Quiet
  <2>5. \A r \in rules' : r.id = RuleIdFor(r.domain)
    BY <1>1 DEF SyncInv, Told
  <2>. QED  BY <2>3, <2>4, <2>5 DEF Told, RuleIdFor
<1>. QED  BY <1>6, <1>7, <1>8

\* Each step of a call brings one of the stores in line.
LEMMA EarlyStep ==
    ASSUME SyncInv, NEW t \in Task, LoadCache(t) \/ SaveCache(t) \/ ReadMap(t)
    PROVE  Apart' /\ InLine' /\ Told'
<1>1. /\ pc \in [Task -> TaskSteps \cup {"idle"}] /\ list \in [Task -> Lists]
      /\ seen \in [Task -> Lists]
  BY DEF SyncInv, TypeInv, TypeOK
<1>2. /\ pc[t] \in {"load", "save", "map"} /\ pc'[t] \in {"save", "map", "update"}
      /\ \A u \in Task \ {t} : /\ pc'[u] = pc[u] /\ list'[u] = list[u]
                               /\ seen'[u] = seen[u]
      /\ pc'[t] = "update" => seen'[t] = ruleMap
      /\ UNCHANGED <<ruleMap, rules, change, asked, unfinished, mixed, torn>>
  BY <1>1 DEF LoadCache, SaveCache, ReadMap, Goto, stored, gaps
<1>3. Apart'
  BY <1>2 DEF SyncInv, Apart
<1>4. InLine'
  <2>1. SUFFICES ASSUME ~ mixed PROVE (\A u \in Task : Progress(u)') /\ ~ Quiet'
    BY <1>2 DEF InLine
  <2>2. ~ Quiet'
    BY <1>2 DEF Quiet
  <2>3. \A u \in Task \ {t} : pc'[u] = "idle"
    BY <1>2, <2>1, OneBusy DEF SyncInv
  <2>4. Progress(t)
    BY <2>1 DEF SyncInv, InLine
  <2>5. CASE LoadCache(t)
    <3>1. list'[t] = [cache EXCEPT ![change[t].domain] = change[t].details]
          /\ pc[t] = "load" /\ pc'[t] = "save"
      BY <1>1, <2>5 DEF LoadCache, Goto
    <3>2. list'[t] = asked'
      BY <1>2, <2>4, <3>1 DEF Progress
    <3>. QED  BY <2>2, <2>3, <3>1, <3>2 DEF Progress
  <2>6. CASE SaveCache(t)
    BY <1>1, <1>2, <2>2, <2>3, <2>4, <2>6 DEF SaveCache, Goto, Progress
  <2>7. CASE ReadMap(t)
    BY <1>1, <1>2, <2>2, <2>3, <2>4, <2>7 DEF ReadMap, Goto, stored, Progress
  <2>. QED  BY <2>5, <2>6, <2>7
<1>5. Told'
  <2>1. Tracked' = Tracked /\ \A d, e : Has(d, e)' <=> Has(d, e)
    BY <1>2 DEF Tracked, OwnsId, RuleIdFor, Has, Rule
  <2>2. ASSUME NEW u \in Task PROVE Follows(u)'
    <3>1. CASE u = t
      BY <1>2, <3>1 DEF Follows
    <3>2. CASE u # t
      <4>1. Touched(u)' = Touched(u)
        BY <1>2, <3>2 DEF Touched, Gone, Changed
      <4>. QED  BY <1>2, <3>2, <4>1 DEF SyncInv, Told, Follows
    <3>. QED  BY <3>1, <3>2
  <2>3. (\A u \in Task : pc[u] # "keep") <=> (\A u \in Task : pc'[u] # "keep")
    BY <1>2
  <2>4. \A u \in Task : pc'[u] = "keep" =>
            pc[u] = "keep" /\ list'[u] = list[u]
    BY <1>2
  <2>. QED  BY <1>2, <2>1, <2>2, <2>3, <2>4 DEF SyncInv, Told, RuleIdFor
<1>. QED  BY <1>3, <1>4, <1>5

\* The update Chrome takes: of a domain that is tracked from now on, the rules
\* are what the list says, for it was tracked before or has just been changed.
LEMMA UpdateStep ==
    ASSUME SyncInv, NEW t \in Task, UpdateRules(t),
           \A d, e \in Changed(t) : RuleIdFor(d) = RuleIdFor(e) => d = e
    PROVE  /\ Apart' /\ InLine' /\ Told'
           /\ \A d \in Tracked' : Has(d, list[t][d])'
<1>1. /\ pc \in [Task -> TaskSteps \cup {"idle"}] /\ list \in [Task -> Lists]
      /\ seen \in [Task -> Lists] /\ torn \subseteq Domain
  BY DEF SyncInv, TypeInv, TypeOK
<1>2. /\ rules' = {r \in rules : r.id \notin Ids(Touched(t))}
                    \cup {Rule(d, list[t][d]) : d \in Changed(t)}
      /\ pc[t] = "update" /\ pc' = [pc EXCEPT ![t] = "keep"]
      /\ torn' = IF Alone(t) THEN torn \ Touched(t) ELSE torn
      /\ UNCHANGED <<cache, ruleMap, change, list, seen, asked, unfinished, mixed>>
  BY DEF UpdateRules, Goto
<1>3. pc'[t] = "keep" /\ \A u \in Task \ {t} : pc'[u] = pc[u]
  BY <1>1, <1>2
<1>4. ~ mixed \/ torn # Domain => Alone(t)
  BY <1>2, OneBusy DEF SyncInv, Alone
<1>5. Apart'
  BY <1>2, <1>3 DEF SyncInv, Apart, Alone
<1>6. InLine'
  <2>1. SUFFICES ASSUME ~ mixed PROVE (\A u \in Task : Progress(u)') /\ ~ Quiet'
    BY <1>2 DEF InLine
  <2>2. Progress(t) /\ \A u \in Task \ {t} : pc[u] = "idle"
    BY <1>4, <2>1 DEF SyncInv, InLine, Alone
  <2>. QED  BY <1>2, <1>3, <2>2 DEF Progress, Quiet
<1>7. \A d \in Domain : d \notin torn' => Alone(t) /\ (d \notin torn \/ d \in Touched(t))
  BY <1>2, <1>4
<1>8. ASSUME NEW u \in Task, u # t, pc'[u] # "idle" PROVE torn' = Domain
  BY <1>2, <1>3, <1>4, <1>8 DEF Alone
<1>9. \A r \in rules : r.id = RuleIdFor(r.domain)
  BY DEF SyncInv, Told
<1>10. \A r \in rules' : r.id = RuleIdFor(r.domain)
  BY <1>2, <1>9 DEF Rule
<1>11. ASSUME NEW d \in Tracked' PROVE Has(d, list[t][d])'
  <2>1. d \in Domain /\ OwnsId(d) /\ d \notin torn'
    BY <1>11 DEF Tracked, OwnsId, RuleIdFor
  <2>2. CASE d \notin torn
    <3>1. seen[t][d] = ruleMap[d] /\ d \in Tracked
      BY <1>2, <2>1, <2>2 DEF SyncInv, Told, Follows, Tracked
    <3>2. \A u \in Task : pc[u] # "keep"
      BY <1>2, <1>7, <2>1 DEF Alone
    <3>3. Has(d, seen[t][d])
      BY <3>1, <3>2 DEF SyncInv, Told
    <3>. QED  BY <1>2, <1>9, <2>1, <3>3, UpdateOwn DEF Has
  <2>3. CASE d \in torn
    <3>1. d \in Touched(t)
      BY <1>7, <2>1, <2>3
    <3>. QED  BY <1>2, <1>9, <2>1, <3>1, UpdateTouched DEF Has
  <2>. QED  BY <2>2, <2>3
<1>12. Told'
  <2>1. ASSUME NEW u \in Task PROVE Follows(u)'
    <3>1. CASE u = t
      <4>1. Touched(t)' = Touched(t)
        BY <1>2 DEF Touched, Gone, Changed
      <4>2. \A d \in Domain \ torn' : d \in Touched(t) \/ seen[t][d] = ruleMap[d]
        BY <1>2, <1>7 DEF SyncInv, Told, Follows
      <4>. QED  BY <1>2, <1>3, <3>1, <4>1, <4>2 DEF Follows
    <3>2. CASE u # t
      BY <1>8, <3>2 DEF Follows
    <3>. QED  BY <3>1, <3>2
  <2>2. \A u \in Task : pc'[u] = "keep" => \A d \in Tracked' : Has(d, list[u][d])'
    BY <1>8, <1>11 DEF Tracked
  <2>. QED  BY <1>3, <1>10, <2>1, <2>2 DEF Told, RuleIdFor
<1>. QED  BY <1>5, <1>6, <1>11, <1>12

\* The call returns: with the map saved, or with an exception.
LEMMA ReturnStep ==
    ASSUME SyncInv, NEW t \in Task, Return(t),
           UNCHANGED <<cache, rules, asked, mixed, torn>>,
           \/ pc[t] = "keep" /\ ruleMap' = list[t]
           \/ pc[t] = "update" /\ ruleMap' = ruleMap /\ unfinished' = TRUE
    PROVE  Apart' /\ InLine' /\ Told'
<1>1. pc \in [Task -> TaskSteps \cup {"idle"}] /\ list \in [Task -> Lists]
      /\ seen \in [Task -> Lists] /\ change \in [Task -> Entries]
  BY DEF SyncInv, TypeInv, TypeOK
<1>2. /\ pc'[t] = "idle"
      /\ \A u \in Task \ {t} : /\ pc'[u] = pc[u] /\ list'[u] = list[u]
                               /\ seen'[u] = seen[u] /\ change'[u] = change[u]
  BY <1>1 DEF Return, Goto
<1>3. Apart'
  BY <1>2 DEF SyncInv, Apart
<1>4. ~ mixed \/ torn # Domain => \A u \in Task : pc'[u] = "idle"
  BY <1>2, OneBusy DEF SyncInv
<1>5. InLine'
  <2>1. SUFFICES ASSUME ~ mixed
                 PROVE  /\ \A u \in Task : Progress(u)'
                        /\ cache' = asked' /\ (unfinished' \/ ruleMap' = asked')
    BY DEF InLine
  <2>2. Progress(t)
    BY <2>1 DEF SyncInv, InLine
  <2>. QED  BY <1>4, <2>1, <2>2 DEF Progress
<1>6. Tracked' = Tracked /\ \A d, e : Has(d, e)' <=> Has(d, e)
  BY DEF Tracked, OwnsId, RuleIdFor, Has, Rule
<1>7. Told'
  <2>1. CASE torn = Domain
    <3>1. Tracked' = {}
      BY <1>6, <2>1 DEF Tracked
    <3>. QED  BY <2>1, <3>1 DEF SyncInv, Told, Follows, RuleIdFor
  <2>2. CASE torn # Domain
    <3>1. \A u \in Task : pc'[u] = "idle"
      BY <1>4, <2>2
    <3>2. ASSUME NEW d \in Tracked PROVE Has(d, ruleMap'[d])
      <4>1. CASE pc[t] = "keep"
        BY <3>2, <4>1 DEF SyncInv, Told
      <4>2. CASE pc[t] = "update"
        <5>1. \A u \in Task : pc[u] # "keep"
          BY <1>2, <3>1, <4>2
        <5>. QED  BY <3>2, <4>2, <5>1 DEF SyncInv, Told
      <4>. QED  BY <4>1, <4>2
    <3>. QED  BY <1>6, <3>1, <3>2 DEF SyncInv, Told, Follows, RuleIdFor
  <2>. QED  BY <2>1, <2>2
<1>. QED  BY <1>3, <1>5, <1>7

\* The worker ends: what the call that had made its rules changed is torn.
LEMMA RestartStep ==
    ASSUME SyncInv, Restart
    PROVE  Apart' /\ InLine' /\ Told'
<1>1. /\ \A t \in Task : pc'[t] = "idle"
      /\ asked' = (IF Quiet THEN asked ELSE cache)
      /\ unfinished' = (unfinished \/ ~ Quiet)
      /\ torn' = torn \cup UNION {Touched(t) : t \in {u \in Task : pc[u] = "keep"}}
      /\ UNCHANGED <<cache, ruleMap, rules, mixed>>
  BY DEF Restart, stored
<1>2. Apart' /\ InLine'
  BY <1>1 DEF SyncInv, Apart, InLine, Progress
<1>3. ASSUME NEW d \in Tracked' PROVE Has(d, ruleMap[d])
  <2>1. /\ d \in Tracked /\ d \notin torn
        /\ \A u \in Task : pc[u] = "keep" => d \notin Touched(u)
    BY <1>1, <1>3 DEF Tracked, OwnsId, RuleIdFor
  <2>2. CASE \A u \in Task : pc[u] # "keep"
    BY <2>1, <2>2 DEF SyncInv, Told
  <2>3. ASSUME NEW u \in Task, pc[u] = "keep" PROVE Has(d, ruleMap[d])
    <3>1. d \in Domain /\ d \notin Touched(u)
      BY <2>1, <2>3 DEF Tracked
    <3>2. seen[u][d] = ruleMap[d]
      BY <2>1, <2>3, <3>1 DEF SyncInv, Told, Follows
    <3>3. list[u][d] = seen[u][d]
      BY <3>1 DEF Touched, Gone, Changed
    <3>. QED  BY <2>1, <2>3, <3>2, <3>3 DEF SyncInv, Told
  <2>. QED  BY <2>2, <2>3
<1>4. \A d, e : Has(d, e)' <=> Has(d, e)
  BY <1>1 DEF Has, Rule, RuleIdFor
<1>. QED  BY <1>1, <1>2, <1>3, <1>4 DEF SyncInv, Told, Follows, RuleIdFor

LEMMA SyncStep ==
    ASSUME SyncInv, [Next]_vars
    PROVE  SyncInv'
<1>1. TypeInv'
  BY TypeInvStep DEF SyncInv
<1>2. SUFFICES Apart' /\ InLine' /\ Told'
  BY <1>1 DEF SyncInv
<1>3. CASE UNCHANGED vars \/ FetchFails \/ SetAdapterMode
  <2>1. UNCHANGED <<stored, locals, asked, gaps>>
    BY <1>3 DEF vars, FetchFails, SetAdapterMode
  <2>2. /\ UNCHANGED <<cache, ruleMap, rules, pc, change, list, seen, asked>>
        /\ UNCHANGED <<unfinished, mixed, torn>>
    BY <2>1 DEF stored, locals, gaps
  <2>3. Tracked' = Tracked /\ \A d, e : Has(d, e)' <=> Has(d, e)
    BY <2>2 DEF Tracked, OwnsId, RuleIdFor, Has, Rule
  <2>4. \A t \in Task : Touched(t)' = Touched(t) /\ (Progress(t)' <=> Progress(t))
    BY <2>2 DEF Touched, Gone, Changed, Progress
  <2>5. Apart' /\ InLine'
    BY <2>2, <2>4 DEF SyncInv, Apart, InLine, Quiet
  <2>6. \A t \in Task : Follows(t)'
    BY <2>2, <2>4 DEF SyncInv, Told, Follows
  <2>7. Told'
    BY <2>2, <2>3, <2>6 DEF SyncInv, Told, RuleIdFor
  <2>. QED  BY <2>5, <2>7
<1>4. CASE Restart
  BY <1>4, RestartStep
<1>5. ASSUME NEW t \in Task,
             \/ \E entries \in Lists : ApplyFull(t, entries)
             \/ \E d \in Domain, details \in Details : ApplyOne(t, d, details)
             \/ \E d \in Domain : RemoveDomain(t, d)
      PROVE  Apart' /\ InLine' /\ Told'
  BY <1>5, CallStep DEF ApplyOne, RemoveDomain
<1>6. ASSUME NEW t \in Task, Step(t) PROVE Apart' /\ InLine' /\ Told'
  <2>1. CASE LoadCache(t) \/ SaveCache(t) \/ ReadMap(t)
    BY <2>1, EarlyStep
  <2>2. CASE UpdateRules(t)
    <3>1. CASE \A d, e \in Changed(t) : RuleIdFor(d) = RuleIdFor(e) => d = e
      BY <2>2, <3>1, UpdateStep
    <3>2. CASE ~ \A d, e \in Changed(t) : RuleIdFor(d) = RuleIdFor(e) => d = e
      <4>1. /\ pc[t] = "update" /\ Return(t) /\ ruleMap' = ruleMap
            /\ unfinished' = TRUE
            /\ UNCHANGED <<cache, rules, asked, mixed, torn>>
        BY <2>2, <3>2 DEF UpdateRules
      <4>. QED  BY <4>1, ReturnStep
    <3>. QED  BY <3>1, <3>2
  <2>3. CASE SaveMap(t)
    BY <2>3, ReturnStep DEF SaveMap
  <2>. QED  BY <1>6, <2>1, <2>2, <2>3 DEF Step
<1>. QED  BY <1>3, <1>4, <1>5, <1>6 DEF Next

LEMMA SyncInvariant == Spec => []SyncInv
BY InitSync, SyncStep, PTL DEF Spec

-----------------------------------------------------------------------------
(* What it means for the browser *)

\* However often the worker is killed and calls overlap, once all calls have
\* returned, none was killed or rejected last, and a boot has had the stores
\* for itself since the last overlap: what the calls ask for is in the cache,
\* in the rule map and, for each domain tracked, in Chrome.
THEOREM CallsTakeEffectHolds == Spec => []CallsTakeEffect
<1>1. SyncInv => CallsTakeEffect
  <2>1. SUFFICES ASSUME SyncInv, Quiet, ~ unfinished, ~ mixed
                 PROVE  /\ asked = cache /\ asked = ruleMap
                        /\ \A d \in Tracked : Enforced[d] = asked[d]
    BY DEF CallsTakeEffect
  <2>2. asked = cache /\ asked = ruleMap
    BY <2>1 DEF SyncInv, InLine
  <2>3. \A d \in Tracked : d \in Domain /\ Has(d, ruleMap[d])
    BY <2>1 DEF SyncInv, Told, Quiet, Tracked
  <2>. QED  BY <2>2, <2>3, HasShows
<1>. QED  BY <1>1, SyncInvariant, PTL

\* The stored rule map, from which a restarted worker computes what to add and
\* what to remove, is for each domain tracked what Chrome redirects: two
\* domains with one id disturb each other's rules only, an update Chrome
\* rejects disturbs none, and a kill only those of the call it ended.
THEOREM MapAlwaysTells == Spec => []MapTellsRules
<1>1. SyncInv => MapTellsRules
  <2>1. SUFFICES ASSUME SyncInv, \A t \in Task : pc[t] # "keep", NEW d \in Tracked
                 PROVE  Enforced[d] = ruleMap[d]
    BY DEF MapTellsRules
  <2>2. d \in Domain /\ Has(d, ruleMap[d])
    BY <2>1 DEF SyncInv, Told, Tracked
  <2>. QED  BY <2>2, HasShows
<1>. QED  BY <1>1, SyncInvariant, PTL

\* Whatever is killed or overlaps, the redirects of the domains tracked change
\* only to what the calls ask for, all at once.
THEOREM Refinement == Spec => RefinesList
<1>. DEFINE held == IF mixed THEN {} ELSE Tracked
<1>1. held \subseteq Domain /\ held' \subseteq Domain
  BY DEF Tracked
<1>2. Init => List!Init
  BY <1>1 DEF Init, List!Init, Nothing, Enforced
<1>3. ASSUME SyncInv, SyncInv', [Next]_vars
      PROVE  [List!Next]_(List!vars)
  <2>1. asked' \in Lists
    BY <1>3 DEF SyncInv, TypeInv, TypeOK
  <2>2. CASE UNCHANGED rules
    <3>1. Enforced' = Enforced
      BY <2>2 DEF Enforced
    <3>. QED  BY <1>1, <2>1, <3>1 DEF List!Next, List!Ask, List!Lists, Lists
  <2>3. ASSUME NEW t \in Task, UpdateRules(t), ~ UNCHANGED rules
        PROVE  List!Enforce
    <3>1. \A d, e \in Changed(t) : RuleIdFor(d) = RuleIdFor(e) => d = e
      BY <2>3 DEF UpdateRules
    <3>2. /\ pc[t] = "update" /\ asked' = asked /\ mixed' = mixed /\ list' = list
      BY <2>3, <3>1 DEF UpdateRules
    <3>3. Enforced' \in List!Lists
      BY <1>3, EnforcedIsList DEF SyncInv
    <3>4. ASSUME NEW d \in held' PROVE Enforced'[d] = asked[d]
      <4>1. ~ mixed /\ d \in Tracked' /\ d \in Domain
        BY <1>1, <3>2, <3>4
      <4>2. Has(d, list[t][d])'
        BY <1>3, <2>3, <3>1, <4>1, UpdateStep
      <4>3. list[t] = asked
        BY <1>3, <3>2, <4>1 DEF SyncInv, InLine, Progress
      <4>4. Enforced'[d] = list'[t][d]
        BY <4>1, <4>2, HasShowsPrimed
      <4>. QED  BY <3>2, <4>3, <4>4
    <3>. QED  BY <1>1, <3>2, <3>3, <3>4 DEF List!Enforce
  <2>. QED
    BY <1>3, <2>2, <2>3
       DEF Next, Step, Restart, FetchFails, SetAdapterMode, ApplyFull, ApplyOne,
           RemoveDomain, Amend, LoadCache, SaveCache, ReadMap, SaveMap, stored, vars,
           List!Next
<1>. QED  BY <1>2, <1>3, InitSync, SyncStep, PTL DEF Spec, RefinesList, List!Spec
=============================================================================
