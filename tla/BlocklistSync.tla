---------------------------- MODULE BlocklistSync ----------------------------
(***************************************************************************)
(* The extension's copy of the blocklist (blocker/lib/blocklist.js and      *)
(* rules.js) and the boot sequence of its service worker (background.js).   *)
(* The cache and the rule map live in chrome.storage.local, the redirects   *)
(* in Chrome's dynamic rules; no two of the three change in one step.       *)
(*                                                                          *)
(* A task is one call of applyFull, applyOne or removeDomain.  JavaScript   *)
(* runs one task at a time but switches at every await, and nobody awaits   *)
(* the calls the adapters make: tasks interleave at each storage or rules   *)
(* operation, which is a step here.                                         *)
(*                                                                          *)
(* The details of an entry (confidence, reason, matched fields) are what    *)
(* signatureOf compares; a domain without an entry has NoValue.             *)
(***************************************************************************)
EXTENDS Integers, FiniteSets

CONSTANTS
    Domain, Details, NoValue,
    Task,       \* calls in flight at a time
    Hash,       \* [Domain -> Nat]: the 32-bit string hash of each domain
    IdRange,    \* 0x3fffffff in the code
    MaxCalls,   \* bound: calls over a behaviour
    MaxStarts   \* bound: starts of the worker after the first

TaskSteps == {"load", "save", "map", "update", "keep"}

ASSUME SyncAssumption ==
    /\ NoValue \notin Details /\ NoValue \notin Domain
    /\ Hash \in [Domain -> Nat]
    /\ IdRange \in Nat \ {0}
    /\ MaxCalls \in Nat /\ MaxStarts \in Nat

VARIABLES
    cache,      \* blocklistCache
    ruleMap,    \* ruleMap as it is stored: the details each rule was made with
    rules,      \* Chrome's dynamic rules
    pc,         \* where each task stands
    change,     \* the entry applyOne or removeDomain is about
    list,       \* the entries a task saves and syncs
    seen,       \* the rule map a task has read
    boot,       \* bootPromise: "fetching", "applying", "done" or "failed"
    adapter,    \* whether an adapter is running, so that verdict events come
    asked,      \* history: what the calls, in the order they were made, ask for
    unfinished, \* history: a call was killed or rejected, none returned since
    mixed,      \* history: calls overlapped, no boot has had the stores alone since
    torn,       \* history: domains whose rules the map may have lost track of
    calls,      \* history: for the bound
    starts      \* history: for the bound

stored == <<cache, ruleMap, rules>>
worker == <<boot, adapter>>
locals == <<pc, change, list, seen>>
gaps   == <<unfinished, mixed, torn>>
counts == <<calls, starts>>
vars   == <<stored, worker, locals, asked, gaps, counts>>

Lists   == [Domain -> Details \cup {NoValue}]
Nothing == [d \in Domain |-> NoValue]
NoEntry == [domain |-> NoValue, details |-> NoValue]

\* Mutant: the ids start at 0, which Chrome does not take.
ZeroBased(d) == Hash[d] % IdRange

RuleIdFor(d) == (Hash[d] % IdRange) + 1

Ids(domains) == {RuleIdFor(d) : d \in domains}

Rule(d, details) == [id |-> RuleIdFor(d), domain |-> d, details |-> details]

Init ==
    /\ cache = Nothing /\ ruleMap = Nothing /\ rules = {}
    /\ pc = [t \in Task |-> "idle"]
    /\ change = [t \in Task |-> NoEntry]
    /\ list = [t \in Task |-> Nothing]
    /\ seen = [t \in Task |-> Nothing]
    /\ boot = "fetching" /\ adapter = FALSE
    /\ asked = Nothing
    /\ unfinished = FALSE /\ mixed = FALSE /\ torn = {}
    /\ calls = 0 /\ starts = 0

Quiet == \A t \in Task : pc[t] = "idle"

Goto(t, step) == pc' = [pc EXCEPT ![t] = step]

Return(t) ==
    /\ Goto(t, "idle")
    /\ change' = [change EXCEPT ![t] = NoEntry]
    /\ list' = [list EXCEPT ![t] = Nothing]
    /\ seen' = [seen EXCEPT ![t] = Nothing]

-----------------------------------------------------------------------------
(* The service worker *)

\* Domains of the map that are no longer wanted ...
Gone(t) == {d \in Domain : seen[t][d] # NoValue /\ list[t][d] = NoValue}

\* Mutant: an entry the map has is skipped, whatever its details.
OnlyNew(t) == {d \in Domain : list[t][d] # NoValue /\ seen[t][d] = NoValue}

\* ... and entries the map does not have, or has with other details.
Changed(t) == {d \in Domain : list[t][d] # NoValue /\ seen[t][d] # list[t][d]}

Touched(t) == Gone(t) \cup Changed(t)

\* Chrome ends the worker, idle or in the middle of any call, and starts it
\* again: module state is lost, storage and rules are not, boot() runs anew.
\* Of a call that had not saved its cache nothing is left, so it counts as
\* never made.  Of one that had made its rules and not saved the map, the map
\* does not tell, and the later calls that read it need not find out.
Restart ==
    /\ boot # "fetching"
    /\ starts < MaxStarts
    /\ starts' = starts + 1
    /\ asked' = IF Quiet THEN asked ELSE cache
    /\ unfinished' = (unfinished \/ ~ Quiet)
    /\ torn' = torn \cup UNION {Touched(t) : t \in {u \in Task : pc[u] = "keep"}}
    /\ boot' = "fetching" /\ adapter' = FALSE
    /\ pc' = [t \in Task |-> "idle"]
    /\ change' = [t \in Task |-> NoEntry]
    /\ list' = [t \in Task |-> Nothing]
    /\ seen' = [t \in Task |-> Nothing]
    /\ UNCHANGED <<stored, mixed, calls>>

\* fetch throws: bootPromise stays rejected for as long as the worker lives.
FetchFails ==
    /\ boot = "fetching"
    /\ boot' = "failed"
    /\ UNCHANGED <<stored, adapter, locals, asked, gaps, counts>>

\* SET_ADAPTER_MODE starts an adapter, whatever became of the boot.
SetAdapterMode ==
    /\ adapter' = TRUE
    /\ UNCHANGED <<stored, boot, locals, asked, gaps, counts>>

-----------------------------------------------------------------------------
(* The calls *)

\* Of calls that overlap each may write over what another has done: the one
\* that saves last decides, and no domain's rule is sure to be in the map.
\* Which free slot a call takes makes no difference.
Call(t) ==
    /\ pc[t] = "idle" /\ t = CHOOSE u \in Task : pc[u] = "idle"
    /\ calls < MaxCalls
    /\ calls' = calls + 1
    /\ torn' = IF Quiet THEN torn ELSE Domain
    /\ UNCHANGED <<unfinished, starts>>

\* boot, with whatever fetchFull got, an empty list after an error included.
ApplyFull(t, entries) ==
    /\ Call(t)
    /\ boot = "fetching"
    /\ boot' = "applying"
    /\ asked' = entries
    /\ mixed' = ~ Quiet
    /\ list' = [list EXCEPT ![t] = entries]
    /\ Goto(t, "save")
    /\ UNCHANGED <<stored, adapter, change, seen>>

\* applyOne and removeDomain differ in whether an entry takes the place of the
\* one that is filtered out.
Amend(t, d, details) ==
    /\ Call(t)
    /\ asked' = [asked EXCEPT ![d] = details]
    /\ mixed' = (mixed \/ ~ Quiet)
    /\ change' = [change EXCEPT ![t] = [domain |-> d, details |-> details]]
    /\ Goto(t, "load")
    /\ UNCHANGED <<stored, worker, list, seen>>

\* A verdict event, from either adapter.
ApplyOne(t, d, details) == adapter /\ details \in Details /\ Amend(t, d, details)

\* The message UNBLOCK_DOMAIN of the block page.
RemoveDomain(t, d) == Amend(t, d, NoValue)

\* What follows the await of applyFull in boot, if task t is the boot.
Boots(t, outcome) ==
    IF change[t] = NoEntry
    THEN boot' = outcome /\ adapter' = (adapter \/ outcome = "done")
    ELSE UNCHANGED worker

-----------------------------------------------------------------------------
(* Their steps *)

LoadCache(t) ==
    /\ pc[t] = "load"
    /\ list' = [list EXCEPT ![t] =
                  [cache EXCEPT ![change[t].domain] = change[t].details]]
    /\ Goto(t, "save")
    /\ UNCHANGED <<stored, worker, change, seen, asked, gaps, counts>>

SaveCache(t) ==
    /\ pc[t] = "save"
    /\ cache' = list[t]
    /\ Goto(t, "map")
    /\ UNCHANGED <<ruleMap, rules, worker, change, list, seen, asked, gaps, counts>>

(* syncRules *)

\* Mutant: the map is saved before the rules it tells of are made.
SaveAhead(t) ==
    /\ pc[t] = "map"
    /\ seen' = [seen EXCEPT ![t] = ruleMap]
    /\ ruleMap' = list[t]
    /\ Goto(t, "update")
    /\ UNCHANGED <<cache, rules, worker, change, list, asked, gaps, counts>>

ReadMap(t) ==
    /\ pc[t] = "map"
    /\ seen' = [seen EXCEPT ![t] = ruleMap]
    /\ Goto(t, "update")
    /\ UNCHANGED <<stored, worker, change, list, asked, gaps, counts>>

\* Mutant: a call that removes and, only after it, a call that adds.
RemoveFirst(t) ==
    LET first == \E r \in rules : r.id \in Ids(Touched(t))
    IN  /\ pc[t] = "update"
        /\ rules' = IF first
                    THEN {r \in rules : r.id \notin Ids(Touched(t))}
                    ELSE rules \cup {Rule(d, list[t][d]) : d \in Changed(t)}
        /\ IF first THEN UNCHANGED pc ELSE Goto(t, "keep")
        /\ UNCHANGED <<cache, ruleMap, worker, change, list, seen, asked, gaps, counts>>

\* No other call is under way.
Alone(t) == \A u \in Task \ {t} : pc[u] = "idle"

\* One call of updateDynamicRules: Chrome takes all of it or, when two of the
\* rules to add have one id, rejects it, and the exception ends the task.
UpdateRules(t) ==
    /\ pc[t] = "update"
    /\ IF \A d, e \in Changed(t) : RuleIdFor(d) = RuleIdFor(e) => d = e
       THEN /\ rules' = {r \in rules : r.id \notin Ids(Touched(t))}
                          \cup {Rule(d, list[t][d]) : d \in Changed(t)}
            /\ Goto(t, "keep")
            /\ torn' = IF Alone(t) THEN torn \ Touched(t) ELSE torn
            /\ UNCHANGED <<worker, change, list, seen, unfinished>>
       ELSE /\ Return(t) /\ Boots(t, "failed")
            /\ unfinished' = TRUE
            /\ UNCHANGED <<rules, torn>>
    /\ UNCHANGED <<cache, ruleMap, asked, mixed, counts>>

\* Mutant: the map is saved only when there were rules to add.
KeepAdditions(t) ==
    /\ pc[t] = "keep"
    /\ ruleMap' = IF Changed(t) # {} THEN list[t] ELSE ruleMap
    /\ unfinished' = FALSE
    /\ Return(t)
    /\ Boots(t, "done")
    /\ UNCHANGED <<cache, rules, asked, mixed, torn, counts>>

\* The map in memory now has exactly the entries of the list.
SaveMap(t) ==
    /\ pc[t] = "keep"
    /\ ruleMap' = list[t]
    /\ unfinished' = FALSE
    /\ Return(t)
    /\ Boots(t, "done")
    /\ UNCHANGED <<cache, rules, asked, mixed, torn, counts>>

-----------------------------------------------------------------------------
Step(t) ==
    \/ LoadCache(t) \/ SaveCache(t)
    \/ ReadMap(t) \/ UpdateRules(t) \/ SaveMap(t)

Next ==
    \/ Restart \/ FetchFails \/ SetAdapterMode
    \/ \E t \in Task :
        \/ \E entries \in Lists : ApplyFull(t, entries)
        \/ \E d \in Domain, details \in Details : ApplyOne(t, d, details)
        \/ \E d \in Domain : RemoveDomain(t, d)
        \/ Step(t)

Spec == Init /\ [][Next]_vars

\* Chrome answers every storage and rules call.
FairSpec == Spec /\ \A t \in Task : WF_vars(Step(t))

-----------------------------------------------------------------------------
(* Properties *)

\* Every variable holds a value of its kind; Chrome takes ids from 1 on, each
\* for one rule.
TypeOK ==
    /\ cache \in Lists /\ ruleMap \in Lists /\ asked \in Lists
    /\ \A r \in rules : /\ r.domain \in Domain /\ r.details \in Details
                        /\ r.id \in 1..IdRange
    /\ \A q, r \in rules : q.id = r.id => q = r
    /\ boot \in {"fetching", "applying", "done", "failed"}
    /\ adapter \in BOOLEAN
    /\ unfinished \in BOOLEAN /\ mixed \in BOOLEAN /\ torn \subseteq Domain
    /\ pc \in [Task -> TaskSteps \cup {"idle"}]
    /\ \A t \in Task :
          change[t] \in {NoEntry} \cup
                        [domain : Domain, details : Details \cup {NoValue}]
    /\ list \in [Task -> Lists]
    /\ seen \in [Task -> Lists]
    /\ calls \in 0..MaxCalls /\ starts \in 0..MaxStarts

\* What a user of the browser meets: the details on the block page of each
\* domain, NoValue where the site opens.
Enforced ==
    [d \in Domain |->
        LET about == {r \in rules : r.domain = d}
        IN  IF about = {} THEN NoValue ELSE (CHOOSE r \in about : TRUE).details]

\* No other domain hashes to the id of d.
OwnsId(d) == \A e \in Domain : RuleIdFor(e) = RuleIdFor(d) => e = d

\* The domains the rule map can be held to.  A domain falls out when a kill
\* comes between updateDynamicRules and the saving of the map while the call
\* changes its rule, and when calls overlap; it is back once a call that runs
\* alone has made or removed its rule, which no call need do.
Tracked == {d \in Domain : OwnsId(d)} \ torn

\* When all calls have returned, what they asked for is in the cache, in the
\* rule map and, for the domains tracked, in Chrome: none that was blocked by
\* a verdict event is open, none that was unblocked still redirects.  A kill
\* or a rejected update upsets this until some call returns, whatever it is
\* about; an overlap, until a boot has replaced the cache with nothing else
\* under way.
CallsTakeEffect ==
    Quiet /\ ~ unfinished /\ ~ mixed =>
        /\ asked = cache /\ asked = ruleMap
        /\ \A d \in Tracked : Enforced[d] = asked[d]

\* The rule map, which decides what later syncs skip and remove, tells of each
\* domain tracked exactly what Chrome redirects, except between
\* updateDynamicRules and the saving of the map.
MapTellsRules ==
    (\A t \in Task : pc[t] # "keep") =>
        \A d \in Tracked : Enforced[d] = ruleMap[d]

\* docs/TASKS.md:628, "a stuck block after clicking "salah" is an ugly demo
\* moment": what a user unblocked does not redirect once all calls are done.
NoStuckBlock ==
    Quiet => \A d \in Domain : asked[d] = NoValue => Enforced[d] = NoValue

\* The redirects of the domains tracked move from list to list in one step,
\* unless calls have overlapped.
List == INSTANCE EnforcedList
            WITH enforced <- Enforced, held <- IF mixed THEN {} ELSE Tracked

RefinesList == List!Spec

\* What verdict events and boots ask for becomes rules: a domain with an entry
\* comes to redirect with the details last asked for, unless it is taken back,
\* a call is killed, rejected or overlapped, or the map has lost track of the
\* domain, so that the call may skip it.
EventsEnforced ==
    \A d \in Domain :
        (asked[d] # NoValue)
        ~> \/ asked[d] \in {NoValue, Enforced[d]}
           \/ unfinished \/ mixed \/ d \notin Tracked
=============================================================================
