---------------------------- MODULE Orchestrator ----------------------------
(***************************************************************************)
(* One call of Orchestrator.Run (internal/orchestrator/orchestrator.go).   *)
(* The main goroutine filters and splits the collectors, runs the Tier 1   *)
(* ones, then the Tier 2/3 ones, merges and sorts what they appended to    *)
(* the mutex-protected result maps, and returns the report.  Around it run *)
(* one goroutine per collector, the goroutine that waits for a signal, and *)
(* the environment: signals, the deadline of the context, the caller's own *)
(* cancellation, and tool binaries that appear or vanish.                  *)
(***************************************************************************)
EXTENDS Integers, Sequences, FiniteSets, TLC

CONSTANTS
    Light,       \* Tier 1 collectors (procfs), always available
    BCC,         \* Tier 2 collectors (one BCC tool each)
    Native,      \* Tier 3 collectors (eBPF program read in-process)
    CategoryOf,  \* Category() of a collector
    Rank,        \* position of a collector's name in the string order
    Configs,     \* the configurations a run may be started with
    NoOne        \* the mutex is free

Collectors == Light \cup BCC \cup Native
Heavy == BCC \cup Native
Categories == {CategoryOf[c] : c \in Collectors}

ASSUME TiersAssumption ==
    /\ Light \cap Heavy = {}
    /\ BCC \cap Native = {}
    /\ IsFiniteSet(Collectors)
    /\ NoOne \notin Collectors

ASSUME NamesAssumption ==
    /\ DOMAIN CategoryOf = Collectors
    /\ Rank \in [Collectors -> Nat]
    /\ \A c, d \in Collectors : Rank[c] = Rank[d] => c = d

ASSUME ConfigsAssumption ==
    \A cfg \in Configs : cfg.profile \subseteq Collectors

VARIABLES
    config,     \* o.config: the profile's collector list and the focus areas
    avail,      \* what Available().Tier answers now, 0 when unavailable
    runPc,      \* where Run is
    phase,      \* the runCollectorsParallel call: 1 or 2
    active,     \* result of filterCollectors
    tier1,      \* the split of active
    tier23,
    toSpawn,    \* collectors the loop of runCollectorsParallel has left
    wg,         \* the WaitGroup counter
    goroutine,  \* per collector: where its goroutine is
    outcome,    \* per collector: how Collect returned
    mu,         \* holder of the mutex
    slice,      \* per collector: results[category] as read under the mutex
    results,    \* the maps of both calls
    report,     \* report.Categories
    cancelled,  \* ctx.Err() != nil
    sigCh,      \* signals in the channel (buffer of one)
    sigDone     \* the signal goroutine has exited

main == <<config, runPc, phase, active, tier1, tier23, toSpawn, report>>
vars == <<config, avail, runPc, phase, active, tier1, tier23, toSpawn, wg,
          goroutine, outcome, mu, slice, results, report, cancelled, sigCh,
          sigDone>>

Outcomes == {"ok", "nil", "err", "panic"}
Results == [collector : Collectors, kind : Outcomes \ {"nil"}]

\* A goroutine exists from the go statement to its deferred wg.Done().
Live == {c \in Collectors : goroutine[c] \notin {"idle", "done"}}

TypeOK ==
    /\ config \in Configs
    /\ avail \in [Collectors -> 0..3]
    /\ runPc \in {"filter", "split", "collect", "check", "merge", "await",
                  "returned"}
    /\ phase \in 1..2
    /\ active \subseteq Collectors
    /\ tier1 \subseteq Collectors
    /\ tier23 \subseteq Collectors
    /\ toSpawn \subseteq Collectors
    /\ wg \in Nat
    /\ goroutine \in [Collectors -> {"idle", "spawned", "collecting",
                                     "reading", "locking", "appending",
                                     "finishing", "done"}]
    /\ outcome \in [Collectors -> Outcomes \cup {"none"}]
    /\ mu \in Collectors \cup {NoOne}
    /\ slice \in [Collectors -> Seq(Results)]
    /\ results \in [1..2 -> [Categories -> Seq(Results)]]
    /\ DOMAIN report = Categories
    /\ cancelled \in BOOLEAN
    /\ sigCh \in 0..1
    /\ sigDone \in BOOLEAN
-----------------------------------------------------------------------------
\* The tier a collector has when it is available at all.
NativeTier(c) == IF c \in Light THEN 1 ELSE IF c \in BCC THEN 2 ELSE 3

EmptyMap == [cat \in Categories |-> << >>]

Init ==
    /\ config \in Configs
    /\ avail \in {a \in [Collectors -> 0..3] :
                     \A c \in Collectors : a[c] = NativeTier(c) \/ (a[c] = 0 /\ c \in Heavy)}
    /\ runPc = "filter"
    /\ phase = 1
    /\ active = {}
    /\ tier1 = {}
    /\ tier23 = {}
    /\ toSpawn = {}
    /\ wg = 0
    /\ goroutine = [c \in Collectors |-> "idle"]
    /\ outcome = [c \in Collectors |-> "none"]
    /\ mu = NoOne
    /\ slice = [c \in Collectors |-> << >>]
    /\ results = [p \in 1..2 |-> EmptyMap]
    /\ report = EmptyMap
    /\ cancelled = FALSE
    /\ sigCh = 0
    /\ sigDone = FALSE
-----------------------------------------------------------------------------
(* The main goroutine. *)

focusCategoryMap ==
    [stacks |-> "stacktrace", cpu |-> "cpu", memory |-> "memory",
     disk |-> "disk", network |-> "network", process |-> "process",
     container |-> "container"]

\* A focus area that is not in the map stands for the category of that name.
FocusCategory(area) ==
    IF area \in DOMAIN focusCategoryMap THEN focusCategoryMap[area] ELSE area

focusCategories == {FocusCategory(area) : area \in config.focus}

\* The profile ["all"] is the set of all collectors.  Focus only restricts the
\* collectors above Tier 1.
Selected(c) ==
    /\ avail[c] # 0
    /\ c \in config.profile
    /\ config.focus # {} /\ avail[c] > 1 => CategoryOf[c] \in focusCategories

filterCollectors ==
    /\ runPc = "filter"
    /\ active' = {c \in Collectors : Selected(c)}
    /\ runPc' = "split"
    /\ UNCHANGED <<config, avail, phase, tier1, tier23, toSpawn, wg, goroutine,
                   outcome, mu, slice, results, report, cancelled, sigCh, sigDone>>

\* Available() is asked a second time: a tool whose binary vanished since the
\* filter has Tier 0 here and stays with the Tier 2/3 collectors.
SplitTiers ==
    /\ runPc = "split"
    /\ tier1' = {c \in active : avail[c] = 1}
    /\ tier23' = active \ tier1'
    /\ toSpawn' = tier1'
    /\ runPc' = "collect"
    /\ UNCHANGED <<config, avail, phase, active, wg, goroutine, outcome, mu, slice,
                   results, report, cancelled, sigCh, sigDone>>

\* Faulty variant: wg.Add(1) is forgotten.
SpawnNoAdd(c) ==
    /\ runPc = "collect"
    /\ c \in toSpawn
    /\ toSpawn' = toSpawn \ {c}
    /\ goroutine' = [goroutine EXCEPT ![c] = "spawned"]
    /\ UNCHANGED <<config, avail, runPc, phase, active, tier1, tier23, wg, outcome, mu,
                   slice, results, report, cancelled, sigCh, sigDone>>

\* One turn of the loop in runCollectorsParallel: wg.Add(1), then go func.
Spawn(c) ==
    /\ runPc = "collect"
    /\ c \in toSpawn
    /\ toSpawn' = toSpawn \ {c}
    /\ wg' = wg + 1
    /\ goroutine' = [goroutine EXCEPT ![c] = "spawned"]
    /\ UNCHANGED <<config, avail, runPc, phase, active, tier1, tier23, outcome, mu,
                   slice, results, report, cancelled, sigCh, sigDone>>

\* Faulty variant: the calls return without wg.Wait().
WaitReturnsNoWait ==
    /\ runPc = "collect"
    /\ toSpawn = {}
    /\ runPc' = IF phase = 1 THEN "check" ELSE "merge"
    /\ UNCHANGED <<config, avail, phase, active, tier1, tier23, toSpawn, wg,
                   goroutine, outcome, mu, slice, results, report, cancelled,
                   sigCh, sigDone>>

\* wg.Wait() returns, and with it runCollectorsParallel.
WaitReturns ==
    /\ runPc = "collect"
    /\ toSpawn = {}
    /\ wg = 0
    /\ runPc' = IF phase = 1 THEN "check" ELSE "merge"
    /\ UNCHANGED <<config, avail, phase, active, tier1, tier23, toSpawn, wg,
                   goroutine, outcome, mu, slice, results, report, cancelled,
                   sigCh, sigDone>>

\* Faulty variant: ctx.Err() is not consulted between the phases.
CheckInterruptBlind ==
    /\ runPc = "check"
    /\ IF tier23 # {}
       THEN /\ phase' = 2
            /\ toSpawn' = tier23
            /\ runPc' = "collect"
       ELSE /\ runPc' = "merge"
            /\ UNCHANGED <<phase, toSpawn>>
    /\ UNCHANGED <<config, avail, active, tier1, tier23, wg, goroutine, outcome, mu,
                   slice, results, report, cancelled, sigCh, sigDone>>

\* Between the phases: phase 2 runs only in a context that is still alive.
CheckInterrupt ==
    /\ runPc = "check"
    /\ IF ~cancelled /\ tier23 # {}
       THEN /\ phase' = 2
            /\ toSpawn' = tier23
            /\ runPc' = "collect"
       ELSE /\ runPc' = "merge"
            /\ UNCHANGED <<phase, toSpawn>>
    /\ UNCHANGED <<config, avail, active, tier1, tier23, wg, goroutine, outcome, mu,
                   slice, results, report, cancelled, sigCh, sigDone>>

\* Faulty variant: the results stay in the order of arrival.
KeepOrder(s) == s

\* The places of s that sort.Slice puts before place i: a smaller name goes first.
Before(s, i) ==
    LET rank(j) == Rank[s[j].collector] IN
    {j \in 1..Len(s) : rank(j) < rank(i) \/ (rank(j) = rank(i) /\ j < i)}

\* Place k of the result has the element that k - 1 others go before.
SortByName(s) ==
    [k \in 1..Len(s) |->
        s[CHOOSE i \in 1..Len(s) : Cardinality(Before(s, i)) = k - 1]]

\* Faulty variant: without the explicit cancel() the signal goroutine lives on.
MergeResultsNoCancel ==
    /\ runPc = "merge"
    /\ report' = [cat \in Categories |->
                     SortByName(results[1][cat] \o results[2][cat])]
    /\ runPc' = "await"
    /\ UNCHANGED <<config, avail, phase, active, tier1, tier23, toSpawn, wg,
                   goroutine, outcome, mu, slice, results, cancelled, sigCh, sigDone>>

\* cancel(), append the maps of phase 2 to those of phase 1, sort each category
\* by collector name; what follows (the overhead, the summary) is pure.
MergeResults ==
    /\ runPc = "merge"
    /\ cancelled' = TRUE
    /\ report' = [cat \in Categories |->
                     SortByName(results[1][cat] \o results[2][cat])]
    /\ runPc' = "await"
    /\ UNCHANGED <<config, avail, phase, active, tier1, tier23, toSpawn, wg,
                   goroutine, outcome, mu, slice, results, sigCh, sigDone>>

\* The deferred function: signal.Stop, then <-sigDone.
Return ==
    /\ runPc = "await"
    /\ sigDone
    /\ runPc' = "returned"
    /\ UNCHANGED <<config, avail, phase, active, tier1, tier23, toSpawn, wg,
                   goroutine, outcome, mu, slice, results, report, cancelled,
                   sigCh, sigDone>>
-----------------------------------------------------------------------------
(* A collector's goroutine. *)

Begin(c) ==
    /\ goroutine[c] = "spawned"
    /\ goroutine' = [goroutine EXCEPT ![c] = "collecting"]
    /\ UNCHANGED <<main, avail, wg, outcome, mu, slice, results, cancelled, sigCh, sigDone>>

\* Collect returns in any way at all, or panics; a native collector that could
\* load its program first reads the perf buffer.  A nil result without error is
\* accepted and appends nothing.
CollectReturns(c, how) ==
    /\ goroutine[c] = "collecting"
    /\ c \in Native => how \in {"err", "panic"}
    /\ outcome' = [outcome EXCEPT ![c] = how]
    /\ goroutine' = [goroutine EXCEPT ![c] = "locking"]
    /\ UNCHANGED <<main, avail, wg, mu, slice, results, cancelled, sigCh, sigDone>>

StartReading(c) ==
    /\ goroutine[c] = "collecting"
    /\ c \in Native
    /\ goroutine' = [goroutine EXCEPT ![c] = "reading"]
    /\ UNCHANGED <<main, avail, wg, outcome, mu, slice, results, cancelled, sigCh, sigDone>>

StopReading(c) ==
    /\ goroutine[c] = "reading"
    /\ outcome' = [outcome EXCEPT ![c] = "ok"]
    /\ goroutine' = [goroutine EXCEPT ![c] = "locking"]
    /\ UNCHANGED <<main, avail, wg, mu, slice, results, cancelled, sigCh, sigDone>>

\* The read loop ends when the context is cancelled (the reader is closed) ...
ReaderClosed(c) == cancelled /\ StopReading(c)

\* ... or when MaxEventsPerCollector events were read, which may never happen.
EventsFull(c) == StopReading(c)

\* Faulty variant: the map is read without waiting for the mutex.
LockNoMutex(c) ==
    /\ goroutine[c] = "locking"
    /\ mu' = c
    /\ slice' = [slice EXCEPT ![c] = results[phase][CategoryOf[c]]]
    /\ goroutine' = [goroutine EXCEPT ![c] = "appending"]
    /\ UNCHANGED <<main, avail, wg, outcome, results, cancelled, sigCh, sigDone>>

\* mu.Lock(), then the read half of results[cat] = append(results[cat], r).
Lock(c) ==
    /\ goroutine[c] = "locking"
    /\ mu = NoOne
    /\ mu' = c
    /\ slice' = [slice EXCEPT ![c] = results[phase][CategoryOf[c]]]
    /\ goroutine' = [goroutine EXCEPT ![c] = "appending"]
    /\ UNCHANGED <<main, avail, wg, outcome, results, cancelled, sigCh, sigDone>>

\* Faulty variant: an early return for a nil result leaves the mutex locked.
AppendNilKeepsLock(c) ==
    /\ goroutine[c] = "appending"
    /\ IF outcome[c] = "nil" THEN UNCHANGED <<results, mu>>
       ELSE /\ results' = [results EXCEPT ![phase][CategoryOf[c]] =
                              Append(slice[c], [collector |-> c, kind |-> outcome[c]])]
            /\ mu' = NoOne
    /\ slice' = [slice EXCEPT ![c] = << >>]
    /\ goroutine' = [goroutine EXCEPT ![c] = "finishing"]
    /\ UNCHANGED <<main, avail, wg, outcome, cancelled, sigCh, sigDone>>

\* The write half, then mu.Unlock().
AppendAndUnlock(c) ==
    /\ goroutine[c] = "appending"
    /\ results' =
          IF outcome[c] = "nil" THEN results
          ELSE [results EXCEPT ![phase][CategoryOf[c]] =
                   Append(slice[c], [collector |-> c, kind |-> outcome[c]])]
    /\ mu' = NoOne
    /\ slice' = [slice EXCEPT ![c] = << >>]
    /\ goroutine' = [goroutine EXCEPT ![c] = "finishing"]
    /\ UNCHANGED <<main, avail, wg, outcome, cancelled, sigCh, sigDone>>

\* The deferred wg.Done().
Done(c) ==
    /\ goroutine[c] = "finishing"
    /\ wg' = wg - 1
    /\ goroutine' = [goroutine EXCEPT ![c] = "done"]
    /\ UNCHANGED <<main, avail, outcome, mu, slice, results, cancelled, sigCh, sigDone>>
-----------------------------------------------------------------------------
(* The signal goroutine and the environment. *)

\* case sig := <-sigCh: cancel()
TakeSignal ==
    /\ ~sigDone
    /\ sigCh = 1
    /\ sigCh' = 0
    /\ cancelled' = TRUE
    /\ sigDone' = TRUE
    /\ UNCHANGED <<main, avail, wg, goroutine, outcome, mu, slice, results>>

\* case <-ctx.Done()
SeeDone ==
    /\ ~sigDone
    /\ cancelled
    /\ sigDone' = TRUE
    /\ UNCHANGED <<main, avail, wg, goroutine, outcome, mu, slice, results, cancelled, sigCh>>

\* The runtime delivers a signal without blocking: it is dropped when one is
\* already waiting.  Nobody reads the channel once the goroutine has exited.
SignalArrives ==
    /\ runPc # "returned"
    /\ sigCh = 0
    /\ sigCh' = 1
    /\ UNCHANGED <<main, avail, wg, goroutine, outcome, mu, slice, results, cancelled, sigDone>>

\* profile.Duration + 30s has passed, or the caller cancels its own context.
Deadline ==
    /\ runPc # "returned"
    /\ ~cancelled
    /\ cancelled' = TRUE
    /\ UNCHANGED <<main, avail, wg, goroutine, outcome, mu, slice, results, sigCh, sigDone>>

\* A tool's binary or BPF object appears or vanishes.  Available() answers
\* matter up to the split.
AvailabilityChanges(c) ==
    /\ runPc \in {"filter", "split"}
    /\ c \in Heavy
    /\ avail' = [avail EXCEPT ![c] = IF @ = 0 THEN NativeTier(c) ELSE 0]
    /\ UNCHANGED <<main, wg, goroutine, outcome, mu, slice, results, cancelled, sigCh, sigDone>>

Finished ==
    /\ runPc = "returned"
    /\ UNCHANGED vars
-----------------------------------------------------------------------------
MainStep ==
    \/ filterCollectors
    \/ SplitTiers
    \/ \E c \in Collectors : Spawn(c)
    \/ WaitReturns
    \/ CheckInterrupt
    \/ MergeResults
    \/ Return

\* What a collector's goroutine does without waiting for events.
CollectorStep(c) ==
    \/ Begin(c)
    \/ \E how \in Outcomes : CollectReturns(c, how)
    \/ StartReading(c)
    \/ ReaderClosed(c)
    \/ Lock(c)
    \/ AppendAndUnlock(c)
    \/ Done(c)

SignalGoroutine == TakeSignal \/ SeeDone

Next ==
    \/ MainStep
    \/ \E c \in Collectors : CollectorStep(c) \/ EventsFull(c)
    \/ SignalGoroutine
    \/ SignalArrives
    \/ Deadline
    \/ \E c \in Collectors : AvailabilityChanges(c)
    \/ Finished

\* The Go scheduler runs every goroutine that can run, and a Collect call that
\* is not waiting for perf events returns: Tier 1 collectors sample for a
\* bounded time, a BCC tool has a deadline of its own (module Executor).
Fairness ==
    /\ WF_vars(MainStep)
    /\ \A c \in Collectors : WF_vars(CollectorStep(c))
    /\ WF_vars(SignalGoroutine)

Spec == Init /\ [][Next]_vars /\ Fairness
-----------------------------------------------------------------------------
(* Properties. *)

\* Phase 1 measures a clean system: no Tier 2/3 collector has a goroutine while
\* a Tier 1 collector has one (the two calls of runCollectorsParallel and the
\* WaitGroup between them).
NoObserverEffect == Live \cap Light = {} \/ Live \cap Heavy = {}

\* The collectors whose goroutine has gone through the mutex and had a result.
Appended == {c \in Collectors :
                /\ goroutine[c] \in {"finishing", "done"}
                /\ outcome[c] # "nil"}

\* Every result in the maps is of a collector that had one, of its kind and in its
\* category ...
NoStranger ==
    \A p \in 1..2, cat \in Categories : \A i \in 1..Len(results[p][cat]) :
        LET r == results[p][cat][i] IN
        /\ r.collector \in Appended
        /\ CategoryOf[r.collector] = cat
        /\ r.kind = outcome[r.collector]

\* ... every collector that had a result is there ...
NoLoss ==
    \A c \in Appended : \E p \in 1..2 :
        \E i \in 1..Len(results[p][CategoryOf[c]]) :
            results[p][CategoryOf[c]][i].collector = c

\* ... and once only.
NoDouble ==
    \A p, q \in 1..2, cat \in Categories :
        \A i \in 1..Len(results[p][cat]), j \in 1..Len(results[q][cat]) :
            results[p][cat][i].collector = results[q][cat][j].collector
                => p = q /\ i = j

\* No result is lost or doubled by goroutines that append to the same map at the
\* same time: the two maps hold exactly one result, of the right kind and in the
\* right category, for every collector that had one.
ResultsExact == NoStranger /\ NoLoss /\ NoDouble

\* The report depends on how the collectors returned, never on the order in
\* which they did: each category lists its collectors by name.
ReportDeterministic ==
    runPc = "returned" =>
        \A cat \in Categories :
            /\ \A i \in 1..Len(report[cat]) - 1 :
                  Rank[report[cat][i].collector] < Rank[report[cat][i + 1].collector]
            /\ {report[cat][i] : i \in 1..Len(report[cat])} =
               {[collector |-> c, kind |-> outcome[c]] :
                   c \in {d \in Appended : CategoryOf[d] = cat}}

\* Once the collectors are done Run needs nobody to return: the deferred wait for
\* the signal goroutine does not last until a signal or the deadline.
PromptReturn == runPc \in {"merge", "await"} ~> runPc = "returned"

\* When the deadline of the context fires, Run returns its report, whatever the
\* collectors read and however often a signal arrives.
RunReturns == WF_vars(Deadline) => <>(runPc = "returned")
-----------------------------------------------------------------------------
(* What a run promises. *)

InMaps(maps) ==
    {c \in Collectors : \E p \in 1..2 : \E i \in 1..Len(maps[p][CategoryOf[c]]) :
                           maps[p][CategoryOf[c]][i].collector = c}

InReport ==
    {c \in Collectors : \E i \in 1..Len(report[CategoryOf[c]]) :
                           report[CategoryOf[c]][i].collector = c}

Promise == INSTANCE Collection WITH
    gate <- IF runPc \in {"await", "returned"} THEN "closed"
            ELSE IF phase = 1 THEN "light" ELSE "heavy",
    begun <- {c \in Collectors : goroutine[c] # "idle"},
    live <- Live,
    yielded <- InMaps(results),
    interrupted <- cancelled,
    report <- IF runPc \in {"await", "returned"} THEN InReport ELSE "unpublished"

\* Every step of Run, of the collectors' goroutines and of the signal goroutine is
\* a step of Collection or changes nothing it speaks of.
ImplementsCollection == Promise!Spec
=============================================================================
