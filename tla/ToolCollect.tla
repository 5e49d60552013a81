----------------------------- MODULE ToolCollect -----------------------------
(***************************************************************************)
(* BCCCollector.Collect of several tools that run in parallel, and the     *)
(* PIDTracker they share (internal/collector/bcc_adapter.go,               *)
(* internal/observer).  A tool traces events of the processes that are     *)
(* alive while it runs; Collect then parses, filters and caps them.  How   *)
(* the executor stops a tool is module Executor; here the child is alive   *)
(* from Start to RunReturns.                                               *)
(***************************************************************************)
EXTENDS Integers, Sequences, FiniteSets

CONSTANTS
    Tools,      \* the tools; a tool stands for the PID of its process too
    Self,       \* melisai's own PID
    Other,      \* the PID of some other process
    NoPid,      \* PID 0: the line shows no PID
    Prints,     \* per tool: the PIDs its lines can show, NoPid alone without a PID column
    ParserMax,  \* per tool: the limit in its parser of events, 0 if it parses stacks
    Unflagged,  \* the tools whose parser drops the flag of its limit (cachestat)
    MinFit,     \* per tool: so many lines always fit the executor's 50 MB
    CfgMax,     \* cfg.MaxEventsPerCollector, 0 for none
    MaxTraced   \* bound, per tool: the events it traces

Pids == Tools \cup {Self, Other, NoPid}

ASSUME CapsAssumption ==
    /\ ParserMax \in [Tools -> Nat]
    /\ Unflagged \subseteq {t \in Tools : ParserMax[t] > 0}
    /\ MinFit \in [Tools -> Nat]
    /\ \A t \in Tools : ParserMax[t] <= MinFit[t]
    /\ CfgMax \in Nat
    /\ MaxTraced \in [Tools -> Nat]

ASSUME PidsAssumption ==
    /\ Self \notin Tools
    /\ Other \notin Tools \cup {Self}
    /\ NoPid \notin Tools \cup {Self, Other}
    /\ Prints \in [Tools -> SUBSET Pids]
    /\ \A t \in Tools : ParserMax[t] = 0 => Prints[t] = {NoPid}  \* stacks show no PID

VARIABLES
    pc,        \* per tool: where its Collect is
    traced,    \* per tool: the PIDs of the events, or stacks, it prints
    capped,    \* per tool: raw.Truncated
    todo,      \* per tool: raw.Stdout, then the parsed events the filter loop has left
    events,    \* per tool: result.Events, or its Stacks
    truncated, \* per tool: result.Truncated
    children,  \* PIDTracker.children
    overhead   \* ChildPIDs of SnapshotAfter, Tools \cup {Self} until it is taken

vars == <<pc, traced, capped, todo, events, truncated, children, overhead>>

NotTaken == Tools \cup {Self}

\* NewPIDTracker and SnapshotBefore, then the goroutines of phase 2.
Init ==
    /\ pc = [t \in Tools |-> "idle"]
    /\ traced = [t \in Tools |-> << >>]
    /\ capped = [t \in Tools |-> FALSE]
    /\ todo = [t \in Tools |-> << >>]
    /\ events = [t \in Tools |-> << >>]
    /\ truncated = [t \in Tools |-> FALSE]
    /\ children = {}
    /\ overhead = NotTaken
-----------------------------------------------------------------------------
ChildAlive(t) == pc[t] = "running"

IsOwnPID(pid) == pid = Self \/ pid \in children

\* executor.Run starts the child.
Start(t) ==
    /\ pc[t] = "idle"
    /\ pc' = [pc EXCEPT ![t] = "running"]
    /\ UNCHANGED <<traced, capped, todo, events, truncated, children, overhead>>

\* The tool prints an event of a process that is alive, itself included.
Trace(t, pid) ==
    /\ ChildAlive(t)
    /\ Len(traced[t]) < MaxTraced[t]
    /\ pid \in Prints[t]
    /\ pid \in Tools => ChildAlive(pid)
    /\ traced' = [traced EXCEPT ![t] = Append(@, pid)]
    /\ UNCHANGED <<pc, capped, todo, events, truncated, children, overhead>>

\* The output when the cap falls into the line after the first n: what is left of
\* that line is blank or another event, its PID cut off or cut short.
CutAfter(t, n) ==
    {SubSeq(traced[t], 1, n) \o rest : rest \in {<< >>} \cup {<<pid>> : pid \in Prints[t] \cup {NoPid}}}

\* executor.Run returns raw output: the child has exited and is reaped.
RunReturns(t) ==
    /\ pc[t] = "running"
    /\ \/ /\ todo' = [todo EXCEPT ![t] = traced[t]]
          /\ UNCHANGED capped
       \/ /\ \E n \in MinFit[t]..(Len(traced[t]) - 1) : \E out \in CutAfter(t, n) :
                todo' = [todo EXCEPT ![t] = out]
          /\ capped' = [capped EXCEPT ![t] = TRUE]
    /\ pc' = [pc EXCEPT ![t] = "exited"]
    /\ UNCHANGED <<traced, events, truncated, children, overhead>>

\* The tool is not in the registry, or executor.Run returns an error: Collect
\* returns before it reaches the tracker.
RunFails(t) ==
    /\ pc[t] \in {"idle", "running"}
    /\ pc' = [pc EXCEPT ![t] = "failed"]
    /\ UNCHANGED <<traced, capped, todo, events, truncated, children, overhead>>

\* Faulty variant: the tracker is not told of the child.
AddNothing(t) ==
    /\ pc[t] = "exited"
    /\ pc' = [pc EXCEPT ![t] = "tracked"]
    /\ UNCHANGED <<traced, capped, todo, events, truncated, children, overhead>>

\* tracker.Add(raw.PID); Remove is deferred.
Add(t) ==
    /\ pc[t] = "exited"
    /\ children' = children \cup {t}
    /\ pc' = [pc EXCEPT ![t] = "tracked"]
    /\ UNCHANGED <<traced, capped, todo, events, truncated, overhead>>

\* Faulty variant: Remove is not deferred and the error path misses it.
ParseFailsNoRemove(t) ==
    /\ pc[t] = "tracked"
    /\ pc' = [pc EXCEPT ![t] = "failed"]
    /\ UNCHANGED <<traced, capped, todo, events, truncated, children, overhead>>

\* No parser, or the parser fails: return, which runs the deferred Remove.
ParseFails(t) ==
    /\ pc[t] = "tracked"
    /\ children' = children \ {t}
    /\ pc' = [pc EXCEPT ![t] = "failed"]
    /\ UNCHANGED <<traced, capped, todo, events, truncated, overhead>>

\* ParseTabularEvents stops when it has ParserMax events; a parser of stacks reads on.
LimitMet(t) == ParserMax[t] > 0 /\ Len(todo[t]) >= ParserMax[t]

Parsed(t) == IF LimitMet(t) THEN SubSeq(todo[t], 1, ParserMax[t]) ELSE todo[t]

\* spec.Parser(raw.Stdout).  The flag is the parser's, and ParseCachestat drops it;
\* raw.Truncated is not looked at.
Parse(t) ==
    /\ pc[t] = "tracked"
    /\ todo' = [todo EXCEPT ![t] = Parsed(t)]
    /\ truncated' = [truncated EXCEPT ![t] = LimitMet(t) /\ t \notin Unflagged]
    /\ pc' = [pc EXCEPT ![t] = "filtering"]
    /\ UNCHANGED <<traced, capped, events, children, overhead>>

\* One turn of the filter loop; each turn asks the tracker anew.
FilterEvent(t) ==
    /\ pc[t] = "filtering"
    /\ todo[t] # << >>
    /\ LET pid == Head(todo[t]) IN
       events' = [events EXCEPT ![t] =
                     IF pid # NoPid /\ IsOwnPID(pid) THEN @ ELSE Append(@, pid)]
    /\ todo' = [todo EXCEPT ![t] = Tail(@)]
    /\ UNCHANGED <<pc, traced, capped, truncated, children, overhead>>

\* cfg.MaxEventsPerCollector is a limit of events; stacks have none.
OverCfgMax(t) == ParserMax[t] > 0 /\ CfgMax > 0 /\ Len(events[t]) > CfgMax

\* Faulty variant: the cap of the configuration does not set Truncated.
CapSilently(t) ==
    /\ pc[t] = "filtering"
    /\ todo[t] = << >>
    /\ events' = [events EXCEPT ![t] =
                     IF OverCfgMax(t) THEN SubSeq(@, 1, CfgMax) ELSE @]
    /\ children' = children \ {t}
    /\ pc' = [pc EXCEPT ![t] = "returned"]
    /\ UNCHANGED <<traced, capped, todo, truncated, overhead>>

\* The cap of the configuration, then return with the deferred Remove.
CapAndReturn(t) ==
    /\ pc[t] = "filtering"
    /\ todo[t] = << >>
    /\ IF OverCfgMax(t)
       THEN /\ events' = [events EXCEPT ![t] = SubSeq(@, 1, CfgMax)]
            /\ truncated' = [truncated EXCEPT ![t] = TRUE]
       ELSE UNCHANGED <<events, truncated>>
    /\ children' = children \ {t}
    /\ pc' = [pc EXCEPT ![t] = "returned"]
    /\ UNCHANGED <<traced, capped, todo, overhead>>

AllReturned == \A t \in Tools : pc[t] \in {"returned", "failed"}

\* Run takes the second snapshot when every collector has returned.
SnapshotAfter ==
    /\ AllReturned
    /\ overhead = NotTaken
    /\ overhead' = children
    /\ UNCHANGED <<pc, traced, capped, todo, events, truncated, children>>

Finished ==
    /\ overhead # NotTaken
    /\ UNCHANGED vars

Next ==
    \/ \E t \in Tools :
          \/ Start(t)
          \/ \E pid \in Pids : Trace(t, pid)
          \/ RunReturns(t)
          \/ RunFails(t)
          \/ Add(t)
          \/ ParseFails(t)
          \/ Parse(t)
          \/ FilterEvent(t)
          \/ CapAndReturn(t)
    \/ SnapshotAfter
    \/ Finished

Spec == Init /\ [][Next]_vars
-----------------------------------------------------------------------------
(* Properties. *)

Events(t) == {events[t][i] : i \in 1..Len(events[t])}

\* Whatever the other tools do to the tracker meanwhile, a result never holds an
\* event of melisai or of the tool that produced it.
OwnEventsExcluded ==
    \A t \in Tools : pc[t] = "returned" => Events(t) \cap {Self, t} = {}

IsOther(pid) == pid \in {Other, NoPid}

\* kept is what is left of the first n events of s when some are taken out that
\* are not of another process; place says where each of them was.
LeftOf(kept, s, n) ==
    \E place \in [1..Len(kept) -> 1..n] :
        /\ \A i, j \in 1..Len(kept) : i < j => place[i] < place[j]
        /\ \A i \in 1..Len(kept) : kept[i] = s[place[i]]
        /\ \A m \in 1..n : IsOther(s[m]) => \E i \in 1..Len(kept) : place[i] = m

\* Lines were discarded where the code keeps no flag: stacks by the executor's cap,
\* events by the limit of a parser that drops the flag.
FlagLost(t) ==
    \/ ParserMax[t] = 0 /\ capped[t]
    \/ t \in Unflagged /\ Len(traced[t]) > ParserMax[t]

Complete(t) == LeftOf(events[t], traced[t], Len(traced[t]))

\* A result that does not say Truncated has every event of every other process, in
\* the order they were traced, however the executor's cap, the parser's limit, the
\* filter and the limit of the configuration meet, unless the flag was lost.
UntruncatedIsComplete ==
    \A t \in Tools : pc[t] = "returned" /\ ~truncated[t] /\ ~FlagLost(t) => Complete(t)

\* No child outlives its Collect call in the tracker, on any return path.  (The
\* summary of SnapshotAfter therefore never names or measures a tool.)
TrackerDrained == AllReturned => children = {}

\* What the package comment of internal/observer promises: all spawned tool PIDs
\* are tracked, so no result holds an event that melisai itself caused.
NoSelfNoise ==
    \A t \in Tools : pc[t] = "returned" => Events(t) \cap (Tools \cup {Self}) = {}
=============================================================================
