----------------------------- MODULE MCPServer -----------------------------
(***************************************************************************)
(* Collection runs of one melisai process, in time: the tool calls of the  *)
(* MCP server (internal/mcp), which run side by side, or the one run of    *)
(* `melisai collect` (cmd/melisai/main.go).  A call registers its          *)
(* collectors and runs them in two phases under the deadlines of its       *)
(* handler, of Orchestrator.Run and of each tool, or until a signal.       *)
(*                                                                         *)
(* Phase 1 is one activity here: its goroutines are those of Orchestrator. *)
(* A second is one unit of time and the clock jumps to the next moment at  *)
(* which something is due.  explain_anomaly and list_anomalies answer from *)
(* a table and are in Comparison.                                          *)
(***************************************************************************)
EXTENDS Selection, FiniteSetsExt

CONSTANTS
    Calls,        \* tool calls that may be made
    Hosts,        \* hosts to try: BCC tools installed, native eBPF usable
    Requests,     \* arguments of collect_metrics to try
    Flags,        \* flags of melisai collect to try
    ArrivalTimes, \* moments at which calls and signals may arrive
    Tier1Max,     \* bound: the longest Tier 1 collector, its commands included
    Never         \* bound: a time after everything

SampleInterval == 1
healthCheckTimeout == 30
collectMetricsTimeout == 300
gracefulShutdownTimeout == 3

ASSUME ServerAssumption ==
    /\ Hosts \subseteq [bcc : SUBSET Registry, native : BOOLEAN]
    /\ ArrivalTimes \subseteq Nat
    /\ {Tier1Max, Never} \subseteq Nat \ {0}
    /\ SampleInterval <= Tier1Max
    /\ \A flags \in Flags : flags.duration \in Nat

VARIABLES
    now,    \* seconds since the process started
    host,   \* what is installed
    stopAt, \* when a signal ended the process's context, or Never
    call    \* the calls: where each is and what it runs

vars == <<now, host, stopAt, call>>

\* pc: "idle", "phase1", "between", "phase2", "answered".  config is what the
\* handler puts into CollectConfig, and the handler's own timeout; since is when
\* the present phase began; tools are the Tier 2/3 collectors of the run and
\* running those that have not returned.
Config(by, profile, focus, duration, timeout) ==
    [by |-> by, Profile |-> profile, Focus |-> focus, Duration |-> duration, timeout |-> timeout]

Idle == [pc |-> "idle", config |-> Config("nobody", "quick", {}, 0, 0), begun |-> 0,
         since |-> 0, tools |-> {}, running |-> {}]

Open(c) == call[c].pc \notin {"idle", "answered"}
Interrupted == stopAt # Never

Earlier(s, t) == IF s < t THEN s ELSE t
Later(s, t) == IF s < t THEN t ELSE s

-----------------------------------------------------------------------------
(* Deadlines.                                                              *)

Profile(c) == GetProfile(call[c].config.Profile)

\* Mutant: the run may last as long as its profile, no longer.
runTimeoutBare(c) == Profile(c).Duration

runTimeout(c) == Profile(c).Duration + 30

\* The context of the handler is the parent of the context of the run.
Deadline(c) == call[c].begun + Earlier(runTimeout(c), call[c].config.timeout)

ctxEnd(c) == Earlier(Deadline(c), stopAt)
ctxDone(c) == now >= ctxEnd(c)

\* BCCCollector.Collect: profile and offcputime have a minimum.
toolDuration(c, t) ==
    IF t.name \in {"profile", "offcputime"} THEN Later(5, call[c].config.Duration)
    ELSE call[c].config.Duration

\* Mutant: the tool has no deadline of its own.
toolEndNone(c, t) == ctxEnd(c)

\* The context of a tool; the native collector has the context of the run.
toolEnd(c, t) ==
    IF t = Native THEN ctxEnd(c)
    ELSE Earlier(call[c].since + toolDuration(c, t) + 5, ctxEnd(c))

\* When SIGKILL has ended a tool at the latest; a perf reader is just closed.
mustReturn(c, t) == IF t = Native THEN toolEnd(c, t) ELSE toolEnd(c, t) + gracefulShutdownTimeout

-----------------------------------------------------------------------------
(* The handlers, up to the start of Phase 1 of Orchestrator.Run.           *)

Run(c, config, collectors) ==
    call' = [call EXCEPT ![c] =
        [pc |-> "phase1", config |-> config, begun |-> now, since |-> now, running |-> {},
         tools |-> {k \in filterCollectors(collectors, GetProfile(config.Profile), config.Focus) :
                       Heavy(k)}]]

\* The stdio server hands calls to workers of its own and stops on a signal.
Accepted(c) ==
    /\ call[c].pc = "idle" /\ ~Interrupted
    /\ \A d \in Calls : call[d].config.by # "collect"

HealthConfig == Config("get_health", "quick", {}, 1, healthCheckTimeout)

handleGetHealth(c) ==
    /\ Accepted(c)
    /\ LET filtered == {k \in RegisterCollectors(host, GetProfile("quick")) :
                           k.name \in Tier1Names \ {"gpu_pcie"}}
       IN  Run(c, HealthConfig, filtered)
    /\ UNCHANGED <<now, host, stopAt>>

\* An argument that is absent or empty takes its default; any profile name is
\* taken, the fallback is that of GetProfile.
handleCollectMetrics(c, args) ==
    /\ Accepted(c)
    /\ LET name == IF args.profile = "" THEN "quick" ELSE args.profile
           focus == IF args.focus \in {"", "all"} THEN {} ELSE {args.focus}
           profile == GetProfile(name)
       IN  Run(c, Config("collect_metrics", name, focus, profile.Duration, collectMetricsTimeout),
               RegisterCollectors(host, profile))
    /\ UNCHANGED <<now, host, stopAt>>

\* The collect command runs once, in a process of its own, with no timeout but
\* the run's.  --duration (0 when not given) replaces the profile's duration.
collect(c, flags) ==
    /\ \A d \in Calls : call[d] = Idle
    /\ ~Interrupted
    /\ LET profile == GetProfile(flags.profile)
           duration == IF flags.duration = 0 THEN profile.Duration ELSE flags.duration
       IN  Run(c, Config("collect", flags.profile, flags.focus, duration, Never),
               RegisterCollectors(host, profile))
    /\ UNCHANGED <<now, host, stopAt>>

-----------------------------------------------------------------------------
(* The phases of Orchestrator.Run.                                         *)

\* A Tier 1 collector returns once it has slept, or when its context ends.
BaselineReturns(c) ==
    /\ call[c].pc = "phase1"
    /\ now >= call[c].since + SampleInterval \/ ctxDone(c)
    /\ call' = [call EXCEPT ![c].pc = "between"]
    /\ UNCHANGED <<now, host, stopAt>>

\* Mutant: an interrupted run returns no report and the call no answer.
BetweenSilent(c) ==
    /\ call[c].pc = "between" /\ ~ctxDone(c)
    /\ call' = IF call[c].tools = {}
               THEN [call EXCEPT ![c].pc = "answered"]
               ELSE [call EXCEPT ![c].pc = "phase2", ![c].since = now, ![c].running = call[c].tools]
    /\ UNCHANGED <<now, host, stopAt>>

Between(c) ==
    /\ call[c].pc = "between"
    /\ call' = IF ctxDone(c) \/ call[c].tools = {}
               THEN [call EXCEPT ![c].pc = "answered"]
               ELSE [call EXCEPT ![c].pc = "phase2", ![c].since = now, ![c].running = call[c].tools]
    /\ UNCHANGED <<now, host, stopAt>>

\* A tool may fail or finish at any moment, and so may the native collector:
\* its program does not load, or it has read MaxEventsPerCollector events.
ToolReturns(c, t) ==
    /\ call[c].pc = "phase2" /\ t \in call[c].running
    /\ call' = [call EXCEPT ![c].running = @ \ {t}]
    /\ UNCHANGED <<now, host, stopAt>>

Answer(c) ==
    /\ call[c].pc = "phase2" /\ call[c].running = {}
    /\ call' = [call EXCEPT ![c].pc = "answered"]
    /\ UNCHANGED <<now, host, stopAt>>

\* SIGINT or SIGTERM: to the process's context and to every run's own handler.
Signal ==
    /\ ~Interrupted
    /\ now \in ArrivalTimes
    /\ stopAt' = now
    /\ UNCHANGED <<now, host, call>>

-----------------------------------------------------------------------------
(* Time.                                                                   *)

\* Something has to happen before the clock moves.
Overdue(c) ==
    \/ call[c].pc = "between"
    \/ call[c].pc = "phase1" /\ now >= Earlier(call[c].since + Tier1Max, ctxEnd(c))
    \/ call[c].pc = "phase2" /\ call[c].running = {}
    \/ call[c].pc = "phase2" /\ \E t \in call[c].running : now >= mustReturn(c, t)

Timers(c) ==
    IF ~Open(c) THEN {}
    ELSE {call[c].since + SampleInterval, call[c].since + Tier1Max, ctxEnd(c)}
         \cup UNION {{call[c].since + toolDuration(c, t), toolEnd(c, t), mustReturn(c, t)} :
                        t \in call[c].running}

Tick ==
    /\ \A c \in Calls : ~Overdue(c)
    /\ LET due == {t \in ArrivalTimes \cup UNION {Timers(c) : c \in Calls} : now < t /\ t < Never}
       IN  \E next \in due : now' = next /\ \A t \in due : next <= t
    /\ UNCHANGED <<host, stopAt, call>>

Init ==
    /\ now = 0
    /\ host \in Hosts
    /\ stopAt = Never
    /\ call = [c \in Calls |-> Idle]

Progress(c) == BaselineReturns(c) \/ Between(c) \/ (\E t \in call[c].running : ToolReturns(c, t)) \/ Answer(c)

Arrival ==
    /\ now \in ArrivalTimes
    /\ \E c \in Calls :
          \/ handleGetHealth(c)
          \/ \E args \in Requests : handleCollectMetrics(c, args)
          \/ \E flags \in Flags : collect(c, flags)

Next == Arrival \/ Signal \/ Tick \/ \E c \in Calls : Progress(c)

\* Time passes, and what is due happens: a killed process goes.
Spec == Init /\ [][Next]_vars /\ WF_vars(Tick \/ \E c \in Calls : Progress(c) /\ Overdue(c))

-----------------------------------------------------------------------------
(* Properties.                                                             *)

\* How long a call may take when nobody interrupts it: Phase 1, then its longest
\* tool with the five seconds of grace and the three before SIGKILL; the native
\* collector reads until the run's own deadline.  get_health is Phase 1 alone.
Expected(c) ==
    LET tools == call[c].tools
        bcc == Tier1Max + 5 + gracefulShutdownTimeout + Max({0} \cup {toolDuration(c, t) : t \in tools})
    IN  CASE tools = {} \/ call[c].config.by = "get_health" -> Tier1Max
          [] Native \in tools -> runTimeout(c) + gracefulShutdownTimeout
          [] OTHER -> Earlier(bcc, runTimeout(c) + gracefulShutdownTimeout)

\* No call is left open longer than its profile, its deadlines and the escalation
\* from SIGINT to SIGKILL allow, however slow Phase 1 was, whatever its tools do,
\* and none longer than three seconds after a signal.
AnsweredInTime ==
    \A c \in Calls : Open(c) =>
        /\ now <= call[c].begun + Expected(c)
        /\ now <= stopAt + gracefulShutdownTimeout

\* A tool is never stopped by the deadline of its run before it has measured for
\* the whole duration it was given, as long as that duration leaves Phase 1 its
\* time: the 30 seconds on top of the profile's duration (Run) pay for Phase 1,
\* and a --duration beyond them is cut off.
MeasuresInFull ==
    \A c \in Calls : \A t \in call[c].running \ {Native} :
        /\ now >= Deadline(c)
        /\ Tier1Max + toolDuration(c, t) <= Profile(c).Duration + 30
        => now >= call[c].since + toolDuration(c, t)

\* On a host that has every tool, a call without focus runs every tool its profile
\* names: the names that RegisterCollectors passes over in silence are none.  A
\* focus on an area that has tools leaves some tool of its category to run, unless
\* the profile is quick.
ProfileComplete ==
    \A c \in Calls :
        call[c].pc = "phase1" /\ call[c].config.by # "get_health" =>
            LET focus == call[c].config.Focus
                equipped == RegisterCollectors([bcc |-> Registry, native |-> host.native], Profile(c))
                tools == {k \in filterCollectors(equipped, Profile(c), focus) : Heavy(k)}
            IN  IF focus = {} THEN {k.name : k \in tools} = Tools(Profile(c)) \ Tier1Names
                ELSE call[c].config.Profile = "quick"
                     \/ \A a \in focus \cap {"cpu", "disk", "network", "memory", "process", "stacks"} :
                           \E k \in tools : Category(k.name) = focusCategory(a)

\* Every call is answered.
CallsAnswered == \A c \in Calls : Open(c) ~> call[c].pc = "answered"

-----------------------------------------------------------------------------
(* What the repository says and the code does not keep.                    *)

\* README: the quick profile takes 10 seconds, standard 30, deep 60: no call that
\* kept its profile's duration is open when Phase 1, that duration and the
\* shutdown of its tools are over.
ProfileTakesItsTime ==
    \A c \in Calls :
        Open(c) /\ call[c].config.Duration = Profile(c).Duration =>
            now <= call[c].begun + Tier1Max + Profile(c).Duration + 5 + gracefulShutdownTimeout

=============================================================================
