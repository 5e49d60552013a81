--------------------------- MODULE MCPServerProofs ---------------------------
(* Proofs about MCPServer for any calls, hosts, arguments, arrivals and bounds. *)
EXTENDS MCPServer, TLAPS

ProfileNames == {"quick"} \cup {args.profile : args \in Requests} \cup {flags.profile : flags \in Flags}
Focuses == {{}} \cup {{args.focus} : args \in Requests} \cup {flags.focus : flags \in Flags}

ConfigType ==
    [by : {"nobody", "get_health", "collect_metrics", "collect"}, Profile : ProfileNames,
     Focus : Focuses, Duration : Nat, timeout : Nat]

CollectorType == [name : Registry \cup Tier1Names, tier : 1..3]

CallType ==
    [pc : {"idle", "phase1", "between", "phase2", "answered"}, config : ConfigType,
     begun : Nat, since : Nat, tools : SUBSET CollectorType, running : SUBSET CollectorType]

TypeInv ==
    /\ now \in Nat /\ now < Never
    /\ stopAt \in Nat
    /\ call \in [Calls -> CallType]

\* Phase 1 began with the call and is within its time.
Phase1Timely(c) ==
    /\ call[c].since = call[c].begun
    /\ call[c].running = {}
    /\ now <= call[c].begun + Tier1Max
    /\ now <= ctxEnd(c)

\* Phase 2 began when Phase 1 was over, no tool is later than its SIGKILL, and the
\* last tool to return was not either.
Phase2Timely(c) ==
    /\ call[c].since <= call[c].begun + Tier1Max
    /\ call[c].running \subseteq call[c].tools
    /\ \A t \in call[c].running : now <= mustReturn(c, t)
    /\ \E t \in call[c].tools : now <= mustReturn(c, t)

\* What the handlers put into the configuration.
ConfigSound(c) ==
    /\ call[c].config.by = "get_health" => call[c].tools = {}
    /\ call[c].config.by = "nobody" => call[c].pc = "idle"
    /\ call[c].config.by = "collect_metrics" => call[c].config.timeout = collectMetricsTimeout
    /\ call[c].config.by = "collect" => call[c].config.timeout = Never

Timely(c) ==
    /\ call[c].pc \in {"phase1", "between"} => Phase1Timely(c)
    /\ call[c].pc = "phase2" => Phase2Timely(c)
    /\ call[c].pc = "idle" => call[c].running = {}
    /\ call[c].pc = "answered" => call[c].running = {}
    /\ ConfigSound(c)

IInv == TypeInv /\ \A c \in Calls : Timely(c)
-----------------------------------------------------------------------------
(* The profiles and the tools.                                             *)

\* Whatever the name, GetProfile finds a profile.
LEMMA ProfileDuration ==
    ASSUME NEW name
    PROVE  GetProfile(name).Duration \in {10, 30, 60}
<1>1. DOMAIN profiles = {"quick", "standard", "deep"}
  BY DEF profiles
<1>2. /\ profiles["quick"].Duration = 10
      /\ profiles["standard"].Duration = 30
      /\ profiles["deep"].Duration = 60
  BY DEF profiles
<1>3. QED
  BY <1>1, <1>2 DEF GetProfile

\* What RegisterCollectors registers.
LEMMA Registered ==
    ASSUME NEW h, NEW profile
    PROVE  /\ RegisterCollectors(h, profile) \subseteq CollectorType
           /\ \A k \in RegisterCollectors(h, profile) : k.name \in Tier1Names => ~Heavy(k)
<1> SUFFICES ASSUME NEW k \in RegisterCollectors(h, profile)
             PROVE  k \in CollectorType /\ (k.name \in Tier1Names => ~Heavy(k))
  OBVIOUS
<1>1. CASE \E name \in Tier1Names : k = Collector(name, 1)
  BY <1>1 DEF Collector, CollectorType, Heavy
<1>2. ASSUME NEW t, k \in addBCC(h, t)
      PROVE  k \in CollectorType /\ (k.name \in Tier1Names => ~Heavy(k))
  <2>1. t \notin Tier1Names
    BY <1>2 DEF addBCC
  <2>2. (k = Native /\ t = "tcpretrans") \/ k \in BCC(h, t)
    BY <1>2 DEF addBCC
  <2>3. CASE k = Native /\ t = "tcpretrans"
    <3>1. "tcpretrans" \in Registry
      BY DEF Registry, NetworkTools
    <3>2. QED
      BY <2>1, <2>3, <3>1 DEF Native, Collector, CollectorType
  <2>4. CASE k \in BCC(h, t)
    <3>1. t \in Registry /\ k = Collector(t, 2)
      BY <2>4 DEF BCC
    <3>2. QED
      BY <2>1, <3>1 DEF Collector, CollectorType
  <2>5. QED
    BY <2>2, <2>3, <2>4
<1>3. QED
  BY <1>1, <1>2 DEF RegisterCollectors
-----------------------------------------------------------------------------
(* Deadlines.                                                              *)

\* Every deadline is a time, and how the deadlines of a call are ordered.
LEMMA Deadlines ==
    ASSUME TypeInv, NEW c \in Calls
    PROVE  /\ call[c].begun \in Nat /\ call[c].since \in Nat
           /\ runTimeout(c) \in 40..90 /\ runTimeout(c) = Profile(c).Duration + 30
           /\ Deadline(c) \in Nat /\ ctxEnd(c) \in Nat
           /\ Deadline(c) <= call[c].begun + runTimeout(c)
           /\ ctxEnd(c) <= Deadline(c) /\ ctxEnd(c) <= stopAt
<1>1. /\ call[c].begun \in Nat /\ call[c].since \in Nat
      /\ call[c].config.timeout \in Nat /\ stopAt \in Nat
  BY DEF TypeInv, CallType, ConfigType
<1>2. Profile(c).Duration \in {10, 30, 60}
  BY ProfileDuration DEF Profile
<1>3. runTimeout(c) \in 40..90 /\ runTimeout(c) = Profile(c).Duration + 30
  BY <1>2 DEF runTimeout
<1>4. /\ Deadline(c) \in Nat /\ Deadline(c) <= call[c].begun + runTimeout(c)
  BY <1>1, <1>3 DEF Deadline, Earlier
<1>5. ctxEnd(c) \in Nat /\ ctxEnd(c) <= Deadline(c) /\ ctxEnd(c) <= stopAt
  BY <1>1, <1>4 DEF ctxEnd, Earlier
<1>6. QED
  BY <1>1, <1>3, <1>4, <1>5

\* The deadlines of a tool lie within those of its call.
LEMMA ToolDeadlines ==
    ASSUME TypeInv, NEW c \in Calls, NEW t
    PROVE  /\ toolDuration(c, t) \in Nat
           /\ toolEnd(c, t) \in Nat /\ mustReturn(c, t) \in Nat
           /\ toolEnd(c, t) <= ctxEnd(c)
           /\ mustReturn(c, t) <= ctxEnd(c) + gracefulShutdownTimeout
           /\ t = Native => mustReturn(c, t) = ctxEnd(c)
           /\ t # Native => mustReturn(c, t)
                 <= call[c].since + toolDuration(c, t) + 5 + gracefulShutdownTimeout
<1>1. call[c].since \in Nat /\ call[c].config.Duration \in Nat
  BY DEF TypeInv, CallType, ConfigType
<1>2. ctxEnd(c) \in Nat
  BY Deadlines
<1>3. toolDuration(c, t) \in Nat
  BY <1>1 DEF toolDuration, Later
<1>4. /\ toolEnd(c, t) \in Nat /\ toolEnd(c, t) <= ctxEnd(c)
      /\ t = Native => toolEnd(c, t) = ctxEnd(c)
      /\ t # Native => toolEnd(c, t) <= call[c].since + toolDuration(c, t) + 5
  BY <1>1, <1>2, <1>3 DEF toolEnd, Earlier
<1>5. QED
  BY <1>2, <1>3, <1>4, <1>1 DEF mustReturn, gracefulShutdownTimeout
-----------------------------------------------------------------------------
(* The invariant.                                                          *)

\* A process starts without calls.
LEMMA InitIInv == Init => IInv
<1> SUFFICES ASSUME Init PROVE IInv
  OBVIOUS
<1>1. Idle \in CallType
  BY DEF Idle, Config, CallType, ConfigType, ProfileNames, Focuses
<1>2. TypeInv
  BY <1>1, ServerAssumption DEF Init, TypeInv
<1>3. \A c \in Calls : Timely(c)
  BY DEF Init, Timely, ConfigSound, Idle, Config
<1>4. QED
  BY <1>2, <1>3 DEF IInv

\* What a step does not touch about a call stays as it is.
LEMMA Untouched ==
    ASSUME NEW c \in Calls, Timely(c), call'[c] = call[c], now' = now, stopAt' = stopAt
    PROVE  Timely(c)'
<1>1. ctxEnd(c)' = ctxEnd(c)
  BY DEF ctxEnd, Deadline, runTimeout, Profile
<1>2. \A t : mustReturn(c, t)' = mustReturn(c, t)
  BY <1>1 DEF mustReturn, toolEnd, toolDuration
<1>3. Phase1Timely(c)' <=> Phase1Timely(c)
  BY <1>1 DEF Phase1Timely
<1>4. Phase2Timely(c)' <=> Phase2Timely(c)
  BY <1>2 DEF Phase2Timely
<1>5. QED
  BY <1>3, <1>4 DEF Timely, ConfigSound

\* A step of one call.
LEMMA OneCall ==
    ASSUME IInv, NEW c \in Calls, NEW k \in CallType, call' = [call EXCEPT ![c] = k],
           now' = now, stopAt' = stopAt, Timely(c)'
    PROVE  IInv'
<1>1. TypeInv'
  BY DEF IInv, TypeInv
<1>2. ASSUME NEW d \in Calls, d # c PROVE Timely(d)'
  <2>1. call'[d] = call[d]
    BY <1>2 DEF IInv, TypeInv
  <2>2. QED
    BY <2>1, Untouched DEF IInv
<1>3. QED
  BY <1>1, <1>2 DEF IInv

\* A call begins its run: its context has not ended yet.
LEMMA RunStep ==
    ASSUME IInv, NEW c \in Calls, NEW config \in ConfigType,
           NEW collectors \in SUBSET CollectorType, Run(c, config, collectors),
           now' = now, stopAt' = stopAt, ~Interrupted,
           config.by # "nobody",
           config.by = "get_health" => \A k \in collectors : ~Heavy(k),
           config.by = "collect_metrics" => config.timeout = collectMetricsTimeout,
           config.by = "collect" => config.timeout = Never
    PROVE  IInv'
<1> DEFINE tools == {k \in filterCollectors(collectors, GetProfile(config.Profile), config.Focus) :
                        Heavy(k)}
           new == [pc |-> "phase1", config |-> config, begun |-> now, since |-> now,
                   running |-> {}, tools |-> tools]
<1>1. call' = [call EXCEPT ![c] = new]
  BY DEF Run
<1>2. tools \subseteq collectors /\ \A k \in tools : Heavy(k)
  BY DEF filterCollectors
<1> HIDE DEF tools
<1>3. now \in Nat /\ now < Never /\ stopAt = Never /\ Never \in Nat
  BY ServerAssumption DEF IInv, TypeInv, Interrupted
<1>4. new \in CallType
  BY <1>2, <1>3 DEF CallType
<1>5. call'[c] = new
  BY <1>1 DEF IInv, TypeInv
<1>6. /\ call'[c].pc = "phase1" /\ call'[c].begun = now /\ call'[c].since = now
      /\ call'[c].running = {} /\ call'[c].config = config /\ call'[c].tools = tools
  BY <1>5
<1> HIDE DEF new
<1>7. now <= ctxEnd(c)'
  <2>1. Profile(c)'.Duration \in {10, 30, 60}
    BY ProfileDuration DEF Profile
  <2>2. config.timeout \in Nat
    BY DEF ConfigType
  <2>3. runTimeout(c)' \in Nat
    BY <2>1 DEF runTimeout
  <2>4. Deadline(c)' \in Nat /\ now <= Deadline(c)'
    BY <1>3, <1>6, <2>2, <2>3 DEF Deadline, Earlier
  <2>5. QED
    BY <1>3, <2>4 DEF ctxEnd, Earlier
<1>8. Phase1Timely(c)'
  BY <1>3, <1>6, <1>7, ServerAssumption DEF Phase1Timely
<1>9. ConfigSound(c)'
  BY <1>2, <1>6 DEF ConfigSound
<1>10. Timely(c)'
  BY <1>6, <1>8, <1>9 DEF Timely
<1>11. QED
  BY <1>1, <1>4, <1>10, OneCall

\* The handlers and the collect command.
LEMMA ArrivalStep ==
    ASSUME IInv, Arrival
    PROVE  IInv'
<1>1. ASSUME NEW c \in Calls, handleGetHealth(c) PROVE IInv'
  <2> DEFINE all == RegisterCollectors(host, GetProfile("quick"))
             some == {k \in all : k.name \in Tier1Names \ {"gpu_pcie"}}
  <2>1. some \in SUBSET CollectorType /\ \A k \in some : ~Heavy(k)
    BY Registered
  <2>2. /\ Run(c, HealthConfig, some) /\ ~Interrupted
        /\ now' = now /\ stopAt' = stopAt
    BY <1>1 DEF handleGetHealth, Accepted
  <2>3. HealthConfig \in ConfigType /\ HealthConfig.by = "get_health"
    BY DEF HealthConfig, Config, ConfigType, ProfileNames, Focuses, healthCheckTimeout
  <2> HIDE DEF some
  <2>4. QED
    BY <2>1, <2>2, <2>3, RunStep
<1>2. ASSUME NEW c \in Calls, NEW args \in Requests, handleCollectMetrics(c, args) PROVE IInv'
  <2> DEFINE name == IF args.profile = "" THEN "quick" ELSE args.profile
             focus == IF args.focus \in {"", "all"} THEN {} ELSE {args.focus}
             profile == GetProfile(name)
             config == Config("collect_metrics", name, focus, profile.Duration, collectMetricsTimeout)
             all == RegisterCollectors(host, profile)
  <2>1. all \in SUBSET CollectorType
    BY Registered
  <2>2. /\ Run(c, config, all) /\ ~Interrupted
        /\ now' = now /\ stopAt' = stopAt
    BY <1>2 DEF handleCollectMetrics, Accepted
  <2>3. name \in ProfileNames
    BY DEF ProfileNames
  <2>4. focus \in Focuses
    BY DEF Focuses
  <2>5. profile.Duration \in {10, 30, 60}
    BY ProfileDuration
  <2> HIDE DEF name, focus, profile, all
  <2>6. config \in ConfigType
    BY <2>3, <2>4, <2>5 DEF Config, ConfigType, collectMetricsTimeout
  <2>7. config.by = "collect_metrics" /\ config.timeout = collectMetricsTimeout
    BY DEF Config
  <2> HIDE DEF config
  <2>8. QED
    BY <2>1, <2>2, <2>6, <2>7, RunStep
<1>3. ASSUME NEW c \in Calls, NEW flags \in Flags, collect(c, flags) PROVE IInv'
  <2> DEFINE profile == GetProfile(flags.profile)
             duration == IF flags.duration = 0 THEN profile.Duration ELSE flags.duration
             config == Config("collect", flags.profile, flags.focus, duration, Never)
             all == RegisterCollectors(host, profile)
  <2>1. all \in SUBSET CollectorType
    BY Registered
  <2>2. /\ Run(c, config, all) /\ ~Interrupted
        /\ now' = now /\ stopAt' = stopAt
    BY <1>3 DEF collect
  <2>3. flags.profile \in ProfileNames /\ flags.focus \in Focuses /\ duration \in Nat
    BY ProfileDuration, ServerAssumption DEF ProfileNames, Focuses
  <2> HIDE DEF duration, profile, all
  <2>4. config \in ConfigType
    BY <2>3, ServerAssumption DEF Config, ConfigType
  <2>5. config.by = "collect" /\ config.timeout = Never
    BY DEF Config
  <2> HIDE DEF config
  <2>6. QED
    BY <2>1, <2>2, <2>4, <2>5, RunStep
<1>4. QED
  BY <1>1, <1>2, <1>3 DEF Arrival

\* A step that only moves a call on: its deadlines stay.
LEMMA SameDeadlines ==
    ASSUME TypeInv, NEW c \in Calls, stopAt' = stopAt,
           call'[c].begun = call[c].begun, call'[c].config = call[c].config
    PROVE  /\ ctxEnd(c)' = ctxEnd(c)
           /\ call'[c].since = call[c].since => \A t : mustReturn(c, t)' = mustReturn(c, t)
<1>1. ctxEnd(c)' = ctxEnd(c)
  BY DEF ctxEnd, Deadline, runTimeout, Profile
<1>2. QED
  BY <1>1 DEF mustReturn, toolEnd, toolDuration

\* Phase 1 ends.
LEMMA BaselineStep ==
    ASSUME IInv, NEW c \in Calls, BaselineReturns(c)
    PROVE  IInv'
<1> DEFINE k == [call[c] EXCEPT !.pc = "between"]
<1>1. /\ call[c].pc = "phase1" /\ call' = [call EXCEPT ![c] = k]
      /\ now' = now /\ stopAt' = stopAt
  BY DEF BaselineReturns
<1>2. call[c] \in CallType /\ TypeInv /\ Timely(c)
  BY DEF IInv, TypeInv
<1>3. k \in CallType
  BY <1>2 DEF CallType
<1>4. /\ call'[c].pc = "between" /\ call'[c].config = call[c].config
      /\ call'[c].begun = call[c].begun /\ call'[c].since = call[c].since
      /\ call'[c].tools = call[c].tools /\ call'[c].running = call[c].running
  BY <1>1, <1>2 DEF TypeInv, CallType
<1> HIDE DEF k
<1>5. ctxEnd(c)' = ctxEnd(c)
  BY <1>1, <1>2, <1>4, SameDeadlines
<1>6. Phase1Timely(c)
  BY <1>1, <1>2 DEF Timely
<1>7. Phase1Timely(c)'
  BY <1>1, <1>4, <1>5, <1>6 DEF Phase1Timely
<1>8. Timely(c)'
  BY <1>1, <1>2, <1>4, <1>7 DEF Timely, ConfigSound
<1>9. QED
  BY <1>1, <1>3, <1>8, OneCall

\* A tool that starts now has time: the context of its run has not ended.
LEMMA BetweenStep ==
    ASSUME IInv, NEW c \in Calls, Between(c)
    PROVE  IInv'
<1>1. call[c].pc = "between" /\ now' = now /\ stopAt' = stopAt
  BY DEF Between
<1>2. call[c] \in CallType /\ TypeInv /\ Timely(c) /\ now \in Nat
  BY DEF IInv, TypeInv
<1>3. Phase1Timely(c)
  BY <1>1, <1>2 DEF Timely
<1>4. CASE ctxDone(c) \/ call[c].tools = {}
  <2> DEFINE k == [call[c] EXCEPT !.pc = "answered"]
  <2>1. call' = [call EXCEPT ![c] = k]
    BY <1>4 DEF Between
  <2>2. k \in CallType
    BY <1>2 DEF CallType
  <2>3. call'[c].pc = "answered" /\ call'[c].config = call[c].config
        /\ call'[c].tools = call[c].tools /\ call'[c].running = call[c].running
    BY <2>1, <1>2 DEF TypeInv, CallType
  <2>4. Timely(c)'
    BY <1>1, <1>2, <1>3, <2>3 DEF Timely, ConfigSound, Phase1Timely
  <2> HIDE DEF k
  <2>5. QED
    BY <1>1, <2>1, <2>2, <2>4, OneCall
<1>5. CASE ~(ctxDone(c) \/ call[c].tools = {})
  <2> DEFINE k == [call[c] EXCEPT !.pc = "phase2", !.since = now, !.running = call[c].tools]
  <2>1. call' = [call EXCEPT ![c] = k]
    <3>1. call' = [call EXCEPT ![c].pc = "phase2", ![c].since = now, ![c].running = call[c].tools]
      BY <1>5 DEF Between
    <3>2. QED
      BY <3>1, <1>2 DEF TypeInv, CallType
  <2>2. k \in CallType
    BY <1>2 DEF CallType
  <2>3. /\ call'[c].pc = "phase2" /\ call'[c].config = call[c].config
        /\ call'[c].begun = call[c].begun /\ call'[c].since = now
        /\ call'[c].tools = call[c].tools /\ call'[c].running = call[c].tools
    BY <2>1, <1>2 DEF TypeInv, CallType
  <2> HIDE DEF k
  <2>4. ctxEnd(c)' = ctxEnd(c) /\ ctxEnd(c) \in Nat /\ now < ctxEnd(c)
    BY <1>1, <1>2, <1>5, <2>3, SameDeadlines, Deadlines DEF ctxDone
  <2>5. ASSUME NEW t PROVE now <= mustReturn(c, t)'
    <3>1. toolDuration(c, t)' \in Nat
      <4>1. call'[c].config.Duration \in Nat
        BY <1>2, <2>3 DEF CallType, ConfigType
      <4>2. QED
        BY <4>1 DEF toolDuration, Later
    <3>2. now <= toolEnd(c, t)' /\ toolEnd(c, t)' \in Nat
      BY <1>2, <2>3, <2>4, <3>1 DEF toolEnd, Earlier
    <3>3. QED
      BY <1>2, <3>2 DEF mustReturn, gracefulShutdownTimeout
  <2>6. Phase2Timely(c)'
    BY <1>1, <1>3, <1>5, <2>3, <2>5 DEF Phase2Timely, Phase1Timely
  <2>7. Timely(c)'
    BY <1>1, <1>2, <2>3, <2>6 DEF Timely, ConfigSound
  <2>8. QED
    BY <1>1, <2>1, <2>2, <2>7, OneCall
<1>6. QED
  BY <1>4, <1>5

\* A tool returns; it was not too late, so neither is the run if it was the last.
LEMMA ToolStep ==
    ASSUME IInv, NEW c \in Calls, NEW t \in call[c].running, ToolReturns(c, t)
    PROVE  IInv'
<1> DEFINE k == [call[c] EXCEPT !.running = call[c].running \ {t}]
<1>1. /\ call[c].pc = "phase2" /\ call' = [call EXCEPT ![c] = k]
      /\ now' = now /\ stopAt' = stopAt
  BY DEF ToolReturns
<1>2. call[c] \in CallType /\ TypeInv /\ Timely(c)
  BY DEF IInv, TypeInv
<1>3. k \in CallType
  BY <1>2 DEF CallType
<1>4. /\ call'[c].pc = "phase2" /\ call'[c].config = call[c].config
      /\ call'[c].begun = call[c].begun /\ call'[c].since = call[c].since
      /\ call'[c].tools = call[c].tools /\ call'[c].running = call[c].running \ {t}
  BY <1>1, <1>2 DEF TypeInv, CallType
<1> HIDE DEF k
<1>5. \A u : mustReturn(c, u)' = mustReturn(c, u)
  BY <1>1, <1>2, <1>4, SameDeadlines
<1>6. Phase2Timely(c)
  BY <1>1, <1>2 DEF Timely
<1>7. Phase2Timely(c)'
  BY <1>1, <1>4, <1>5, <1>6 DEF Phase2Timely
<1>8. Timely(c)'
  BY <1>1, <1>2, <1>4, <1>7 DEF Timely, ConfigSound
<1>9. QED
  BY <1>1, <1>3, <1>8, OneCall

\* A call that is answered has no deadline left.
LEMMA AnswerStep ==
    ASSUME IInv, NEW c \in Calls, Answer(c)
    PROVE  IInv'
<1> DEFINE k == [call[c] EXCEPT !.pc = "answered"]
<1>1. /\ call[c].pc = "phase2" /\ call[c].running = {} /\ call' = [call EXCEPT ![c] = k]
      /\ now' = now /\ stopAt' = stopAt
  BY DEF Answer
<1>2. call[c] \in CallType /\ TypeInv /\ Timely(c)
  BY DEF IInv, TypeInv
<1>3. k \in CallType
  BY <1>2 DEF CallType
<1>4. /\ call'[c].pc = "answered" /\ call'[c].config = call[c].config
      /\ call'[c].tools = call[c].tools /\ call'[c].running = {}
  BY <1>1, <1>2 DEF TypeInv, CallType
<1> HIDE DEF k
<1>5. Timely(c)'
  BY <1>1, <1>2, <1>4 DEF Timely, ConfigSound
<1>6. QED
  BY <1>1, <1>3, <1>5, OneCall

\* A signal ends every context now; what was on time still is.
LEMMA SignalStep ==
    ASSUME IInv, Signal
    PROVE  IInv'
<1>1. call' = call /\ now' = now /\ stopAt' = now /\ stopAt = Never
  BY DEF Signal, Interrupted
<1>2. TypeInv /\ TypeInv' /\ now \in Nat /\ now < stopAt
  BY <1>1 DEF IInv, TypeInv
<1>3. ASSUME NEW c \in Calls PROVE Timely(c)'
  <2>1. Timely(c)
    BY DEF IInv
  <2>2. /\ Deadline(c)' = Deadline(c) /\ Deadline(c) \in Nat
        /\ ctxEnd(c) \in Nat /\ ctxEnd(c) = Earlier(Deadline(c), stopAt)
        /\ ctxEnd(c)' = Earlier(Deadline(c), now)
        /\ stopAt \in Nat
    BY <1>1, <1>2, Deadlines DEF Deadline, runTimeout, Profile, ctxEnd, TypeInv
  <2>3. now <= ctxEnd(c) => now <= ctxEnd(c)'
    BY <1>2, <2>2 DEF Earlier
  <2>4. ctxEnd(c)' \in Nat /\ (ctxEnd(c)' = ctxEnd(c) \/ now <= ctxEnd(c)')
    BY <1>1, <1>2, <2>2 DEF Earlier
  <2>5. ASSUME NEW t, now <= mustReturn(c, t) PROVE now <= mustReturn(c, t)'
    <3>1. toolDuration(c, t)' = toolDuration(c, t) /\ toolDuration(c, t) \in Nat
      BY <1>1, <1>2, ToolDeadlines DEF toolDuration
    <3>2. CASE ctxEnd(c)' = ctxEnd(c)
      BY <1>1, <2>5, <3>1, <3>2 DEF mustReturn, toolEnd
    <3>3. CASE now <= ctxEnd(c)'
      <4>1. call[c].since \in Nat
        BY <1>2, Deadlines
      <4>2. CASE t = Native
        BY <3>3, <4>2 DEF mustReturn, toolEnd
      <4>3. CASE t # Native
        <5> DEFINE own == call[c].since + toolDuration(c, t) + 5
        <5>1. own \in Nat /\ toolEnd(c, t) = Earlier(own, ctxEnd(c))
              /\ toolEnd(c, t)' = Earlier(own, ctxEnd(c)')
          BY <1>1, <3>1, <4>1, <4>3 DEF toolEnd
        <5> HIDE DEF own
        <5>2. toolEnd(c, t) <= own /\ toolEnd(c, t) \in Nat
          BY <2>2, <5>1 DEF Earlier
        <5>3. now <= own + gracefulShutdownTimeout
          BY <1>2, <2>5, <4>3, <5>1, <5>2 DEF mustReturn, gracefulShutdownTimeout
        <5>4. now <= toolEnd(c, t)' + gracefulShutdownTimeout
          BY <1>2, <2>4, <3>3, <5>1, <5>3 DEF Earlier, gracefulShutdownTimeout
        <5>5. QED
          BY <4>3, <5>4 DEF mustReturn
      <4>4. QED
        BY <4>2, <4>3
    <3>4. QED
      BY <2>4, <3>2, <3>3
  <2>6. Phase1Timely(c) => Phase1Timely(c)'
    BY <1>1, <2>3 DEF Phase1Timely
  <2>7. Phase2Timely(c) => Phase2Timely(c)'
    BY <1>1, <2>5 DEF Phase2Timely
  <2>8. QED
    BY <1>1, <2>1, <2>6, <2>7 DEF Timely, ConfigSound
<1>4. QED
  BY <1>2, <1>3 DEF IInv

\* The timers of a call are times.
LEMMA TimersTyped ==
    ASSUME TypeInv, NEW c \in Calls
    PROVE  Timers(c) \subseteq Nat
<1>1. call[c].since + SampleInterval \in Nat /\ call[c].since + Tier1Max \in Nat /\ ctxEnd(c) \in Nat
  BY Deadlines, ServerAssumption DEF SampleInterval
<1>2. \A t : /\ call[c].since + toolDuration(c, t) \in Nat
             /\ toolEnd(c, t) \in Nat /\ mustReturn(c, t) \in Nat
  BY Deadlines, ToolDeadlines
<1>3. QED
  BY <1>1, <1>2 DEF Timers

\* The clock does not jump over a timer.
LEMMA NoJump ==
    ASSUME TypeInv, Tick, NEW c \in Calls, NEW t \in Timers(c), now < t
    PROVE  now' <= t
<1> DEFINE due == {x \in ArrivalTimes \cup UNION {Timers(d) : d \in Calls} : now < x /\ x < Never}
<1>1. PICK next \in due : now' = next /\ \A x \in due : next <= x
  BY DEF Tick
<1>2. t \in Nat /\ t \in UNION {Timers(d) : d \in Calls}
  BY TimersTyped
<1>3. next \in Nat /\ next < Never /\ Never \in Nat
  BY <1>1, TimersTyped, ServerAssumption
<1>4. CASE t < Never
  BY <1>1, <1>2, <1>4
<1>5. CASE ~(t < Never)
  BY <1>1, <1>2, <1>3, <1>5
<1>6. QED
  BY <1>4, <1>5

\* Time passes when nothing is overdue, and stops at the next deadline.
LEMMA TickStep ==
    ASSUME IInv, Tick
    PROVE  IInv'
<1>1. call' = call /\ stopAt' = stopAt /\ \A c \in Calls : ~Overdue(c)
  BY DEF Tick
<1>2. TypeInv
  BY DEF IInv
<1>3. now' \in Nat /\ now' < Never
  <2>1. PICK x \in ArrivalTimes \cup UNION {Timers(d) : d \in Calls} : now' = x /\ x < Never
    BY DEF Tick
  <2>2. QED
    BY <1>2, <2>1, TimersTyped, ServerAssumption
<1>4. TypeInv'
  BY <1>1, <1>2, <1>3 DEF TypeInv
<1>5. ASSUME NEW c \in Calls PROVE Timely(c)'
  <2>1. Timely(c) /\ ~Overdue(c) /\ now \in Nat
    BY <1>1, <1>2 DEF IInv, TypeInv
  <2>2. ctxEnd(c)' = ctxEnd(c) /\ \A t : mustReturn(c, t)' = mustReturn(c, t)
    BY <1>1, <1>2, SameDeadlines
  <2>3. call[c].begun \in Nat /\ call[c].since \in Nat /\ ctxEnd(c) \in Nat /\ Tier1Max \in Nat
    BY <1>2, Deadlines, ServerAssumption
  <2>4. ASSUME call[c].pc = "phase1" PROVE Phase1Timely(c)'
    <3>1. Phase1Timely(c)
      BY <2>1, <2>4 DEF Timely
    <3>2. ~(now >= Earlier(call[c].since + Tier1Max, ctxEnd(c)))
      BY <2>1, <2>4 DEF Overdue
    <3>3. now < call[c].since + Tier1Max /\ now < ctxEnd(c)
      BY <2>1, <2>3, <3>2 DEF Earlier
    <3>4. call[c].since + Tier1Max \in Timers(c) /\ ctxEnd(c) \in Timers(c)
      BY <2>4 DEF Timers, Open
    <3>5. now' <= call[c].since + Tier1Max /\ now' <= ctxEnd(c)
      BY <1>2, <3>3, <3>4, NoJump
    <3>6. QED
      BY <1>1, <2>2, <3>1, <3>5 DEF Phase1Timely
  <2>5. call[c].pc # "between"
    BY <2>1 DEF Overdue
  <2>6. ASSUME call[c].pc = "phase2" PROVE Phase2Timely(c)'
    <3>1. Phase2Timely(c)
      BY <2>1, <2>6 DEF Timely
    <3>2. call[c].running # {} /\ \A t \in call[c].running : ~(now >= mustReturn(c, t))
      BY <2>1, <2>6 DEF Overdue
    <3>3. ASSUME NEW t \in call[c].running PROVE now' <= mustReturn(c, t)
      <4>1. mustReturn(c, t) \in Nat
        BY <1>2, ToolDeadlines
      <4>2. now < mustReturn(c, t)
        BY <2>1, <3>2, <4>1
      <4>3. mustReturn(c, t) \in Timers(c)
        BY <2>6 DEF Timers, Open
      <4>4. QED
        BY <1>2, <4>2, <4>3, NoJump
    <3>4. QED
      BY <1>1, <2>2, <3>1, <3>2, <3>3 DEF Phase2Timely
  <2>7. QED
    BY <1>1, <2>1, <2>4, <2>5, <2>6 DEF Timely, ConfigSound
<1>6. QED
  BY <1>4, <1>5 DEF IInv

\* IInv is inductive.
LEMMA StepIInv == IInv /\ [Next]_vars => IInv'
<1> SUFFICES ASSUME IInv, [Next]_vars PROVE IInv'
  OBVIOUS
<1>1. CASE UNCHANGED vars
  <2>1. call' = call /\ now' = now /\ stopAt' = stopAt
    BY <1>1 DEF vars
  <2>2. TypeInv'
    BY <2>1 DEF IInv, TypeInv
  <2>3. \A c \in Calls : Timely(c)'
    BY <2>1, Untouched DEF IInv
  <2>4. QED
    BY <2>2, <2>3 DEF IInv
<1>2. CASE Arrival
  BY <1>2, ArrivalStep
<1>3. CASE Signal
  BY <1>3, SignalStep
<1>4. CASE Tick
  BY <1>4, TickStep
<1>5. ASSUME NEW c \in Calls, Progress(c) PROVE IInv'
  BY <1>5, BaselineStep, BetweenStep, ToolStep, AnswerStep DEF Progress
<1>6. QED
  BY <1>1, <1>2, <1>3, <1>4, <1>5 DEF Next
-----------------------------------------------------------------------------
(* Theorems.                                                               *)

\* The types and the deadlines of every call, in every run of the process.
THEOREM Invariance == Spec => []IInv
<1>1. QED
  BY InitIInv, StepIInv, PTL DEF Spec

\* The longest tool of a call.
LEMMA LongestTool ==
    ASSUME TypeInv, NEW c \in Calls, NEW tools
    PROVE  LET longest == Max({0} \cup {toolDuration(c, t) : t \in tools}) IN
           /\ longest \in Nat
           /\ \A t \in tools : toolDuration(c, t) <= longest
<1> DEFINE S == {0} \cup {toolDuration(c, t) : t \in tools}
           short == call[c].config.Duration
           long == Later(5, short)
<1>1. short \in Nat
  BY DEF TypeInv, CallType, ConfigType
<1>2. long \in Nat /\ short <= long
  BY <1>1 DEF Later
<1>3. \A t : toolDuration(c, t) \in {short, long}
  BY DEF toolDuration
<1>4. S \subseteq {0, short, long} /\ 0 \in S
  BY <1>3
<1> HIDE DEF S, short, long
<1>5. \E x \in S : \A y \in S : x >= y
  <2>1. CASE long \in S
    BY <1>1, <1>2, <1>4, <2>1
  <2>2. CASE long \notin S /\ short \in S
    BY <1>1, <1>2, <1>4, <2>2
  <2>3. CASE long \notin S /\ short \notin S
    BY <1>4, <2>3
  <2>4. QED
    BY <2>1, <2>2, <2>3
<1>6. Max(S) \in S /\ \A y \in S : Max(S) >= y
  BY <1>5 DEF Max
<1>7. Max(S) \in Nat
  <2>1. Max(S) \in {0, short, long}
    BY <1>4, <1>6
  <2>2. QED
    BY <1>1, <1>2, <2>1
<1>8. ASSUME NEW t \in tools PROVE toolDuration(c, t) <= Max(S)
  <2>1. toolDuration(c, t) \in S /\ toolDuration(c, t) \in Nat
    BY <1>1, <1>2, <1>3 DEF S
  <2>2. QED
    BY <1>6, <1>7, <2>1
<1>9. QED
  BY <1>7, <1>8 DEF S

\* No call is open longer than its profile, its deadlines and the escalation to
\* SIGKILL allow, nor longer than three seconds after a signal.
THEOREM CallsInTime == Spec => []AnsweredInTime
<1>1. ASSUME IInv, NEW c \in Calls, Open(c)
      PROVE  now <= call[c].begun + Expected(c) /\ now <= stopAt + gracefulShutdownTimeout
  <2> DEFINE tools == call[c].tools
             longest == Max({0} \cup {toolDuration(c, t) : t \in tools})
             bcc == Tier1Max + 5 + gracefulShutdownTimeout + longest
             run == runTimeout(c) + gracefulShutdownTimeout
  <2>1. TypeInv /\ Timely(c) /\ now \in Nat /\ stopAt \in Nat /\ Tier1Max \in Nat
    BY <1>1, ServerAssumption DEF IInv, TypeInv
  <2>2. longest \in Nat /\ \A t \in tools : toolDuration(c, t) <= longest
    BY <2>1, LongestTool
  <2>3. /\ call[c].begun \in Nat /\ runTimeout(c) \in Nat /\ ctxEnd(c) \in Nat
        /\ ctxEnd(c) <= call[c].begun + runTimeout(c) /\ ctxEnd(c) <= stopAt
    <3>1. /\ call[c].begun \in Nat /\ runTimeout(c) \in 40..90 /\ ctxEnd(c) \in Nat
          /\ Deadline(c) \in Nat /\ Deadline(c) <= call[c].begun + runTimeout(c)
          /\ ctxEnd(c) <= Deadline(c) /\ ctxEnd(c) <= stopAt
      BY <2>1, Deadlines
    <3>2. QED
      BY <2>1, <3>1
  <2>4. /\ tools = {} => Expected(c) = Tier1Max
        /\ tools # {} /\ call[c].config.by # "get_health" =>
              Expected(c) = IF Native \in tools THEN run ELSE Earlier(bcc, run)
    BY DEF Expected
  <2>5. call[c].config.by = "get_health" => tools = {}
    BY <2>1 DEF Timely, ConfigSound
  <2> HIDE DEF tools, longest
  <2>6. CASE call[c].pc \in {"phase1", "between"}
    <3>1. now <= call[c].begun + Tier1Max /\ now <= ctxEnd(c)
      BY <2>1, <2>6 DEF Timely, Phase1Timely
    <3>2. now <= call[c].begun + bcc /\ now <= call[c].begun + run
      BY <2>1, <2>2, <2>3, <3>1 DEF gracefulShutdownTimeout
    <3>3. bcc \in Nat /\ run \in Nat
      BY <2>1, <2>2, <2>3 DEF gracefulShutdownTimeout
    <3> HIDE DEF bcc, run
    <3>4. now <= call[c].begun + Expected(c)
      BY <2>4, <2>5, <3>1, <3>2, <3>3 DEF Earlier
    <3>5. QED
      BY <2>1, <2>3, <3>1, <3>4 DEF gracefulShutdownTimeout
  <2>7. CASE call[c].pc = "phase2"
    <3>1. PICK t \in tools : now <= mustReturn(c, t)
      BY <2>1, <2>7 DEF Timely, Phase2Timely, tools
    <3>2. call[c].since <= call[c].begun + Tier1Max /\ call[c].since \in Nat
      BY <2>1, <2>7, Deadlines DEF Timely, Phase2Timely
    <3>3. /\ toolDuration(c, t) \in Nat /\ mustReturn(c, t) \in Nat
          /\ mustReturn(c, t) <= ctxEnd(c) + gracefulShutdownTimeout
          /\ t # Native => mustReturn(c, t)
                <= call[c].since + toolDuration(c, t) + 5 + gracefulShutdownTimeout
      BY <2>1, ToolDeadlines
    <3>4. now <= call[c].begun + run /\ now <= stopAt + gracefulShutdownTimeout
      BY <2>1, <2>3, <3>1, <3>3 DEF gracefulShutdownTimeout
    <3>5. t # Native => now <= call[c].begun + bcc
      BY <2>1, <2>2, <2>3, <3>1, <3>2, <3>3 DEF gracefulShutdownTimeout
    <3>6. bcc \in Nat /\ run \in Nat
      BY <2>1, <2>2, <2>3 DEF gracefulShutdownTimeout
    <3> HIDE DEF bcc, run
    <3>7. now <= call[c].begun + Expected(c)
      BY <2>4, <2>5, <3>1, <3>4, <3>5, <3>6 DEF Earlier
    <3>8. QED
      BY <3>4, <3>7
  <2>8. QED
    BY <1>1, <2>1, <2>6, <2>7 DEF Open, TypeInv, CallType
<1>2. IInv => AnsweredInTime
  BY <1>1 DEF AnsweredInTime
<1>3. QED
  BY <1>2, Invariance, PTL

\* The 30 seconds of Run on top of the profile's duration pay for Phase 1: its
\* deadline stops no tool whose duration leaves Phase 1 its time before that
\* duration is over.
THEOREM ToolsMeasureInFull == Spec => []MeasuresInFull
<1>1. ASSUME IInv, NEW c \in Calls, NEW t \in call[c].running \ {Native},
             now >= Deadline(c), Tier1Max + toolDuration(c, t) <= Profile(c).Duration + 30
      PROVE  now >= call[c].since + toolDuration(c, t)
  <2>1. TypeInv /\ Timely(c) /\ now \in Nat /\ now < Never /\ Tier1Max \in Nat /\ Never \in Nat
    BY <1>1, ServerAssumption DEF IInv, TypeInv
  <2>2. call[c].pc = "phase2" /\ t \in call[c].tools
    BY <1>1, <2>1 DEF Timely, Phase1Timely, Phase2Timely, TypeInv, CallType
  <2>3. call[c].since <= call[c].begun + Tier1Max
    BY <2>1, <2>2 DEF Timely, Phase2Timely
  <2>4. call[c].config.timeout \in {collectMetricsTimeout, Never}
    BY <2>1, <2>2 DEF Timely, ConfigSound, TypeInv, CallType, ConfigType
  <2>5. /\ call[c].begun \in Nat /\ call[c].since \in Nat /\ toolDuration(c, t) \in Nat
        /\ runTimeout(c) \in 40..90 /\ runTimeout(c) = Profile(c).Duration + 30
    BY <2>1, Deadlines, ToolDeadlines
  <2>6. now >= call[c].begun + runTimeout(c)
    BY <1>1, <2>1, <2>4, <2>5 DEF Deadline, Earlier, collectMetricsTimeout
  <2>7. QED
    BY <1>1, <2>1, <2>3, <2>5, <2>6
<1>2. IInv => MeasuresInFull
  BY <1>1 DEF MeasuresInFull
<1>3. QED
  BY <1>2, Invariance, PTL

\* The names in a profile are names of the registry or of Tier 1.
LEMMA ProfileTools ==
    ASSUME NEW name
    PROVE  LET profile == GetProfile(name) IN
           /\ Tools(profile) \ Tier1Names \subseteq Registry
           /\ profile.Collectors = All \/ Tools(profile) \subseteq profile.Collectors
           /\ profile.Collectors = All => Registry \subseteq Tools(profile)
           /\ name # "quick" => profile.Collectors = All
<1> DEFINE profile == GetProfile(name)
<1>1. DOMAIN profiles = {"quick", "standard", "deep"}
  BY DEF profiles
<1>2. CASE name = "quick"
  <2> DEFINE quick == {"cpu_utilization", "memory_info", "disk_stats", "network_stats",
                       "system_info", "process_info", "biolatency", "tcpretrans",
                       "opensnoop", "oomkill"}
  <2>1. profile.Collectors = quick /\ profile.Extra = {}
    BY <1>1, <1>2 DEF GetProfile, profiles
  <2>2. "biolatency" \in quick /\ "biolatency" \notin All
    BY DEF All
  <2>3. quick \ Tier1Names \subseteq {"biolatency", "tcpretrans", "opensnoop", "oomkill"}
    BY DEF Tier1Names
  <2>4. {"biolatency", "tcpretrans", "opensnoop", "oomkill"} \subseteq Registry
    BY DEF Registry, DiskTools, NetworkTools, ProcessTools, MemoryTools
  <2> HIDE DEF quick
  <2>5. Tools(profile) = quick /\ profile.Collectors # All
    BY <2>1, <2>2 DEF Tools
  <2>6. QED
    BY <1>2, <2>1, <2>3, <2>4, <2>5
<1>3. CASE name # "quick"
  <2>1. \/ profile = profiles["standard"] \/ profile = profiles["deep"]
    BY <1>1, <1>3 DEF GetProfile
  <2>2. /\ profiles["standard"].Collectors = All /\ profiles["standard"].Extra = {}
        /\ profiles["deep"].Collectors = All
        /\ profiles["deep"].Extra = {"memleak", "offwaketime", "biostacks", "wakeuptime",
                                     "biotop", "tcpstates", "tcplife"}
    BY DEF profiles
  <2>3. {"memleak", "offwaketime", "biostacks", "wakeuptime", "biotop", "tcpstates", "tcplife"}
           \subseteq Registry
    BY DEF Registry, MemoryTools, StackTools, DiskTools, NetworkTools
  <2>4. profile.Collectors = All /\ profile.Extra \subseteq Registry
    BY <2>1, <2>2, <2>3
  <2>5. Tools(profile) = Registry
    BY <2>4 DEF Tools
  <2>6. QED
    BY <1>3, <2>4, <2>5
<1>4. QED
  BY <1>2, <1>3

\* Where every tool resolves each tool but those of Tier 1 is registered.
LEMMA EquippedTool ==
    ASSUME NEW h, h.bcc = Registry, NEW t \in Registry, t \notin Tier1Names
    PROVE  \E k \in addBCC(h, t) : k.name = t /\ Heavy(k)
<1> DEFINE Kept == Collector(t, 2)
<1>1. Kept.name = t /\ Kept.tier = 2
  BY DEF Collector
<1>2. Native.name = "tcpretrans" /\ Native.tier = 3
  BY DEF Native, Collector
<1>3. Heavy(Kept) /\ Heavy(Native)
  BY <1>1, <1>2 DEF Heavy
<1>4. BCC(h, t) = {Kept}
  BY DEF BCC
<1> HIDE DEF Kept
<1>5. addBCC(h, t) = IF t = "tcpretrans" /\ h.native THEN {Native} ELSE {Kept}
  BY <1>4, Zenon DEF addBCC
<1>6. CASE t = "tcpretrans" /\ h.native
  <2>1. addBCC(h, t) = {Native}
    BY <1>5, <1>6, Zenon
  <2>2. QED
    BY <1>2, <1>3, <1>6, <2>1, Zenon
<1>7. CASE ~(t = "tcpretrans" /\ h.native)
  <2>1. addBCC(h, t) = {Kept}
    BY <1>5, <1>7, Zenon
  <2>2. QED
    BY <1>1, <1>3, <2>1, Zenon
<1>8. QED
  BY <1>6, <1>7

\* A registered tool has the name it was registered under.
LEMMA RegisteredName ==
    ASSUME NEW h, NEW profile, NEW k \in RegisterCollectors(h, profile), Heavy(k)
    PROVE  k.name \in Tools(profile) \ Tier1Names
<1>1. ASSUME NEW name \in Tier1Names, k = Collector(name, 1) PROVE FALSE
  BY <1>1 DEF Collector, Heavy
<1>2. ASSUME NEW t \in Tools(profile), k \in addBCC(h, t) PROVE k.name = t /\ t \notin Tier1Names
  BY <1>2 DEF addBCC, BCC, Native, Collector
<1>3. QED
  BY <1>1, <1>2 DEF RegisterCollectors

\* Every area of the focus has a tool in its category.
LEMMA AreaTool ==
    ASSUME NEW a \in {"cpu", "disk", "network", "memory", "process", "stacks"}
    PROVE  \E t \in Registry \ Tier1Names : Category(t) = focusCategory(a)
<1> USE DEF Category, focusCategory, CPUTools, DiskTools, NetworkTools, MemoryTools,
            ProcessTools, StackTools, Registry, Tier1Names
<1>1. CASE a = "cpu"
  <2>1. "runqlat" \in Registry \ Tier1Names /\ Category("runqlat") = "cpu"
    OBVIOUS
  <2>2. QED
    BY <1>1, <2>1
<1>2. CASE a = "disk"
  <2>1. "biolatency" \in Registry \ Tier1Names /\ Category("biolatency") = "disk"
    OBVIOUS
  <2>2. QED
    BY <1>2, <2>1
<1>3. CASE a = "network"
  <2>1. "tcprtt" \in Registry \ Tier1Names /\ Category("tcprtt") = "network"
    OBVIOUS
  <2>2. QED
    BY <1>3, <2>1
<1>4. CASE a = "memory"
  <2>1. "cachestat" \in Registry \ Tier1Names /\ Category("cachestat") = "memory"
    OBVIOUS
  <2>2. QED
    BY <1>4, <2>1
<1>5. CASE a = "process"
  <2>1. "execsnoop" \in Registry \ Tier1Names /\ Category("execsnoop") = "process"
    OBVIOUS
  <2>2. QED
    BY <1>5, <2>1
<1>6. CASE a = "stacks"
  <2>1. "profile" \in Registry \ Tier1Names /\ Category("profile") = "stacktrace"
    OBVIOUS
  <2>2. QED
    BY <1>6, <2>1
<1>7. QED
  BY <1>1, <1>2, <1>3, <1>4, <1>5, <1>6

\* For every profile name, focus and host the names RegisterCollectors passes over
\* are none where every tool is installed, and no focus area is left without a tool.
THEOREM ProfilesComplete == Spec => []ProfileComplete
<1>1. ASSUME NEW c \in Calls PROVE
        LET focus == call[c].config.Focus
            equipped == RegisterCollectors([bcc |-> Registry, native |-> host.native], Profile(c))
            tools == {k \in filterCollectors(equipped, Profile(c), focus) : Heavy(k)}
        IN  IF focus = {} THEN {k.name : k \in tools} = Tools(Profile(c)) \ Tier1Names
            ELSE call[c].config.Profile = "quick"
                 \/ \A a \in focus \cap {"cpu", "disk", "network", "memory", "process", "stacks"} :
                       \E k \in tools : Category(k.name) = focusCategory(a)
  <2> DEFINE h == [bcc |-> Registry, native |-> host.native]
             profile == Profile(c)
             focus == call[c].config.Focus
             equipped == RegisterCollectors(h, profile)
             tools == {k \in filterCollectors(equipped, profile, focus) : Heavy(k)}
             named == Tools(profile) \ Tier1Names
  <2>1. /\ named \subseteq Registry
        /\ profile.Collectors = All \/ Tools(profile) \subseteq profile.Collectors
        /\ profile.Collectors = All => Registry \subseteq Tools(profile)
        /\ call[c].config.Profile # "quick" => profile.Collectors = All
    BY ProfileTools DEF Profile
  <2>2. h.bcc = Registry
    OBVIOUS
  <2> HIDE DEF h, profile, focus
  <2>3. \A k \in tools : k.name \in named
    BY RegisteredName DEF filterCollectors
  <2>4. ASSUME NEW t \in named PROVE \E k \in equipped : k.name = t /\ Heavy(k)
    <3>1. PICK k \in addBCC(h, t) : k.name = t /\ Heavy(k)
      BY <2>1, <2>2, EquippedTool
    <3>2. QED
      BY <3>1 DEF RegisterCollectors
  <2> HIDE DEF equipped
  <2>5. ASSUME NEW k \in equipped, Heavy(k), k.name \in named,
               focus = {} \/ \E a \in focus : Category(k.name) = focusCategory(a)
        PROVE  k \in tools
    BY <2>1, <2>5 DEF filterCollectors
  <2> HIDE DEF tools
  <2>6. CASE focus = {}
    <3>1. \A t \in named : \E k \in tools : k.name = t
      BY <2>4, <2>5, <2>6
    <3>2. {k.name : k \in tools} = named
      BY <2>3, <3>1
    <3>3. QED
      BY <2>6, <3>2 DEF tools, equipped, h, profile, focus
  <2>7. CASE focus # {}
    <3>1. ASSUME call[c].config.Profile # "quick",
                 NEW a \in focus \cap {"cpu", "disk", "network", "memory", "process", "stacks"}
          PROVE  \E k \in tools : Category(k.name) = focusCategory(a)
      <4>1. PICK t \in Registry \ Tier1Names : Category(t) = focusCategory(a)
        BY AreaTool
      <4>2. t \in named
        BY <2>1, <3>1, <4>1
      <4>3. PICK k \in equipped : k.name = t /\ Heavy(k)
        BY <2>4, <4>2
      <4>4. k \in tools
        BY <2>5, <4>1, <4>2, <4>3
      <4>5. QED
        BY <4>1, <4>3, <4>4
    <3>2. QED
      BY <2>7, <3>1 DEF tools, equipped, h, profile, focus
  <2>8. QED
    BY <2>6, <2>7
<1>2. ProfileComplete
  BY <1>1 DEF ProfileComplete
<1>3. QED
  BY <1>2, PTL
=============================================================================
