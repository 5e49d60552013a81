------------------------------ MODULE Diagnosis ------------------------------
(***************************************************************************)
(* What a report says of a host: anomalies, USE metrics and health score   *)
(* (internal/model/anomaly.go, report.go, health.go), computed in this     *)
(* order at the end of Orchestrator.Run.  The behaviour is a host that is  *)
(* diagnosed again whenever one of its readings changes or one of its      *)
(* collectors fails or recovers.                                           *)
(*                                                                         *)
(* Percentages, rates, counts and milliseconds are in tenths, so that the  *)
(* threshold 0.1 and the weights 1.5 and 1.2 are integers.  A reading of 0 *)
(* also stands for a structure that is nil: every threshold is positive,   *)
(* so an evaluator's (0, true) and (0, false) have the same effect.        *)
(***************************************************************************)
EXTENDS Integers, FiniteSets, FiniteSetsExt

CONSTANTS
    Levels,    \* per field: the values the environment may give it
    Bases,     \* the hosts to start from, readings of all fields
    MaxChanges \* bound: fields that differ from a base, and missing sources

-----------------------------------------------------------------------------
(* The threshold table, in the order of the source.                        *)

Rule(metric, source, warning, critical) ==
    [metric |-> metric, source |-> source, warning |-> warning, critical |-> critical]

CPURules ==
    {Rule("cpu_utilization", "cpu", 800, 950),
     Rule("cpu_iowait", "cpu", 100, 300),
     Rule("load_average", "cpu", 20, 40)}

MemoryRules ==
    {Rule("memory_utilization", "memory", 850, 950),
     Rule("swap_usage", "memory", 100, 500),
     Rule("memory_psi_pressure", "memory", 50, 250),
     Rule("direct_reclaim_rate", "memory", 100, 10000),
     Rule("compaction_stall_rate", "memory", 10, 1000),
     Rule("thp_split_rate", "memory", 10, 1000),
     Rule("numa_miss_ratio", "memory", 50, 200)}

DeviceRules ==
    {Rule("tcp_retransmits", "network", 100, 500),
     Rule("tcp_timewait", "network", 50000, 200000),
     Rule("disk_utilization", "disk", 700, 900),
     Rule("cpu_throttling", "container", 1000, 10000),
     Rule("container_memory_usage", "container", 800, 950)}

HistogramRules ==
    {Rule("biolatency_p99_ssd", "biolatency", 50, 250),
     Rule("biolatency_p99_hdd", "biolatency", 500, 2000),
     Rule("runqlat_p99", "runqlat", 100, 500),
     Rule("dns_latency_p99", "gethostlatency", 500, 2000),
     Rule("cache_miss_ratio", "cachestat", 50, 150)}

PressureRules ==
    {Rule("cpu_psi_pressure", "cpu", 50, 250),
     Rule("io_psi_pressure", "disk", 100, 500),
     Rule("disk_avg_latency", "disk", 50, 500)}

InterfaceRules ==
    {Rule("network_errors_per_sec", "network", 100, 1000),
     Rule("conntrack_usage_pct", "network", 700, 900),
     Rule("softnet_dropped", "network", 10, 1000),
     Rule("listen_overflows", "network", 10, 1000),
     Rule("nic_rx_discards", "network", 1000, 100000),
     Rule("tcp_close_wait", "network", 10, 1000)}

KernelRules ==
    {Rule("softnet_time_squeeze", "network", 10, 1000),
     Rule("tcp_abort_on_memory", "network", 1, 10),
     Rule("irq_imbalance", "network", 50, 200)}

SocketRules ==
    {Rule("udp_rcvbuf_errors", "network", 10, 1000),
     Rule("tcp_rcvq_drop", "network", 10, 1000),
     Rule("tcp_zero_window_drop", "network", 10, 500),
     Rule("listen_queue_saturation", "network", 700, 900),
     Rule("gpu_nic_cross_numa", "pcie", 10, 10)}

defaultThresholds ==
    CPURules \cup MemoryRules \cup DeviceRules \cup HistogramRules \cup
    PressureRules \cup InterfaceRules \cup KernelRules \cup SocketRules

-----------------------------------------------------------------------------
(* A host.  Most rules read one field, which has the rule's name; the rest *)
(* combine the fields listed here.  Latencies are what the host really     *)
(* has, in milliseconds; how a tool prints them is Histograms.             *)

Composite == {"disk_utilization", "network_errors_per_sec", "irq_imbalance",
              "biolatency_p99_ssd", "biolatency_p99_hdd"}

Fields ==
    ({r.metric : r \in defaultThresholds} \ Composite) \cup
    {"io_time",                      \* IOTimeMs of the busiest disk
     "io_in_progress",               \* IOInProgress of the longest queue
     "errors_eth0", "errors_eth1",   \* ErrorsPerSec of two interfaces
     "irq_max", "irq_min",           \* NET_RX interrupts of two CPUs
     "throttled_pct",                \* throttled seconds over the CPU quota
     "p99_ssd", "p99_hdd",           \* I/O latency of a disk of each kind
     "p99_other"}                    \* ... and of one disk_stats has no name for

\* What can be missing from a report: collectors and tools, and the limits
\* that make container data meaningful.
Sources == {r.source : r \in defaultThresholds} \cup
           {"runtime", "cpu_quota", "memory_limit"}

\* The least busy CPU is the one reading that is worse when it is smaller.
Worse(f, v, w) == IF f = "irq_min" THEN w <= v ELSE v <= w

ASSUME LevelsAssumption == Levels \in [Fields -> SUBSET Nat]

ASSUME BasesAssumption ==
    \A b \in Bases : b \in [Fields -> Nat] /\ b["irq_min"] <= b["irq_max"]

VARIABLES
    reading,  \* the host, per field
    known,    \* the sources this report has
    summary   \* report.Summary: anomalies, resources and health score

vars == <<reading, known, summary>>

-----------------------------------------------------------------------------
(* DetectAnomalies.                                                        *)

\* The histograms the tool's parser puts into its result.  runqlat runs with
\* -m, so its numbers are milliseconds, labelled "us"; gethostlatency and
\* cachestat are parsed into events only.
Histograms(tool, rd) ==
    CASE tool = "biolatency" ->
            {[device |-> "ssd",   unit |-> "us", p99 |-> 1000 * rd["p99_ssd"]],
             [device |-> "hdd",   unit |-> "us", p99 |-> 1000 * rd["p99_hdd"]],
             [device |-> "other", unit |-> "us", p99 |-> 1000 * rd["p99_other"]]}
      [] tool = "runqlat" ->
            {[device |-> "none", unit |-> "us", p99 |-> rd["runqlat_p99"]]}
      [] OTHER -> {}

\* histogramP99Evaluator: a histogram is left out only when disk_stats names
\* its device and knows it to be of the other kind.
P99Samples(tool, rotational, rd, kn) ==
    LET wrongType(h) == /\ tool = "biolatency"
                        /\ "disk" \in kn
                        /\ \/ h.device = "ssd" /\ rotational
                           \/ h.device = "hdd" /\ ~rotational
        p99ms(h) == IF h.unit = "us" THEN h.p99 \div 1000 ELSE h.p99
    IN  {p99ms(h) : h \in {g \in Histograms(tool, rd) : ~wrongType(g)}}

\* Mutant: a least busy CPU without interrupts is taken for missing data.
IRQSamplesNoZero(rd) ==
    IF rd["irq_max"] < 100 \/ rd["irq_min"] = 0
    THEN {}
    ELSE {(10 * rd["irq_max"]) \div rd["irq_min"]}

\* The ratio of the busiest CPU to the least busy one.
IRQSamples(rd) ==
    IF rd["irq_max"] < 100
    THEN {}
    ELSE IF rd["irq_min"] > 0
         THEN {(10 * rd["irq_max"]) \div rd["irq_min"]}
         ELSE {10 * rd["irq_max"]}

\* IOTimeMs is per second of sampling, so a tenth of it is a percentage.
computeDiskUtilization(rd) ==
    IF rd["io_time"] > 1000 THEN 1000 ELSE rd["io_time"]

\* Mutant: without the check of MemoryLimit the quotient is +Inf.
ContainerMemoryNoCheck(rd, kn) ==
    IF "memory_limit" \in kn
    THEN {rd["container_memory_usage"]}
    ELSE {10000 : u \in {rd["container_memory_usage"]} \ {0}}

\* Usage relative to the limit, if there is one.
ContainerMemory(rd, kn) ==
    {u \in {rd["container_memory_usage"]} : "memory_limit" \in kn}

\* Collect of the network collector parses the UDP counters, then replaces the
\* structure that holds them before it computes the rate.
RcvbufErrRate(rd) == 0

\* The values an evaluator takes the maximum of, none if it finds no data.
Evaluator(rule, rd, kn) ==
    IF rule.source \notin kn
    THEN {}
    ELSE CASE rule.metric = "disk_utilization" -> {computeDiskUtilization(rd)}
           [] rule.metric = "network_errors_per_sec" ->
                 {rd["errors_eth0"], rd["errors_eth1"]}
           [] rule.metric = "irq_imbalance" -> IRQSamples(rd)
           [] rule.metric = "udp_rcvbuf_errors" -> {RcvbufErrRate(rd)}
           [] rule.metric = "container_memory_usage" -> ContainerMemory(rd, kn)
           [] rule.metric = "biolatency_p99_ssd" ->
                 P99Samples("biolatency", FALSE, rd, kn)
           [] rule.metric = "biolatency_p99_hdd" ->
                 P99Samples("biolatency", TRUE, rd, kn)
           [] rule.metric = "runqlat_p99" -> P99Samples("runqlat", FALSE, rd, kn)
           [] rule.metric = "dns_latency_p99" ->
                 P99Samples("gethostlatency", FALSE, rd, kn)
           [] rule.metric = "cache_miss_ratio" -> Histograms("cachestat", rd)
           [] OTHER -> {rd[rule.metric]}

\* Mutant: a value has to exceed the threshold.
SeverityStrict(rule, rd, kn) ==
    LET exceeds(t) == \E v \in Evaluator(rule, rd, kn) : v > t
    IN  IF exceeds(rule.critical) THEN "critical"
        ELSE IF exceeds(rule.warning) THEN "warning" ELSE "none"

\* The maximum reaches a threshold when some value does.
Severity(rule, rd, kn) ==
    LET reaches(t) == \E v \in Evaluator(rule, rd, kn) : v >= t
    IN  IF reaches(rule.critical) THEN "critical"
        ELSE IF reaches(rule.warning) THEN "warning" ELSE "none"

\* The rules that fire, at each severity.
DetectAnomalies(rd, kn) ==
    [s \in {"critical", "warning"} |->
        {r.metric : r \in {q \in defaultThresholds : Severity(q, rd, kn) = s}}]

-----------------------------------------------------------------------------
(* ComputeUSEMetrics and ComputeHealthScore.                               *)

USEMetric(utilization, saturation, errors) ==
    [utilization |-> utilization, saturation |-> saturation, errors |-> errors]

\* Per cent over capacity, from the load per CPU.
computeCPUSaturation(rd) ==
    IF rd["load_average"] > 10 THEN (rd["load_average"] - 10) * 100 ELSE 0

computeNetErrors(rd) ==
    (rd["errors_eth0"] + rd["errors_eth1"] + rd["tcp_retransmits"]) \div 10

\* The container's resources, for a container runtime with limits.
ContainerResources(kn) ==
    IF {"container", "runtime"} \subseteq kn
    THEN {r \in {"container_cpu", "container_memory"} :
             IF r = "container_cpu" THEN "cpu_quota" \in kn ELSE "memory_limit" \in kn}
    ELSE {}

ComputeUSEMetrics(rd, kn) ==
    LET metric ==
          [cpu     |-> USEMetric(rd["cpu_utilization"], computeCPUSaturation(rd), 0),
           memory  |-> USEMetric(rd["memory_utilization"], rd["swap_usage"], 0),
           disk    |-> USEMetric(computeDiskUtilization(rd), rd["io_in_progress"], 0),
           network |-> USEMetric(0, rd["tcp_timewait"] + rd["tcp_close_wait"], computeNetErrors(rd)),
           container_cpu    |-> USEMetric(rd["throttled_pct"], rd["cpu_throttling"], 0),
           container_memory |-> USEMetric(rd["container_memory_usage"], 0, 0)]
    IN  [res \in ({"cpu", "memory", "disk", "network"} \cap kn) \cup ContainerResources(kn)
            |-> metric[res]]

resourceWeight(resource) ==
    CASE resource \in {"cpu", "memory"} -> 15
      [] resource \in {"disk", "network"} -> 10
      [] resource \in {"container_cpu", "container_memory"} -> 12
      [] OTHER -> 5

\* The points of the first of three falling thresholds that v reaches.
Banded(v, thresholds, points) ==
    IF v >= thresholds[1] THEN points[1]
    ELSE IF v >= thresholds[2] THEN points[2]
    ELSE IF v >= thresholds[3] THEN points[3] ELSE 0

\* Mutant: a resource is only charged for its errors, then for its utilization.
DeductionElse(resource, use) ==
    IF use.errors > 0 THEN 1
    ELSE Banded(use.utilization, <<950, 850, 700>>, <<15, 8, 3>>)
         + Banded(use.saturation, <<501, 101, 11>>, <<15, 8, 3>>)

\* What one resource costs: each part is truncated to whole points.
Deduction(resource, use) ==
    LET weighted(points) == (points * resourceWeight(resource)) \div 10
    IN  weighted(Banded(use.utilization, <<950, 850, 700>>, <<15, 8, 3>>))
        + weighted(Banded(use.saturation, <<501, 101, 11>>, <<15, 8, 3>>))
        + weighted(Banded(use.errors, <<1001, 101, 1>>, <<10, 5, 2>>))

\* The deductions of the report for one of the resources it may have.
Deducted(resources, res) ==
    IF res \in DOMAIN resources THEN Deduction(res, resources[res]) ELSE 0

\* Deductions only, so the clamp at 100 never acts; the one at 0 does.
ComputeHealthScore(resources, anomalies) ==
    LET score == 100
                 - Deducted(resources, "cpu") - Deducted(resources, "memory")
                 - Deducted(resources, "disk") - Deducted(resources, "network")
                 - Deducted(resources, "container_cpu") - Deducted(resources, "container_memory")
                 - 10 * Cardinality(anomalies["critical"])
                 - 5 * Cardinality(anomalies["warning"])
    IN  IF score < 0 THEN 0 ELSE score

\* The summary Run computes of the collected data.
Summary(rd, kn) ==
    LET resources == ComputeUSEMetrics(rd, kn)
        anomalies == DetectAnomalies(rd, kn)
    IN  [resources |-> resources,
         anomalies |-> anomalies,
         score     |-> ComputeHealthScore(resources, anomalies)]

-----------------------------------------------------------------------------
(* A host that changes between two diagnoses.                              *)

Init ==
    /\ reading \in Bases
    /\ known = Sources
    /\ summary = Summary(reading, known)

Bounded(rd, kn) ==
    \E b \in Bases :
        Cardinality({f \in Fields : rd[f] # b[f]}) + Cardinality(Sources \ kn) <= MaxChanges

\* One reading has changed when the host is diagnosed again.
Remeasure(f, v) ==
    /\ v # reading[f]
    /\ reading' = [reading EXCEPT ![f] = v]
    /\ reading'["irq_min"] <= reading'["irq_max"]
    /\ Bounded(reading', known)
    /\ summary' = Summary(reading', known)
    /\ UNCHANGED known

\* A collector has failed, or a limit is not there.
Lose(s) ==
    /\ s \in known
    /\ known' = known \ {s}
    /\ Bounded(reading, known')
    /\ summary' = Summary(reading, known')
    /\ UNCHANGED reading

Regain(s) ==
    /\ s \in Sources \ known
    /\ known' = known \cup {s}
    /\ summary' = Summary(reading, known')
    /\ UNCHANGED reading

Next ==
    \/ \E f \in Fields : \E v \in Levels[f] : Remeasure(f, v)
    \/ \E s \in Sources : Lose(s) \/ Regain(s)

Spec == Init /\ [][Next]_vars

-----------------------------------------------------------------------------
(* Properties.                                                             *)

\* The second host is the first one with some readings worse.
NoBetter == known' = known /\ \A f \in Fields : Worse(f, reading[f], reading'[f])

\* A host that only got worse keeps all its anomalies, at the same or a higher
\* severity: no evaluator of defaultThresholds stops seeing a problem, or sees
\* less of it, because a value behind it has risen.
AnomaliesPersist ==
    [][NoBetter => /\ summary.anomalies["critical"] \subseteq summary'.anomalies["critical"]
                   /\ summary.anomalies["warning"] \subseteq
                          summary'.anomalies["warning"] \cup summary'.anomalies["critical"]]_vars

\* The health score stays between 0 and 100, however many deductions add up, and
\* agrees with the anomalies and the USE metrics in direction: when a host only
\* got worse ComputeHealthScore does not rise, and it falls when an anomaly is new
\* or more severe, unless it is already 0.
ScoreFollows ==
    [][/\ summary'.score \in 0 .. 100
       /\ NoBetter => /\ summary'.score <= summary.score
                      /\ summary'.anomalies # summary.anomalies =>
                             summary'.score < summary.score \/ summary'.score = 0]_vars

\* What is missing is not a problem: a report that lacks a collector's result
\* (or a container limit) has no anomaly and no deduction the complete report
\* lacks.  The result of disk_stats is left out: without it P99Samples takes
\* every disk for both kinds, and the rule for SSDs fires for a slower HDD.
LossNeverAlarms ==
    [][known' \subseteq known /\ reading' = reading /\ "disk" \notin known \ known' =>
          /\ \A sev \in {"critical", "warning"} :
                summary'.anomalies[sev] \subseteq summary.anomalies[sev]
          /\ summary.score <= summary'.score]_vars

\* The threshold table and the bands of ComputeHealthScore, written in two
\* files, agree at the top: a resource charged for being full (utilization of
\* 95% or more) is also reported as a critical anomaly.  container_cpu has no
\* rule for its utilization.
FullIsCritical ==
    \A res \in DOMAIN summary.resources \ {"container_cpu"} :
        summary.resources[res].utilization >= 950 =>
            CASE res = "cpu"    -> "cpu_utilization" \in summary.anomalies["critical"]
              [] res = "memory" -> "memory_utilization" \in summary.anomalies["critical"]
              [] res = "disk"   -> "disk_utilization" \in summary.anomalies["critical"]
              [] res = "container_memory" ->
                    "container_memory_usage" \in summary.anomalies["critical"]
              [] OTHER -> FALSE

\* The table of the documentation: a rule whose tool or collector has measured a
\* value above the critical threshold reports it as critical.  The rules here read
\* one field; the memory rule of a container also needs a limit.
DocumentedRules ==
    \A r \in defaultThresholds :
        /\ r.metric \notin Composite
        /\ r.source \in known
        /\ r.source = "container" => "memory_limit" \in known
        /\ reading[r.metric] > r.critical
        => r.metric \in summary.anomalies["critical"]
=============================================================================
