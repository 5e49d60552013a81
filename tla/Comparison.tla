----------------------------- MODULE Comparison -----------------------------
(***************************************************************************)
(* What is made of a report afterwards: `melisai diff` compares two report *)
(* files (internal/diff/diff.go), and the MCP tools explain_anomaly and    *)
(* list_anomalies explain what a report lists (internal/mcp/handlers.go).  *)
(* The two reports compared are those of two successive diagnoses.         *)
(*                                                                         *)
(* LoadReport decodes Result.Data into a generic map, so that extractCPU   *)
(* and extractMemory find nothing in a report that was read from a file:   *)
(* what is left to compare are the USE metrics and the histograms.         *)
(***************************************************************************)
EXTENDS Diagnosis

-----------------------------------------------------------------------------
(* diff.go.                                                                *)

\* The difference is more than p per cent of the old value; no percentage is
\* computed of zero.
Exceeds(old, difference, p) == old # 0 /\ 100 * difference > p * old

\* Mutant: the signs are swapped.
DirectionSwapped(old, new) ==
    IF Exceeds(old, old - new, 5) THEN "regression"
    ELSE IF Exceeds(old, new - old, 5) THEN "improvement" ELSE "unchanged"

\* addChange, for metrics of which more is worse.
Direction(old, new) ==
    IF Exceeds(old, new - old, 5) THEN "regression"
    ELSE IF Exceeds(old, old - new, 5) THEN "improvement" ELSE "unchanged"

\* Metrics that both reports have and that differ (values are in tenths, so a
\* difference below 0.1 is none).
CompareMetrics(old, new) ==
    {[metric |-> m, direction |-> Direction(old[m], new[m])] :
        m \in {k \in DOMAIN old \cap DOMAIN new : old[k] # new[k]}}

\* The utilization, saturation and errors of every resource.
USEMetrics(resources) ==
    [m \in {<<res, part>> : res \in DOMAIN resources, part \in {"utilization", "saturation", "errors"}} |->
        resources[m[1]][m[2]]]

\* Histograms by name, one of run queue latency and one per disk; of the two
\* percentiles that are compared p99 is kept.
collectHistograms(rd, kn) ==
    LET named == UNION {{<<tool, h>> : h \in Histograms(tool, rd)} : tool \in {"biolatency", "runqlat"} \cap kn}
        names == {<<n[1], n[2].device>> : n \in named}
    IN  [m \in names |-> (CHOOSE n \in named : n[1] = m[1] /\ n[2].device = m[2])[2].p99]

\* Compare, for the reports of two diagnoses, with its tallies.
Compare(old, oldHists, new, newHists) ==
    LET changes == CompareMetrics(USEMetrics(old.resources), USEMetrics(new.resources))
                   \cup CompareMetrics(oldHists, newHists)
        tally(d) == Cardinality({ch \in changes : ch.direction = d})
    IN  [HealthDelta |-> new.score - old.score, Changes |-> changes,
         Regressions |-> tally("regression"), Improvements |-> tally("improvement")]

\* The diff of the last report and the next.
Diff == Compare(summary, collectHistograms(reading, known), summary', collectHistograms(reading', known'))

-----------------------------------------------------------------------------
(* handlers.go: the anomalies that have an explanation, in the order of    *)
(* the source.                                                             *)

HostExplanations ==
    {"cpu_utilization", "cpu_iowait", "load_average", "cpu_saturation", "memory_utilization",
     "swap_usage", "memory_psi_pressure", "memory_saturation", "tcp_retransmits", "tcp_timewait",
     "disk_utilization", "disk_latency", "disk_avg_latency", "cpu_throttling"}

ToolExplanations ==
    {"container_memory_usage", "runqlat_p99", "dns_latency_p99", "cache_miss_ratio",
     "cpu_psi_pressure", "io_psi_pressure", "network_errors_per_sec", "conntrack_usage_pct",
     "softnet_dropped", "listen_overflows", "nic_rx_discards", "tcp_close_wait",
     "softnet_time_squeeze"}

KernelExplanations ==
    {"tcp_abort_on_memory", "irq_imbalance", "udp_rcvbuf_errors", "tcp_rcvq_drop",
     "tcp_zero_window_drop", "listen_queue_saturation", "biolatency_p99_ssd",
     "biolatency_p99_hdd", "direct_reclaim_rate", "compaction_stall_rate", "thp_split_rate",
     "numa_miss_ratio", "gpu_nic_cross_numa"}

\* Mutant: the explanations of one section are not entered.
anomalyExplanationsPartial == HostExplanations \cup KernelExplanations

anomalyExplanations == HostExplanations \cup ToolExplanations \cup KernelExplanations

\* An id without an explanation is answered with a general text.
handleExplainAnomaly(id) ==
    IF id = "" THEN "error" ELSE IF id \in anomalyExplanations THEN "specific" ELSE "general"

\* The ids listed, each under the category of its rule or under "general".
handleListAnomalies ==
    {[id |-> id, general |-> id \notin {r.metric : r \in defaultThresholds}] : id \in anomalyExplanations}

-----------------------------------------------------------------------------
(* Properties.                                                             *)

\* The diff agrees with the host.  When some reading got worse and none better,
\* Compare shows no improvement and no gain in health.  A collector that failed in
\* the second run, or came back, is no change of the host and none of the diff,
\* though the health computed without it may differ.  The diff of the reports in
\* the other order contradicts no change.
DiffFollowsHost ==
    [][LET back == Compare(summary', collectHistograms(reading', known'),
                           summary, collectHistograms(reading, known))
       IN  /\ NoBetter => Diff.HealthDelta <= 0 /\ Diff.Improvements = 0
           /\ reading' = reading => Diff.Changes = {}
           /\ \A ch \in Diff.Changes : ch.direction # "unchanged" => ch \notin back.Changes]_vars

\* What a report calls an anomaly explain_anomaly can explain, and list_anomalies
\* lists it under the category of its rule.
EveryAnomalyExplained ==
    \A id \in summary.anomalies["critical"] \cup summary.anomalies["warning"] :
        /\ handleExplainAnomaly(id) = "specific"
        /\ [id |-> id, general |-> FALSE] \in handleListAnomalies

=============================================================================
