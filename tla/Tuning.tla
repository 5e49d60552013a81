------------------------------- MODULE Tuning -------------------------------
(***************************************************************************)
(* GenerateRecommendations (internal/model/recommendations.go) and what    *)
(* becomes of a host whose administrator follows them.  Each diagnosis     *)
(* lists commands; run in the order of their priority they change settings *)
(* now, and the persistent variants change what the host has after a       *)
(* reboot.  Readings and anomalies are those of module Diagnosis, of a     *)
(* host whose collectors all succeed.                                      *)
(*                                                                         *)
(* Settings are numbers in the unit of the source (kB and MB for the       *)
(* buffer sizes); a choice (congestion control, scheduler, THP mode) is a  *)
(* number too, named below.  Titles, evidence and sources are left out.    *)
(***************************************************************************)
EXTENDS Diagnosis

CONSTANTS
    Hosts,         \* the hosts to start from: settings at boot
    SettingLevels, \* per setting: values the environment may give it
    AppBacklog,    \* the backlog a listening application asks for
    MaxEdits,      \* bound: changes of readings and settings by others
    MaxConntrack   \* bound: size of the conntrack table

\* tcp_congestion_control, schedulers and transparent_hugepage/enabled.
Bbr == 1
MqDeadline == 1
NoScheduler == 2
Bfq == 1
Always == 1
Madvise == 0
\* The receive ring of the NIC, and its hardware maximum.
RingRxMax == 4096

Settings ==
    {"sched_latency_ms", "swappiness", "dirty_ratio", "dirty_background_ratio",
     "overcommit_memory", "watermark_scale_factor", "min_free_kbytes", "thp",
     "numa_balancing", "extfrag_threshold", "congestion", "somaxconn",
     "tcp_rmem_kb", "tcp_wmem_kb", "tw_reuse", "syn_backlog", "conntrack_max",
     "ring_rx", "netdev_max_backlog", "rmem_max_kb", "wmem_max_kb", "ports",
     "slow_start_idle", "fastopen", "netdev_budget", "arp_thresh3", "tcp_mem_k",
     "scheduler_ssd", "scheduler_hdd"}

\* Counters since boot that the recommendations test against zero, and the
\* reading that makes them grow, if Diagnosis has one.
Counters == {"ListenOverflows", "Dropped", "TimeSqueeze", "PruneCalled", "RecvQSaturated"}

CountedBy ==
    [listen_overflows |-> "ListenOverflows", softnet_dropped |-> "Dropped",
     softnet_time_squeeze |-> "TimeSqueeze"]

ASSUME SettingsAssumption ==
    /\ Hosts \subseteq [Settings -> Nat]
    /\ SettingLevels \in [Settings -> SUBSET Nat]
    /\ AppBacklog \in Nat
    /\ MaxEdits \in Nat
    /\ MaxConntrack \in Nat

VARIABLES
    setting,  \* the live value of each setting
    boot,     \* the value it has after a reboot
    counted,  \* the counters that are not zero
    recs,     \* Summary.Recommendations of the last report
    followed, \* recommendations whose commands have been run
    edits     \* changes the environment has made

tuningVars == <<vars, setting, boot, counted, recs, followed, edits>>

-----------------------------------------------------------------------------
(* GenerateRecommendations, in the order of the source.  The conditions    *)
(* that hold get consecutive priorities; rank, the place in the source,    *)
(* orders them the same way.  sets are the values the commands give, kept  *)
(* says that there are persistent commands too.                            *)

Rec(rank, id, type, when, sets, kept) ==
    [rank |-> rank, id |-> id, type |-> type, when |-> when, sets |-> sets, kept |-> kept]

Nothing == << >>

\* A setting that is there and below the bound; one that cannot be read is 0.
Below(v, bound) == v > 0 /\ v < bound

\* Mutant: the load has to be above the critical threshold of the anomaly.
CPURecsLate(rd, st) ==
    {Rec(1, "cpu_saturation", "fix", rd["load_average"] > 40, Nothing, FALSE),
     Rec(2, "sched_latency", "optimization", st["sched_latency_ms"] > 24,
         [sched_latency_ms |-> 6], TRUE)}

CPURecs(rd, st) ==
    {Rec(1, "cpu_saturation", "fix", rd["load_average"] > 20, Nothing, FALSE),
     Rec(2, "sched_latency", "optimization", st["sched_latency_ms"] > 24,
         [sched_latency_ms |-> 6], TRUE)}

MemoryRecs(rd, st) ==
    {Rec(3, "swappiness", "fix", st["swappiness"] > 30 /\ rd["swap_usage"] > 0,
         [swappiness |-> 10], TRUE),
     Rec(4, "dirty_ratio", "fix", st["dirty_ratio"] > 20,
         [dirty_ratio |-> 10, dirty_background_ratio |-> 5], TRUE),
     Rec(5, "overcommit", "optimization", st["overcommit_memory"] = 0,
         [overcommit_memory |-> 2], TRUE),
     Rec(6, "direct_reclaim", "fix", rd["direct_reclaim_rate"] > 0,
         [watermark_scale_factor |-> 200, min_free_kbytes |-> 131072], TRUE),
     Rec(7, "thp_splits", "fix", rd["thp_split_rate"] > 10 /\ st["thp"] = Always,
         [thp |-> Madvise], FALSE),
     Rec(8, "numa", "fix", rd["numa_miss_ratio"] > 50, [numa_balancing |-> 1], TRUE),
     Rec(9, "compaction", "fix", rd["compaction_stall_rate"] > 10,
         [extfrag_threshold |-> 500], FALSE)}

TCPRecs(rd, st) ==
    {Rec(10, "bbr", "optimization", st["congestion"] # Bbr, [congestion |-> Bbr], TRUE),
     Rec(11, "retransmits", "fix", rd["tcp_retransmits"] > 10, Nothing, FALSE),
     Rec(12, "somaxconn", "optimization", Below(st["somaxconn"], 4096),
         [somaxconn |-> 4096], TRUE),
     Rec(13, "tcp_rmem", "optimization", st["tcp_rmem_kb"] < 4096,
         [tcp_rmem_kb |-> 6144], TRUE),
     Rec(14, "tcp_wmem", "optimization", st["tcp_wmem_kb"] < 4096,
         [tcp_wmem_kb |-> 6144], TRUE),
     Rec(15, "tw_reuse", "fix", st["tw_reuse"] = 0 /\ rd["tcp_timewait"] > 10000,
         [tw_reuse |-> 1], TRUE),
     Rec(16, "syn_backlog", "optimization", Below(st["syn_backlog"], 4096),
         [syn_backlog |-> 8192], TRUE)}

TableRecs(rd, st, cn) ==
    {Rec(17, "conntrack", "fix", rd["conntrack_usage_pct"] > 700,
         [conntrack_max |-> 2 * st["conntrack_max"]], TRUE),
     Rec(18, "ring", "fix",
         Below(st["ring_rx"], RingRxMax \div 2) /\ rd["nic_rx_discards"] > 0,
         [ring_rx |-> RingRxMax], FALSE),
     Rec(19, "listen_overflows", "fix", "ListenOverflows" \in cn,
         [somaxconn |-> 65535], TRUE),
     Rec(20, "netdev_max_backlog", "fix",
         Below(st["netdev_max_backlog"], 5000) /\ "Dropped" \in cn,
         [netdev_max_backlog |-> 10000], TRUE)}

BufferRecs(rd, st, cn) ==
    {Rec(21, "socket_buffers", "optimization", Below(st["rmem_max_kb"], 16384),
         [rmem_max_kb |-> 16384, wmem_max_kb |-> 16384], TRUE),
     Rec(22, "ports", "optimization", st["ports"] < 40000, [ports |-> 64511], TRUE),
     Rec(23, "slow_start", "optimization", st["slow_start_idle"] = 1,
         [slow_start_idle |-> 0], TRUE),
     Rec(24, "fastopen", "optimization", st["fastopen"] < 3, [fastopen |-> 3], TRUE),
     Rec(25, "netdev_budget", "fix",
         "TimeSqueeze" \in cn /\ Below(st["netdev_budget"], 600),
         [netdev_budget |-> 600], TRUE),
     Rec(26, "udp_rmem_max", "fix",
         RcvbufErrRate(rd) > 0 /\ Below(st["rmem_max_kb"], 25600),
         [rmem_max_kb |-> 25600], TRUE)}

SocketRecs(rd, st, cn) ==
    {Rec(27, "recv_queue", "fix", "RecvQSaturated" \in cn, Nothing, FALSE),
     Rec(28, "accept_queue", "fix", rd["listen_queue_saturation"] >= 700,
         [somaxconn |-> Max({2 * Min({AppBacklog, st["somaxconn"]}), 65535})], FALSE),
     Rec(29, "zero_window", "fix", rd["tcp_zero_window_drop"] > 0,
         [tcp_rmem_kb |-> 16384], TRUE)}

\* Mutant: every value but the recommended one is replaced.
NeighbourRecsExact(st, cn) ==
    {Rec(30, "arp_table", "optimization", st["arp_thresh3"] # 8192,
         [arp_thresh3 |-> 8192], TRUE),
     Rec(31, "tcp_mem", "fix", "PruneCalled" \in cn, [tcp_mem_k |-> 4096], TRUE)}

NeighbourRecs(st, cn) ==
    {Rec(30, "arp_table", "optimization", Below(st["arp_thresh3"], 1025),
         [arp_thresh3 |-> 8192], TRUE),
     Rec(31, "tcp_mem", "fix", "PruneCalled" \in cn, [tcp_mem_k |-> 4096], TRUE)}

\* Mutant: the recommended scheduler is not recognised.
DiskRecsAgain(st) ==
    {Rec(32, "ssd_scheduler", "optimization", st["scheduler_ssd"] # NoScheduler,
         [scheduler_ssd |-> MqDeadline], TRUE),
     Rec(33, "hdd_scheduler", "optimization", st["scheduler_hdd"] # Bfq,
         [scheduler_hdd |-> Bfq], TRUE)}

DiskRecs(st) ==
    {Rec(32, "ssd_scheduler", "optimization",
         st["scheduler_ssd"] \notin {MqDeadline, NoScheduler},
         [scheduler_ssd |-> MqDeadline], TRUE),
     Rec(33, "hdd_scheduler", "optimization", st["scheduler_hdd"] # Bfq,
         [scheduler_hdd |-> Bfq], TRUE)}

\* Mutant: the THP mode is set without a persistent command.
LargeMemoryRecsLive(st) ==
    {Rec(34, "thp", "optimization", st["thp"] = Always, [thp |-> Madvise], FALSE),
     Rec(35, "min_free", "optimization", Below(st["min_free_kbytes"], 65536),
         [min_free_kbytes |-> 131072], TRUE)}

LargeMemoryRecs(st) ==
    {Rec(34, "thp", "optimization", st["thp"] = Always, [thp |-> Madvise], TRUE),
     Rec(35, "min_free", "optimization", Below(st["min_free_kbytes"], 65536),
         [min_free_kbytes |-> 131072], TRUE)}

\* Every recommendation there is.
AllRecs(rd, st, cn) ==
    CPURecs(rd, st) \cup MemoryRecs(rd, st) \cup TCPRecs(rd, st) \cup TableRecs(rd, st, cn)
    \cup BufferRecs(rd, st, cn) \cup SocketRecs(rd, st, cn) \cup NeighbourRecs(st, cn)
    \cup DiskRecs(st) \cup LargeMemoryRecs(st)

\* Mutant: the fixes come before the optimizations.
GenerateRecommendationsFixFirst(rd, st, cn) ==
    {[r EXCEPT !.rank = IF r.type = "fix" THEN r.rank ELSE 100 + r.rank] :
        r \in {q \in AllRecs(rd, st, cn) : q.when}}

GenerateRecommendations(rd, st, cn) == {r \in AllRecs(rd, st, cn) : r.when}

-----------------------------------------------------------------------------
(* The host, its administrator, and everybody else.                        *)

Report(rd, st, cn) == recs' = GenerateRecommendations(rd, st, cn)

\* The counters that the rates of the host have moved since boot.
CountersOf(rd) == {CountedBy[f] : f \in {g \in DOMAIN CountedBy : rd[g] > 0}}

TuningInit ==
    /\ Init
    /\ setting \in Hosts
    /\ boot = setting
    /\ counted = CountersOf(reading)
    /\ recs = GenerateRecommendations(reading, setting, counted)
    /\ followed = {}
    /\ edits = 0

\* A reading changes, is measured and reported; a rate above zero leaves its
\* counter above zero.
Measure(f, v) ==
    /\ edits < MaxEdits
    /\ edits' = edits + 1
    /\ Remeasure(f, v)
    /\ counted' = counted \cup {CountedBy[g] : g \in {f} \cap DOMAIN CountedBy}
    /\ Report(reading', setting, counted')
    /\ UNCHANGED <<setting, boot, followed>>

\* Someone else sets a value, or a counter without a reading grows.  The last
\* report does not know.
Drift(s, v) ==
    /\ edits < MaxEdits
    /\ edits' = edits + 1
    /\ v # setting[s]
    /\ setting' = [setting EXCEPT ![s] = v]
    /\ UNCHANGED <<vars, boot, counted, recs, followed>>

Count(c) ==
    /\ edits < MaxEdits
    /\ edits' = edits + 1
    /\ c \notin counted
    /\ counted' = counted \cup {c}
    /\ UNCHANGED <<vars, setting, boot, recs, followed>>

Collect ==
    /\ Report(reading, setting, counted)
    /\ UNCHANGED <<vars, setting, boot, counted, followed, edits>>

\* The settings once the commands of the list have been run in order: the last
\* one that sets a value wins.
Run(list, st) ==
    [s \in Settings |->
        LET setters == {r \in list : s \in DOMAIN r.sets}
        IN  IF setters = {} THEN st[s]
            ELSE (CHOOSE r \in setters : \A q \in setters : q.rank <= r.rank).sets[s]]

\* The administrator runs all commands and, where there are any, the
\* persistent ones, which are appended to the file that a boot reads.
Apply ==
    /\ recs # {}
    /\ setting["conntrack_max"] < MaxConntrack
    /\ setting' = Run(recs, setting)
    /\ boot' = Run({r \in recs : r.kept}, boot)
    /\ followed' = followed \cup {r.id : r \in recs}
    /\ UNCHANGED <<vars, counted, recs, edits>>

\* The settings are those the host boots with; the load comes back, and the
\* counters start again from its rates.
Reboot ==
    /\ setting' = boot
    /\ counted' = CountersOf(reading)
    /\ Report(reading, boot, counted')
    /\ UNCHANGED <<vars, boot, followed, edits>>

TuningNext ==
    \/ \E f \in Fields : \E v \in Levels[f] : Measure(f, v)
    \/ \E s \in Settings : \E v \in SettingLevels[s] : Drift(s, v)
    \/ \E c \in Counters : Count(c)
    \/ Collect
    \/ Apply
    \/ Reboot

TuningSpec == TuningInit /\ [][TuningNext]_tuningVars

-----------------------------------------------------------------------------
(* Properties.                                                             *)

\* What the host would be told now.
Pending == GenerateRecommendations(reading, setting, counted)

UpToDate == recs = Pending

Ids(type) == {r.id : r \in {q \in Pending : q.type = type}}

\* Priority is the order of execution.  Where two recommendations of a list set
\* the same value (somaxconn, rmem_max, tcp_rmem, min_free_kbytes, THP), the
\* later one does not undo the earlier one.
LaterKeepsEarlier ==
    \A r, q \in recs : r.rank < q.rank =>
        \A s \in DOMAIN r.sets \cap DOMAIN q.sets : r.sets[s] <= q.sets[s]

\* Advice settles: when the commands of an up-to-date list have been run,
\* GenerateRecommendations has no optimization left to propose.  Every value it
\* sets is beyond the bound it tests, whatever else it sets.
AdviceSettles == [][Apply /\ UpToDate => Ids("optimization")' = {}]_tuningVars

\* A critical anomaly whose cause has a recommendation gets it: the thresholds
\* of anomaly.go and the conditions of recommendations.go, written apart from
\* each other, fit.
CriticalHasFix ==
    LET advice ==
          [load_average |-> "cpu_saturation", direct_reclaim_rate |-> "direct_reclaim",
           compaction_stall_rate |-> "compaction", numa_miss_ratio |-> "numa",
           tcp_retransmits |-> "retransmits", conntrack_usage_pct |-> "conntrack",
           listen_overflows |-> "listen_overflows", tcp_zero_window_drop |-> "zero_window",
           listen_queue_saturation |-> "accept_queue"]
    IN  UpToDate => \A m \in DOMAIN advice \cap summary.anomalies["critical"] :
                        \E r \in recs : r.id = advice[m]

\* A value is raised by a command only after a test that it is too low, so an
\* up-to-date list never lowers it.  The values some recommendation sets without
\* a test are not among these, nor is wmem_max, which is set on a test of rmem_max.
GuardedNeverLowered ==
    [][Apply /\ UpToDate =>
          \A s \in {"syn_backlog", "rmem_max_kb", "netdev_max_backlog", "netdev_budget",
                    "ring_rx", "fastopen", "arp_thresh3", "ports", "tcp_wmem_kb",
                    "conntrack_max"} : setting[s] <= setting'[s]]_tuningVars

\* A reboot brings no recommendation of the type back that has been followed.
ComesBack(type) == Reboot /\ \E id \in followed : id \in Ids(type)' \ Ids(type)

\* An optimization that has been followed stays done across a reboot: each has
\* persistent commands, and no later persistent command takes it back.  Fixes are
\* left out: those of the NIC ring, compaction and the accept queue have none.
OptimizationsPersist == [][~ComesBack("optimization")]_tuningVars
=============================================================================
