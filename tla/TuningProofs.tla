---------------------------- MODULE TuningProofs ----------------------------
(***************************************************************************)
(* Theorems about module Tuning, for any readings, any settings at boot    *)
(* and any changes by others.                                              *)
(***************************************************************************)
EXTENDS Tuning, DiagnosisProofs

-----------------------------------------------------------------------------
(* What the recommendations set.                                           *)

\* The value a recommendation of that rank gives to a setting, of a host with
\* the settings st.
SetTo(s, rank, v, st) ==
    /\ s \in Settings
    /\ s = "sched_latency_ms"        => rank = 2 /\ v = 6
    /\ s = "swappiness"              => rank = 3 /\ v = 10
    /\ s = "dirty_ratio"             => rank = 4 /\ v = 10
    /\ s = "dirty_background_ratio"  => rank = 4 /\ v = 5
    /\ s = "overcommit_memory"       => rank = 5 /\ v = 2
    /\ s = "watermark_scale_factor"  => rank = 6 /\ v = 200
    /\ s = "min_free_kbytes"         => rank \in {6, 35} /\ v = 131072
    /\ s = "thp"                     => rank \in {7, 34} /\ v = Madvise
    /\ s = "numa_balancing"          => rank = 8 /\ v = 1
    /\ s = "extfrag_threshold"       => rank = 9 /\ v = 500
    /\ s = "congestion"              => rank = 10 /\ v = Bbr
    /\ s = "somaxconn"               => \/ rank = 12 /\ v = 4096
                                        \/ rank = 19 /\ v = 65535
                                        \/ rank = 28 /\ v \in Nat /\ v >= 65535
    /\ s = "tcp_rmem_kb"             => (rank = 13 /\ v = 6144) \/ (rank = 29 /\ v = 16384)
    /\ s = "tcp_wmem_kb"             => rank = 14 /\ v = 6144
    /\ s = "tw_reuse"                => rank = 15 /\ v = 1
    /\ s = "syn_backlog"             => rank = 16 /\ v = 8192
    /\ s = "conntrack_max"           => rank = 17 /\ v = 2 * st["conntrack_max"]
    /\ s = "ring_rx"                 => rank = 18 /\ v = RingRxMax
    /\ s = "netdev_max_backlog"      => rank = 20 /\ v = 10000
    /\ s = "rmem_max_kb"             => (rank = 21 /\ v = 16384) \/ (rank = 26 /\ v = 25600)
    /\ s = "wmem_max_kb"             => rank = 21 /\ v = 16384
    /\ s = "ports"                   => rank = 22 /\ v = 64511
    /\ s = "slow_start_idle"         => rank = 23 /\ v = 0
    /\ s = "fastopen"                => rank = 24 /\ v = 3
    /\ s = "netdev_budget"           => rank = 25 /\ v = 600
    /\ s = "arp_thresh3"             => rank = 30 /\ v = 8192
    /\ s = "tcp_mem_k"               => rank = 31 /\ v = 4096
    /\ s = "scheduler_ssd"           => rank = 32 /\ v = MqDeadline
    /\ s = "scheduler_hdd"           => rank = 33 /\ v = Bfq

Fits(rank, sets, st) == \A s \in DOMAIN sets : SetTo(s, rank, sets[s], st)

\* The backlog the accept queue recommendation asks for is 65535 at least.
LEMMA AcceptBacklog ==
    ASSUME NEW b \in Nat
    PROVE  LET m == Max({2 * Min({AppBacklog, b}), 65535}) IN m \in Nat /\ m >= 65535
<1> DEFINE low == Min({AppBacklog, b})
           twice == 2 * low
<1>1. AppBacklog \in Nat
  BY SettingsAssumption
<1>2. low \in {AppBacklog, b}
  BY <1>1 DEF Min
<1>3. twice \in Nat
  BY <1>1, <1>2
<1> HIDE DEF twice
<1>4. Max({twice, 65535}) \in Nat /\ Max({twice, 65535}) >= 65535
  BY <1>3 DEF Max
<1> QED
  BY <1>4 DEF twice

\* Every recommendation sets what the table says.
LEMMA SetsFit ==
    ASSUME NEW rd, NEW st \in [Settings -> Nat], NEW cn, NEW r \in AllRecs(rd, st, cn)
    PROVE  r.rank \in 1 .. 35 /\ Fits(r.rank, r.sets, st)
<1>1. CASE r \in CPURecs(rd, st)
  <2>1. \/ r.rank = 1 /\ r.sets = Nothing
        \/ r.rank = 2 /\ r.sets = [sched_latency_ms |-> 6]
    BY <1>1, SMT DEF CPURecs, Rec
  <2>2. /\ Fits(1, Nothing, st)
        /\ Fits(2, [sched_latency_ms |-> 6], st)
    BY DEF Fits, SetTo, Settings, Nothing
  <2> QED
    BY <2>1, <2>2
<1>2. CASE r \in MemoryRecs(rd, st)
  <2>1. \/ r.rank = 3 /\ r.sets = [swappiness |-> 10]
        \/ r.rank = 4 /\ r.sets = [dirty_ratio |-> 10, dirty_background_ratio |-> 5]
        \/ r.rank = 5 /\ r.sets = [overcommit_memory |-> 2]
        \/ r.rank = 6 /\ r.sets = [watermark_scale_factor |-> 200, min_free_kbytes |-> 131072]
        \/ r.rank = 7 /\ r.sets = [thp |-> Madvise]
        \/ r.rank = 8 /\ r.sets = [numa_balancing |-> 1]
        \/ r.rank = 9 /\ r.sets = [extfrag_threshold |-> 500]
    BY <1>2, SMT DEF MemoryRecs, Rec
  <2>2. /\ Fits(3, [swappiness |-> 10], st)
        /\ Fits(4, [dirty_ratio |-> 10, dirty_background_ratio |-> 5], st)
        /\ Fits(5, [overcommit_memory |-> 2], st)
        /\ Fits(6, [watermark_scale_factor |-> 200, min_free_kbytes |-> 131072], st)
        /\ Fits(7, [thp |-> Madvise], st)
        /\ Fits(8, [numa_balancing |-> 1], st)
        /\ Fits(9, [extfrag_threshold |-> 500], st)
    BY DEF Fits, SetTo, Settings
  <2> QED
    BY <2>1, <2>2
<1>3. CASE r \in TCPRecs(rd, st)
  <2>1. \/ r.rank = 10 /\ r.sets = [congestion |-> Bbr]
        \/ r.rank = 11 /\ r.sets = Nothing
        \/ r.rank = 12 /\ r.sets = [somaxconn |-> 4096]
        \/ r.rank = 13 /\ r.sets = [tcp_rmem_kb |-> 6144]
        \/ r.rank = 14 /\ r.sets = [tcp_wmem_kb |-> 6144]
        \/ r.rank = 15 /\ r.sets = [tw_reuse |-> 1]
        \/ r.rank = 16 /\ r.sets = [syn_backlog |-> 8192]
    BY <1>3, SMT DEF TCPRecs, Rec
  <2>2. /\ Fits(10, [congestion |-> Bbr], st)
        /\ Fits(11, Nothing, st)
        /\ Fits(12, [somaxconn |-> 4096], st)
        /\ Fits(13, [tcp_rmem_kb |-> 6144], st)
        /\ Fits(14, [tcp_wmem_kb |-> 6144], st)
        /\ Fits(15, [tw_reuse |-> 1], st)
        /\ Fits(16, [syn_backlog |-> 8192], st)
    BY DEF Fits, SetTo, Settings, Nothing
  <2> QED
    BY <2>1, <2>2
<1>4. CASE r \in TableRecs(rd, st, cn)
  <2>1. \/ r.rank = 17 /\ r.sets = [conntrack_max |-> 2 * st["conntrack_max"]]
        \/ r.rank = 18 /\ r.sets = [ring_rx |-> RingRxMax]
        \/ r.rank = 19 /\ r.sets = [somaxconn |-> 65535]
        \/ r.rank = 20 /\ r.sets = [netdev_max_backlog |-> 10000]
    BY <1>4, SMT DEF TableRecs, Rec
  <2>2. /\ Fits(17, [conntrack_max |-> 2 * st["conntrack_max"]], st)
        /\ Fits(18, [ring_rx |-> RingRxMax], st)
        /\ Fits(19, [somaxconn |-> 65535], st)
        /\ Fits(20, [netdev_max_backlog |-> 10000], st)
    BY DEF Fits, SetTo, Settings
  <2> QED
    BY <2>1, <2>2
<1>5. CASE r \in BufferRecs(rd, st, cn)
  <2>1. \/ r.rank = 21 /\ r.sets = [rmem_max_kb |-> 16384, wmem_max_kb |-> 16384]
        \/ r.rank = 22 /\ r.sets = [ports |-> 64511]
        \/ r.rank = 23 /\ r.sets = [slow_start_idle |-> 0]
        \/ r.rank = 24 /\ r.sets = [fastopen |-> 3]
        \/ r.rank = 25 /\ r.sets = [netdev_budget |-> 600]
        \/ r.rank = 26 /\ r.sets = [rmem_max_kb |-> 25600]
    BY <1>5, SMT DEF BufferRecs, Rec
  <2>2. /\ Fits(21, [rmem_max_kb |-> 16384, wmem_max_kb |-> 16384], st)
        /\ Fits(22, [ports |-> 64511], st)
        /\ Fits(23, [slow_start_idle |-> 0], st)
        /\ Fits(24, [fastopen |-> 3], st)
        /\ Fits(25, [netdev_budget |-> 600], st)
        /\ Fits(26, [rmem_max_kb |-> 25600], st)
    BY DEF Fits, SetTo, Settings
  <2> QED
    BY <2>1, <2>2
<1>6. CASE r \in SocketRecs(rd, st, cn)
  <2> DEFINE m == Max({2 * Min({AppBacklog, st["somaxconn"]}), 65535})
  <2>1. \/ r.rank = 27 /\ r.sets = Nothing
        \/ r.rank = 28 /\ r.sets = [somaxconn |-> m]
        \/ r.rank = 29 /\ r.sets = [tcp_rmem_kb |-> 16384]
    BY <1>6, SMT DEF SocketRecs, Rec
  <2>3. m \in Nat /\ m >= 65535
    BY AcceptBacklog DEF Settings
  <2> HIDE DEF m
  <2>2. /\ Fits(27, Nothing, st)
        /\ Fits(28, [somaxconn |-> m], st)
        /\ Fits(29, [tcp_rmem_kb |-> 16384], st)
    BY <2>3 DEF Fits, SetTo, Settings, Nothing
  <2> QED
    BY <2>1, <2>2
<1>7. CASE r \in NeighbourRecs(st, cn)
  <2>1. \/ r.rank = 30 /\ r.sets = [arp_thresh3 |-> 8192]
        \/ r.rank = 31 /\ r.sets = [tcp_mem_k |-> 4096]
    BY <1>7, SMT DEF NeighbourRecs, Rec
  <2>2. /\ Fits(30, [arp_thresh3 |-> 8192], st)
        /\ Fits(31, [tcp_mem_k |-> 4096], st)
    BY DEF Fits, SetTo, Settings
  <2> QED
    BY <2>1, <2>2
<1>8. CASE r \in DiskRecs(st)
  <2>1. \/ r.rank = 32 /\ r.sets = [scheduler_ssd |-> MqDeadline]
        \/ r.rank = 33 /\ r.sets = [scheduler_hdd |-> Bfq]
    BY <1>8, SMT DEF DiskRecs, Rec
  <2>2. /\ Fits(32, [scheduler_ssd |-> MqDeadline], st)
        /\ Fits(33, [scheduler_hdd |-> Bfq], st)
    BY DEF Fits, SetTo, Settings
  <2> QED
    BY <2>1, <2>2
<1>9. CASE r \in LargeMemoryRecs(st)
  <2>1. \/ r.rank = 34 /\ r.sets = [thp |-> Madvise]
        \/ r.rank = 35 /\ r.sets = [min_free_kbytes |-> 131072]
    BY <1>9, SMT DEF LargeMemoryRecs, Rec
  <2>2. /\ Fits(34, [thp |-> Madvise], st)
        /\ Fits(35, [min_free_kbytes |-> 131072], st)
    BY DEF Fits, SetTo, Settings
  <2> QED
    BY <2>1, <2>2
<1> QED
  BY <1>1, <1>2, <1>3, <1>4, <1>5, <1>6, <1>7, <1>8, <1>9 DEF AllRecs

\* Where a setting has several recommendations, a later one asks for no less.
LEMMA LaterIsNoLess ==
    ASSUME NEW st \in [Settings -> Nat], NEW s, NEW i \in 1 .. 35, NEW j \in 1 .. 35, i < j,
           NEW v, NEW w, SetTo(s, i, v, st), SetTo(s, j, w, st)
    PROVE  v <= w
<1>1. CASE s \in {"min_free_kbytes", "thp"}
  BY <1>1 DEF SetTo, Madvise
<1>2. CASE s = "somaxconn"
  BY <1>2 DEF SetTo
<1>3. CASE s \in {"tcp_rmem_kb", "rmem_max_kb"}
  BY <1>3 DEF SetTo
<1>4. CASE s \notin {"min_free_kbytes", "thp", "somaxconn", "tcp_rmem_kb", "rmem_max_kb"}
  <2>1. i = j
    BY <1>4 DEF SetTo, Settings
  <2> QED
    BY <2>1
<1> QED
  BY <1>1, <1>2, <1>3, <1>4

\* What is set is a number.
LEMMA SetToNumber ==
    ASSUME NEW st \in [Settings -> Nat], NEW s, NEW rank, NEW v, SetTo(s, rank, v, st)
    PROVE  s \in Settings /\ v \in Nat
<1>1. s \in Settings
  BY DEF SetTo
<1>2. st["conntrack_max"] \in Nat
  BY DEF Settings
<1>3. CASE s = "conntrack_max"
  BY <1>2, <1>3 DEF SetTo
<1>4. CASE s # "conntrack_max"
  BY <1>1, <1>4 DEF SetTo, Settings, Madvise, Bbr, RingRxMax, MqDeadline, Bfq
<1> QED
  BY <1>1, <1>3, <1>4

-----------------------------------------------------------------------------
(* Running a list.                                                         *)

\* A list as GenerateRecommendations makes one, or a part of it.
ListOf(list, st) == \A r \in list : r.rank \in 1 .. 35 /\ Fits(r.rank, r.sets, st)

\* A setting has its old value, or the one of a recommendation of the list.
LEMMA RunSets ==
    ASSUME NEW list, NEW st0, ListOf(list, st0), NEW st, NEW s \in Settings
    PROVE  \/ Run(list, st)[s] = st[s] /\ \A r \in list : s \notin DOMAIN r.sets
           \/ \E r \in list : s \in DOMAIN r.sets /\ Run(list, st)[s] = r.sets[s]
<1> DEFINE setters == {r \in list : s \in DOMAIN r.sets}
           last == CHOOSE r \in setters : \A q \in setters : q.rank <= r.rank
<1>1. Run(list, st)[s] = IF setters = {} THEN st[s] ELSE last.sets[s]
  BY DEF Run
<1>2. CASE setters = {}
  BY <1>1, <1>2
<1>3. CASE setters # {}
  <2> DEFINE left == {35 - r.rank : r \in setters}
             less == OpToRel(<, Nat)
  <2>1. \A r \in setters : r.rank \in 1 .. 35
    BY DEF ListOf
  <2>2. left \subseteq Nat /\ left # {}
    BY <1>3, <2>1
  <2>3. IsWellFoundedOn(less, Nat)
    BY NatLessThanWellFounded
  <2>4. \A x, y \in Nat : <<y, x>> \notin less => x <= y
    BY DEF OpToRel
  <2> HIDE DEF less, left
  <2>5. PICK x \in left : \A y \in left : <<y, x>> \notin less
    BY <2>2, <2>3, WFMin
  <2>6. \A y \in left : x <= y
    BY <2>2, <2>4, <2>5
  <2>7. PICK r \in setters : x = 35 - r.rank
    BY DEF left
  <2>8. ASSUME NEW q \in setters PROVE q.rank <= r.rank
    <3>1. 35 - r.rank <= 35 - q.rank
      BY <2>6, <2>7 DEF left
    <3>2. r.rank \in 1 .. 35 /\ q.rank \in 1 .. 35
      BY <2>1
    <3> QED
      BY <3>1, <3>2
  <2>9. last \in setters
    BY <2>8
  <2> HIDE DEF last
  <2> QED
    BY <1>1, <1>3, <2>9
<1> QED
  BY <1>2, <1>3

\* Settings stay numbers.
LEMMA RunTyped ==
    ASSUME NEW st0 \in [Settings -> Nat], NEW list, ListOf(list, st0), NEW st \in [Settings -> Nat]
    PROVE  Run(list, st) \in [Settings -> Nat]
<1>1. ASSUME NEW s \in Settings PROVE Run(list, st)[s] \in Nat
  <2>1. CASE Run(list, st)[s] = st[s]
    BY <2>1
  <2>2. ASSUME NEW r \in list, s \in DOMAIN r.sets, Run(list, st)[s] = r.sets[s]
        PROVE  Run(list, st)[s] \in Nat
    BY <2>2, SetToNumber DEF ListOf, Fits
  <2> QED
    BY <2>1, <2>2, RunSets
<1>2. Run(list, st) = [s \in Settings |-> Run(list, st)[s]]
  BY DEF Run
<1> QED
  BY <1>1, <1>2

-----------------------------------------------------------------------------
(* Optimizations: each has one setting it tests and changes.               *)

Optimizations ==
    {"sched_latency", "overcommit", "bbr", "somaxconn", "tcp_rmem",
     "tcp_wmem", "syn_backlog", "socket_buffers", "ports", "slow_start",
     "fastopen", "arp_table", "ssd_scheduler", "hdd_scheduler", "thp",
     "min_free"}

Knob(id) ==
    CASE id = "sched_latency"    -> "sched_latency_ms"
      [] id = "overcommit"       -> "overcommit_memory"
      [] id = "bbr"              -> "congestion"
      [] id = "somaxconn"        -> "somaxconn"
      [] id = "tcp_rmem"         -> "tcp_rmem_kb"
      [] id = "tcp_wmem"         -> "tcp_wmem_kb"
      [] id = "syn_backlog"      -> "syn_backlog"
      [] id = "socket_buffers"   -> "rmem_max_kb"
      [] id = "ports"            -> "ports"
      [] id = "slow_start"       -> "slow_start_idle"
      [] id = "fastopen"         -> "fastopen"
      [] id = "arp_table"        -> "arp_thresh3"
      [] id = "ssd_scheduler"    -> "scheduler_ssd"
      [] id = "hdd_scheduler"    -> "scheduler_hdd"
      [] id = "thp"              -> "thp"
      [] id = "min_free"         -> "min_free_kbytes"

\* The values of its setting that an optimization wants to change.
Due(id, v) ==
    CASE id = "sched_latency"    -> v > 24
      [] id = "overcommit"       -> v = 0
      [] id = "bbr"              -> v # Bbr
      [] id = "somaxconn"        -> Below(v, 4096)
      [] id = "tcp_rmem"         -> v < 4096
      [] id = "tcp_wmem"         -> v < 4096
      [] id = "syn_backlog"      -> Below(v, 4096)
      [] id = "socket_buffers"   -> Below(v, 16384)
      [] id = "ports"            -> v < 40000
      [] id = "slow_start"       -> v = 1
      [] id = "fastopen"         -> v < 3
      [] id = "arp_table"        -> Below(v, 1025)
      [] id = "ssd_scheduler"    -> v \notin {MqDeadline, NoScheduler}
      [] id = "hdd_scheduler"    -> v # Bfq
      [] id = "thp"              -> v = Always
      [] id = "min_free"         -> Below(v, 65536)

\* A recommendation that is no optimization, or is due for the value of the
\* setting it changes, for good.
Proper(r, st) ==
    r.type = "optimization" \/ r.id \in Optimizations =>
        /\ r.type = "optimization" /\ r.id \in Optimizations
        /\ r.when <=> Due(r.id, st[Knob(r.id)])
        /\ Knob(r.id) \in DOMAIN r.sets
        /\ r.kept

\* All optimizations are of this kind.
LEMMA OptimizationsProper ==
    ASSUME NEW rd, NEW st, NEW cn, NEW r \in AllRecs(rd, st, cn)
    PROVE  Proper(r, st)
<1>1. CASE r \in CPURecs(rd, st)
  <2>1. \/ r.type = "fix" /\ r.id \notin Optimizations
        \/ r.type = "optimization" /\ r.id = "sched_latency" /\ r.sets = [sched_latency_ms |-> 6]
    BY <1>1, SMT DEF CPURecs, Rec, Optimizations
  <2>2. CASE r.type = "optimization" /\ r.id = "sched_latency" /\ r.sets = [sched_latency_ms |-> 6]
    <3> DEFINE low == st["sched_latency_ms"] > 24
    <3>1. r.when = low /\ r.kept = TRUE
      BY <1>1, <2>2, SMT DEF CPURecs, Rec
    <3>2. Knob(r.id) = "sched_latency_ms" /\ r.id \in Optimizations
      BY <2>2 DEF Knob, Optimizations
    <3>3. Due(r.id, st["sched_latency_ms"]) <=> low
      BY <2>2 DEF Due
    <3>4. "sched_latency_ms" \in DOMAIN r.sets
      BY <2>2
    <3> HIDE DEF low
    <3>5. r.when <=> Due(r.id, st["sched_latency_ms"])
      BY <3>1, <3>3
    <3> QED
      BY <2>2, <3>1, <3>2, <3>4, <3>5 DEF Proper
  <2>3. CASE r.type = "fix" /\ r.id \notin Optimizations
    BY <2>3 DEF Proper
  <2> QED
    BY <2>1, <2>2, <2>3
<1>2. CASE r \in MemoryRecs(rd, st)
  <2>1. \/ r.type = "fix" /\ r.id \notin Optimizations
        \/ r.type = "optimization" /\ r.id = "overcommit" /\ r.sets = [overcommit_memory |-> 2]
    BY <1>2, SMT DEF MemoryRecs, Rec, Optimizations
  <2>2. CASE r.type = "optimization" /\ r.id = "overcommit" /\ r.sets = [overcommit_memory |-> 2]
    <3> DEFINE low == st["overcommit_memory"] = 0
    <3>1. r.when = low /\ r.kept = TRUE
      BY <1>2, <2>2, SMT DEF MemoryRecs, Rec
    <3>2. Knob(r.id) = "overcommit_memory" /\ r.id \in Optimizations
      BY <2>2 DEF Knob, Optimizations
    <3>3. Due(r.id, st["overcommit_memory"]) <=> low
      BY <2>2 DEF Due
    <3>4. "overcommit_memory" \in DOMAIN r.sets
      BY <2>2
    <3> HIDE DEF low
    <3>5. r.when <=> Due(r.id, st["overcommit_memory"])
      BY <3>1, <3>3
    <3> QED
      BY <2>2, <3>1, <3>2, <3>4, <3>5 DEF Proper
  <2>3. CASE r.type = "fix" /\ r.id \notin Optimizations
    BY <2>3 DEF Proper
  <2> QED
    BY <2>1, <2>2, <2>3
<1>3. CASE r \in TCPRecs(rd, st)
  <2>1. \/ r.type = "fix" /\ r.id \notin Optimizations
        \/ r.type = "optimization" /\ r.id = "bbr" /\ r.sets = [congestion |-> Bbr]
        \/ r.type = "optimization" /\ r.id = "somaxconn" /\ r.sets = [somaxconn |-> 4096]
        \/ r.type = "optimization" /\ r.id = "tcp_rmem" /\ r.sets = [tcp_rmem_kb |-> 6144]
        \/ r.type = "optimization" /\ r.id = "tcp_wmem" /\ r.sets = [tcp_wmem_kb |-> 6144]
        \/ r.type = "optimization" /\ r.id = "syn_backlog" /\ r.sets = [syn_backlog |-> 8192]
    BY <1>3, SMT DEF TCPRecs, Rec, Optimizations
  <2>2. CASE r.type = "optimization" /\ r.id = "bbr" /\ r.sets = [congestion |-> Bbr]
    <3> DEFINE low == st["congestion"] # Bbr
    <3>1. r.when = low /\ r.kept = TRUE
      BY <1>3, <2>2, SMT DEF TCPRecs, Rec
    <3>2. Knob(r.id) = "congestion" /\ r.id \in Optimizations
      BY <2>2 DEF Knob, Optimizations
    <3>3. Due(r.id, st["congestion"]) <=> low
      BY <2>2 DEF Due
    <3>4. "congestion" \in DOMAIN r.sets
      BY <2>2
    <3> HIDE DEF low
    <3>5. r.when <=> Due(r.id, st["congestion"])
      BY <3>1, <3>3
    <3> QED
      BY <2>2, <3>1, <3>2, <3>4, <3>5 DEF Proper
  <2>3. CASE r.type = "optimization" /\ r.id = "somaxconn" /\ r.sets = [somaxconn |-> 4096]
    <3> DEFINE low == Below(st["somaxconn"], 4096)
    <3>1. r.when = low /\ r.kept = TRUE
      BY <1>3, <2>3, SMT DEF TCPRecs, Rec
    <3>2. Knob(r.id) = "somaxconn" /\ r.id \in Optimizations
      BY <2>3 DEF Knob, Optimizations
    <3>3. Due(r.id, st["somaxconn"]) <=> low
      BY <2>3 DEF Due
    <3>4. "somaxconn" \in DOMAIN r.sets
      BY <2>3
    <3> HIDE DEF low
    <3>5. r.when <=> Due(r.id, st["somaxconn"])
      BY <3>1, <3>3
    <3> QED
      BY <2>3, <3>1, <3>2, <3>4, <3>5 DEF Proper
  <2>4. CASE r.type = "optimization" /\ r.id = "tcp_rmem" /\ r.sets = [tcp_rmem_kb |-> 6144]
    <3> DEFINE low == st["tcp_rmem_kb"] < 4096
    <3>1. r.when = low /\ r.kept = TRUE
      BY <1>3, <2>4, SMT DEF TCPRecs, Rec
    <3>2. Knob(r.id) = "tcp_rmem_kb" /\ r.id \in Optimizations
      BY <2>4 DEF Knob, Optimizations
    <3>3. Due(r.id, st["tcp_rmem_kb"]) <=> low
      BY <2>4 DEF Due
    <3>4. "tcp_rmem_kb" \in DOMAIN r.sets
      BY <2>4
    <3> HIDE DEF low
    <3>5. r.when <=> Due(r.id, st["tcp_rmem_kb"])
      BY <3>1, <3>3
    <3> QED
      BY <2>4, <3>1, <3>2, <3>4, <3>5 DEF Proper
  <2>5. CASE r.type = "optimization" /\ r.id = "tcp_wmem" /\ r.sets = [tcp_wmem_kb |-> 6144]
    <3> DEFINE low == st["tcp_wmem_kb"] < 4096
    <3>1. r.when = low /\ r.kept = TRUE
      BY <1>3, <2>5, SMT DEF TCPRecs, Rec
    <3>2. Knob(r.id) = "tcp_wmem_kb" /\ r.id \in Optimizations
      BY <2>5 DEF Knob, Optimizations
    <3>3. Due(r.id, st["tcp_wmem_kb"]) <=> low
      BY <2>5 DEF Due
    <3>4. "tcp_wmem_kb" \in DOMAIN r.sets
      BY <2>5
    <3> HIDE DEF low
    <3>5. r.when <=> Due(r.id, st["tcp_wmem_kb"])
      BY <3>1, <3>3
    <3> QED
      BY <2>5, <3>1, <3>2, <3>4, <3>5 DEF Proper
  <2>6. CASE r.type = "optimization" /\ r.id = "syn_backlog" /\ r.sets = [syn_backlog |-> 8192]
    <3> DEFINE low == Below(st["syn_backlog"], 4096)
    <3>1. r.when = low /\ r.kept = TRUE
      BY <1>3, <2>6, SMT DEF TCPRecs, Rec
    <3>2. Knob(r.id) = "syn_backlog" /\ r.id \in Optimizations
      BY <2>6 DEF Knob, Optimizations
    <3>3. Due(r.id, st["syn_backlog"]) <=> low
      BY <2>6 DEF Due
    <3>4. "syn_backlog" \in DOMAIN r.sets
      BY <2>6
    <3> HIDE DEF low
    <3>5. r.when <=> Due(r.id, st["syn_backlog"])
      BY <3>1, <3>3
    <3> QED
      BY <2>6, <3>1, <3>2, <3>4, <3>5 DEF Proper
  <2>7. CASE r.type = "fix" /\ r.id \notin Optimizations
    BY <2>7 DEF Proper
  <2> QED
    BY <2>1, <2>2, <2>3, <2>4, <2>5, <2>6, <2>7
<1>4. CASE r \in TableRecs(rd, st, cn)
  <2>1. r.type = "fix" /\ r.id \notin Optimizations
    BY <1>4, SMT DEF TableRecs, Rec, Optimizations
  <2> QED
    BY <2>1 DEF Proper
<1>5. CASE r \in BufferRecs(rd, st, cn)
  <2>1. \/ r.type = "fix" /\ r.id \notin Optimizations
        \/ r.type = "optimization" /\ r.id = "socket_buffers" /\ r.sets = [rmem_max_kb |-> 16384, wmem_max_kb |-> 16384]
        \/ r.type = "optimization" /\ r.id = "ports" /\ r.sets = [ports |-> 64511]
        \/ r.type = "optimization" /\ r.id = "slow_start" /\ r.sets = [slow_start_idle |-> 0]
        \/ r.type = "optimization" /\ r.id = "fastopen" /\ r.sets = [fastopen |-> 3]
    BY <1>5, SMT DEF BufferRecs, Rec, Optimizations
  <2>2. CASE r.type = "optimization" /\ r.id = "socket_buffers" /\ r.sets = [rmem_max_kb |-> 16384, wmem_max_kb |-> 16384]
    <3> DEFINE low == Below(st["rmem_max_kb"], 16384)
    <3>1. r.when = low /\ r.kept = TRUE
      BY <1>5, <2>2, SMT DEF BufferRecs, Rec
    <3>2. Knob(r.id) = "rmem_max_kb" /\ r.id \in Optimizations
      BY <2>2 DEF Knob, Optimizations
    <3>3. Due(r.id, st["rmem_max_kb"]) <=> low
      BY <2>2 DEF Due
    <3>4. "rmem_max_kb" \in DOMAIN r.sets
      BY <2>2
    <3> HIDE DEF low
    <3>5. r.when <=> Due(r.id, st["rmem_max_kb"])
      BY <3>1, <3>3
    <3> QED
      BY <2>2, <3>1, <3>2, <3>4, <3>5 DEF Proper
  <2>3. CASE r.type = "optimization" /\ r.id = "ports" /\ r.sets = [ports |-> 64511]
    <3> DEFINE low == st["ports"] < 40000
    <3>1. r.when = low /\ r.kept = TRUE
      BY <1>5, <2>3, SMT DEF BufferRecs, Rec
    <3>2. Knob(r.id) = "ports" /\ r.id \in Optimizations
      BY <2>3 DEF Knob, Optimizations
    <3>3. Due(r.id, st["ports"]) <=> low
      BY <2>3 DEF Due
    <3>4. "ports" \in DOMAIN r.sets
      BY <2>3
    <3> HIDE DEF low
    <3>5. r.when <=> Due(r.id, st["ports"])
      BY <3>1, <3>3
    <3> QED
      BY <2>3, <3>1, <3>2, <3>4, <3>5 DEF Proper
  <2>4. CASE r.type = "optimization" /\ r.id = "slow_start" /\ r.sets = [slow_start_idle |-> 0]
    <3> DEFINE low == st["slow_start_idle"] = 1
    <3>1. r.when = low /\ r.kept = TRUE
      BY <1>5, <2>4, SMT DEF BufferRecs, Rec
    <3>2. Knob(r.id) = "slow_start_idle" /\ r.id \in Optimizations
      BY <2>4 DEF Knob, Optimizations
    <3>3. Due(r.id, st["slow_start_idle"]) <=> low
      BY <2>4 DEF Due
    <3>4. "slow_start_idle" \in DOMAIN r.sets
      BY <2>4
    <3> HIDE DEF low
    <3>5. r.when <=> Due(r.id, st["slow_start_idle"])
      BY <3>1, <3>3
    <3> QED
      BY <2>4, <3>1, <3>2, <3>4, <3>5 DEF Proper
  <2>5. CASE r.type = "optimization" /\ r.id = "fastopen" /\ r.sets = [fastopen |-> 3]
    <3> DEFINE low == st["fastopen"] < 3
    <3>1. r.when = low /\ r.kept = TRUE
      BY <1>5, <2>5, SMT DEF BufferRecs, Rec
    <3>2. Knob(r.id) = "fastopen" /\ r.id \in Optimizations
      BY <2>5 DEF Knob, Optimizations
    <3>3. Due(r.id, st["fastopen"]) <=> low
      BY <2>5 DEF Due
    <3>4. "fastopen" \in DOMAIN r.sets
      BY <2>5
    <3> HIDE DEF low
    <3>5. r.when <=> Due(r.id, st["fastopen"])
      BY <3>1, <3>3
    <3> QED
      BY <2>5, <3>1, <3>2, <3>4, <3>5 DEF Proper
  <2>6. CASE r.type = "fix" /\ r.id \notin Optimizations
    BY <2>6 DEF Proper
  <2> QED
    BY <2>1, <2>2, <2>3, <2>4, <2>5, <2>6
<1>6. CASE r \in SocketRecs(rd, st, cn)
  <2>1. r.type = "fix" /\ r.id \notin Optimizations
    BY <1>6, SMT DEF SocketRecs, Rec, Optimizations
  <2> QED
    BY <2>1 DEF Proper
<1>7. CASE r \in NeighbourRecs(st, cn)
  <2>1. \/ r.type = "fix" /\ r.id \notin Optimizations
        \/ r.type = "optimization" /\ r.id = "arp_table" /\ r.sets = [arp_thresh3 |-> 8192]
    BY <1>7, SMT DEF NeighbourRecs, Rec, Optimizations
  <2>2. CASE r.type = "optimization" /\ r.id = "arp_table" /\ r.sets = [arp_thresh3 |-> 8192]
    <3> DEFINE low == Below(st["arp_thresh3"], 1025)
    <3>1. r.when = low /\ r.kept = TRUE
      BY <1>7, <2>2, SMT DEF NeighbourRecs, Rec
    <3>2. Knob(r.id) = "arp_thresh3" /\ r.id \in Optimizations
      BY <2>2 DEF Knob, Optimizations
    <3>3. Due(r.id, st["arp_thresh3"]) <=> low
      BY <2>2 DEF Due
    <3>4. "arp_thresh3" \in DOMAIN r.sets
      BY <2>2
    <3> HIDE DEF low
    <3>5. r.when <=> Due(r.id, st["arp_thresh3"])
      BY <3>1, <3>3
    <3> QED
      BY <2>2, <3>1, <3>2, <3>4, <3>5 DEF Proper
  <2>3. CASE r.type = "fix" /\ r.id \notin Optimizations
    BY <2>3 DEF Proper
  <2> QED
    BY <2>1, <2>2, <2>3
<1>8. CASE r \in DiskRecs(st)
  <2>1. \/ r.type = "optimization" /\ r.id = "ssd_scheduler" /\ r.sets = [scheduler_ssd |-> MqDeadline]
        \/ r.type = "optimization" /\ r.id = "hdd_scheduler" /\ r.sets = [scheduler_hdd |-> Bfq]
    BY <1>8, SMT DEF DiskRecs, Rec
  <2>2. CASE r.type = "optimization" /\ r.id = "ssd_scheduler" /\ r.sets = [scheduler_ssd |-> MqDeadline]
    <3> DEFINE low == st["scheduler_ssd"] \notin {MqDeadline, NoScheduler}
    <3>1. r.when = low /\ r.kept = TRUE
      BY <1>8, <2>2, SMT DEF DiskRecs, Rec
    <3>2. Knob(r.id) = "scheduler_ssd" /\ r.id \in Optimizations
      BY <2>2 DEF Knob, Optimizations
    <3>3. Due(r.id, st["scheduler_ssd"]) <=> low
      BY <2>2 DEF Due
    <3>4. "scheduler_ssd" \in DOMAIN r.sets
      BY <2>2
    <3> HIDE DEF low
    <3>5. r.when <=> Due(r.id, st["scheduler_ssd"])
      BY <3>1, <3>3
    <3> QED
      BY <2>2, <3>1, <3>2, <3>4, <3>5 DEF Proper
  <2>3. CASE r.type = "optimization" /\ r.id = "hdd_scheduler" /\ r.sets = [scheduler_hdd |-> Bfq]
    <3> DEFINE low == st["scheduler_hdd"] # Bfq
    <3>1. r.when = low /\ r.kept = TRUE
      BY <1>8, <2>3, SMT DEF DiskRecs, Rec
    <3>2. Knob(r.id) = "scheduler_hdd" /\ r.id \in Optimizations
      BY <2>3 DEF Knob, Optimizations
    <3>3. Due(r.id, st["scheduler_hdd"]) <=> low
      BY <2>3 DEF Due
    <3>4. "scheduler_hdd" \in DOMAIN r.sets
      BY <2>3
    <3> HIDE DEF low
    <3>5. r.when <=> Due(r.id, st["scheduler_hdd"])
      BY <3>1, <3>3
    <3> QED
      BY <2>3, <3>1, <3>2, <3>4, <3>5 DEF Proper
  <2> QED
    BY <2>1, <2>2, <2>3
<1>9. CASE r \in LargeMemoryRecs(st)
  <2>1. \/ r.type = "optimization" /\ r.id = "thp" /\ r.sets = [thp |-> Madvise]
        \/ r.type = "optimization" /\ r.id = "min_free" /\ r.sets = [min_free_kbytes |-> 131072]
    BY <1>9, SMT DEF LargeMemoryRecs, Rec
  <2>2. CASE r.type = "optimization" /\ r.id = "thp" /\ r.sets = [thp |-> Madvise]
    <3> DEFINE low == st["thp"] = Always
    <3>1. r.when = low /\ r.kept = TRUE
      BY <1>9, <2>2, SMT DEF LargeMemoryRecs, Rec
    <3>2. Knob(r.id) = "thp" /\ r.id \in Optimizations
      BY <2>2 DEF Knob, Optimizations
    <3>3. Due(r.id, st["thp"]) <=> low
      BY <2>2 DEF Due
    <3>4. "thp" \in DOMAIN r.sets
      BY <2>2
    <3> HIDE DEF low
    <3>5. r.when <=> Due(r.id, st["thp"])
      BY <3>1, <3>3
    <3> QED
      BY <2>2, <3>1, <3>2, <3>4, <3>5 DEF Proper
  <2>3. CASE r.type = "optimization" /\ r.id = "min_free" /\ r.sets = [min_free_kbytes |-> 131072]
    <3> DEFINE low == Below(st["min_free_kbytes"], 65536)
    <3>1. r.when = low /\ r.kept = TRUE
      BY <1>9, <2>3, SMT DEF LargeMemoryRecs, Rec
    <3>2. Knob(r.id) = "min_free_kbytes" /\ r.id \in Optimizations
      BY <2>3 DEF Knob, Optimizations
    <3>3. Due(r.id, st["min_free_kbytes"]) <=> low
      BY <2>3 DEF Due
    <3>4. "min_free_kbytes" \in DOMAIN r.sets
      BY <2>3
    <3> HIDE DEF low
    <3>5. r.when <=> Due(r.id, st["min_free_kbytes"])
      BY <3>1, <3>3
    <3> QED
      BY <2>3, <3>1, <3>2, <3>4, <3>5 DEF Proper
  <2> QED
    BY <2>1, <2>2, <2>3
<1> QED
  BY <1>1, <1>2, <1>3, <1>4, <1>5, <1>6, <1>7, <1>8, <1>9 DEF AllRecs

\* Each of them is there.
LEMMA OptimizationThere ==
    ASSUME NEW rd, NEW st, NEW cn, NEW id \in Optimizations
    PROVE  \E r \in AllRecs(rd, st, cn) : r.id = id /\ r.type = "optimization"
<1>1. CASE id \in {"sched_latency"}
  <2>1. \E r \in CPURecs(rd, st) : r.id = id /\ r.type = "optimization"
    BY <1>1, SMT DEF CPURecs, Rec
  <2> QED
    BY <2>1 DEF AllRecs
<1>2. CASE id \in {"overcommit"}
  <2>1. \E r \in MemoryRecs(rd, st) : r.id = id /\ r.type = "optimization"
    BY <1>2, SMT DEF MemoryRecs, Rec
  <2> QED
    BY <2>1 DEF AllRecs
<1>3. CASE id \in {"bbr", "somaxconn", "tcp_rmem", "tcp_wmem", "syn_backlog"}
  <2>1. \E r \in TCPRecs(rd, st) : r.id = id /\ r.type = "optimization"
    BY <1>3, SMT DEF TCPRecs, Rec
  <2> QED
    BY <2>1 DEF AllRecs
<1>4. CASE id \in {"socket_buffers", "ports", "slow_start", "fastopen"}
  <2>1. \E r \in BufferRecs(rd, st, cn) : r.id = id /\ r.type = "optimization"
    BY <1>4, SMT DEF BufferRecs, Rec
  <2> QED
    BY <2>1 DEF AllRecs
<1>5. CASE id \in {"arp_table"}
  <2>1. \E r \in NeighbourRecs(st, cn) : r.id = id /\ r.type = "optimization"
    BY <1>5, SMT DEF NeighbourRecs, Rec
  <2> QED
    BY <2>1 DEF AllRecs
<1>6. CASE id \in {"ssd_scheduler", "hdd_scheduler"}
  <2>1. \E r \in DiskRecs(st) : r.id = id /\ r.type = "optimization"
    BY <1>6, SMT DEF DiskRecs, Rec
  <2> QED
    BY <2>1 DEF AllRecs
<1>7. CASE id \in {"thp", "min_free"}
  <2>1. \E r \in LargeMemoryRecs(st) : r.id = id /\ r.type = "optimization"
    BY <1>7, SMT DEF LargeMemoryRecs, Rec
  <2> QED
    BY <2>1 DEF AllRecs
<1> QED
  BY <1>1, <1>2, <1>3, <1>4, <1>5, <1>6, <1>7 DEF Optimizations

\* No recommendation sets a value that an optimization wants to change.
LEMMA NothingDue ==
    ASSUME NEW id \in Optimizations, NEW rank, NEW v, NEW st, SetTo(Knob(id), rank, v, st)
    PROVE  ~Due(id, v)
<1>1. CASE id = "sched_latency"
  <2>1. Knob(id) = "sched_latency_ms" /\ (Due(id, v) <=> v > 24)
    BY <1>1 DEF Knob, Due
  <2> QED
    BY <2>1 DEF SetTo
<1>2. CASE id = "overcommit"
  <2>1. Knob(id) = "overcommit_memory" /\ (Due(id, v) <=> v = 0)
    BY <1>2 DEF Knob, Due
  <2> QED
    BY <2>1 DEF SetTo
<1>3. CASE id = "bbr"
  <2>1. Knob(id) = "congestion" /\ (Due(id, v) <=> v # Bbr)
    BY <1>3 DEF Knob, Due
  <2> QED
    BY <2>1 DEF SetTo, Bbr
<1>4. CASE id = "somaxconn"
  <2>1. Knob(id) = "somaxconn" /\ (Due(id, v) <=> Below(v, 4096))
    BY <1>4 DEF Knob, Due
  <2> QED
    BY <2>1 DEF SetTo, Below
<1>5. CASE id = "tcp_rmem"
  <2>1. Knob(id) = "tcp_rmem_kb" /\ (Due(id, v) <=> v < 4096)
    BY <1>5 DEF Knob, Due
  <2> QED
    BY <2>1 DEF SetTo
<1>6. CASE id = "tcp_wmem"
  <2>1. Knob(id) = "tcp_wmem_kb" /\ (Due(id, v) <=> v < 4096)
    BY <1>6 DEF Knob, Due
  <2> QED
    BY <2>1 DEF SetTo
<1>7. CASE id = "syn_backlog"
  <2>1. Knob(id) = "syn_backlog" /\ (Due(id, v) <=> Below(v, 4096))
    BY <1>7 DEF Knob, Due
  <2> QED
    BY <2>1 DEF SetTo, Below
<1>8. CASE id = "socket_buffers"
  <2>1. Knob(id) = "rmem_max_kb" /\ (Due(id, v) <=> Below(v, 16384))
    BY <1>8 DEF Knob, Due
  <2> QED
    BY <2>1 DEF SetTo, Below
<1>9. CASE id = "ports"
  <2>1. Knob(id) = "ports" /\ (Due(id, v) <=> v < 40000)
    BY <1>9 DEF Knob, Due
  <2> QED
    BY <2>1 DEF SetTo
<1>10. CASE id = "slow_start"
  <2>1. Knob(id) = "slow_start_idle" /\ (Due(id, v) <=> v = 1)
    BY <1>10 DEF Knob, Due
  <2> QED
    BY <2>1 DEF SetTo
<1>11. CASE id = "fastopen"
  <2>1. Knob(id) = "fastopen" /\ (Due(id, v) <=> v < 3)
    BY <1>11 DEF Knob, Due
  <2> QED
    BY <2>1 DEF SetTo
<1>12. CASE id = "arp_table"
  <2>1. Knob(id) = "arp_thresh3" /\ (Due(id, v) <=> Below(v, 1025))
    BY <1>12 DEF Knob, Due
  <2> QED
    BY <2>1 DEF SetTo, Below
<1>13. CASE id = "ssd_scheduler"
  <2>1. Knob(id) = "scheduler_ssd" /\ (Due(id, v) <=> v \notin {MqDeadline, NoScheduler})
    BY <1>13 DEF Knob, Due
  <2> QED
    BY <2>1 DEF SetTo, MqDeadline, NoScheduler
<1>14. CASE id = "hdd_scheduler"
  <2>1. Knob(id) = "scheduler_hdd" /\ (Due(id, v) <=> v # Bfq)
    BY <1>14 DEF Knob, Due
  <2> QED
    BY <2>1 DEF SetTo, Bfq
<1>15. CASE id = "thp"
  <2>1. Knob(id) = "thp" /\ (Due(id, v) <=> v = Always)
    BY <1>15 DEF Knob, Due
  <2> QED
    BY <2>1 DEF SetTo, Madvise, Always
<1>16. CASE id = "min_free"
  <2>1. Knob(id) = "min_free_kbytes" /\ (Due(id, v) <=> Below(v, 65536))
    BY <1>16 DEF Knob, Due
  <2> QED
    BY <2>1 DEF SetTo, Below
<1> QED
  BY <1>1, <1>2, <1>3, <1>4, <1>5, <1>6, <1>7, <1>8, <1>9, <1>10, <1>11, <1>12, <1>13, <1>14, <1>15, <1>16 DEF Optimizations

-----------------------------------------------------------------------------
(* Guards: what a recommendation of that rank has found before it raises.  *)

Tested(rank, st) ==
    /\ rank = 14 => st["tcp_wmem_kb"] < 4096
    /\ rank = 16 => st["syn_backlog"] < 4096
    /\ rank = 18 => st["ring_rx"] < 2048
    /\ rank = 20 => st["netdev_max_backlog"] < 5000
    /\ rank = 21 => st["rmem_max_kb"] < 16384
    /\ rank = 22 => st["ports"] < 40000
    /\ rank = 24 => st["fastopen"] < 3
    /\ rank = 25 => st["netdev_budget"] < 600
    /\ rank = 26 => st["rmem_max_kb"] < 25600
    /\ rank = 30 => st["arp_thresh3"] < 1025

\* A recommendation that is made has found it.
LEMMA RecsTested ==
    ASSUME NEW rd, NEW st \in [Settings -> Nat], NEW cn, NEW r \in AllRecs(rd, st, cn)
    PROVE  r.when => Tested(r.rank, st)
<1>1. CASE r \in CPURecs(rd, st)
  <2>1. r.rank \in {1, 2}
    BY <1>1, SMT DEF CPURecs, Rec
  <2> QED
    BY <2>1 DEF Tested
<1>2. CASE r \in MemoryRecs(rd, st)
  <2>1. r.rank \in {3, 4, 5, 6, 7, 8, 9}
    BY <1>2, SMT DEF MemoryRecs, Rec
  <2> QED
    BY <2>1 DEF Tested
<1>3. CASE r \in TCPRecs(rd, st)
  <2>1. r.rank \in {10, 11, 12, 13, 14, 15, 16}
    BY <1>3, SMT DEF TCPRecs, Rec
  <2>2. CASE r.rank = 14
    <3> DEFINE found == st["tcp_wmem_kb"] < 4096
    <3>1. r.when = found
      BY <1>3, <2>2, SMT DEF TCPRecs, Rec
    <3> HIDE DEF found
    <3>2. r.when => found
      BY <3>1
    <3>3. found => st["tcp_wmem_kb"] < 4096
      BY DEF found, Below
    <3> QED
      BY <2>2, <3>2, <3>3 DEF Tested
  <2>3. CASE r.rank = 16
    <3> DEFINE found == Below(st["syn_backlog"], 4096)
    <3>1. r.when = found
      BY <1>3, <2>3, SMT DEF TCPRecs, Rec
    <3> HIDE DEF found
    <3>2. r.when => found
      BY <3>1
    <3>3. found => st["syn_backlog"] < 4096
      BY DEF found, Below
    <3> QED
      BY <2>3, <3>2, <3>3 DEF Tested
  <2>4. CASE r.rank \in {10, 11, 12, 13, 15}
    BY <2>4 DEF Tested
  <2> QED
    BY <2>1, <2>2, <2>3, <2>4
<1>4. CASE r \in TableRecs(rd, st, cn)
  <2>1. r.rank \in {17, 18, 19, 20}
    BY <1>4, SMT DEF TableRecs, Rec
  <2>2. CASE r.rank = 18
    <3> DEFINE found == Below(st["ring_rx"], RingRxMax \div 2) /\ rd["nic_rx_discards"] > 0
    <3>1. r.when = found
      BY <1>4, <2>2, SMT DEF TableRecs, Rec
    <3> HIDE DEF found
    <3>2. r.when => found
      BY <3>1
    <3>3. found => st["ring_rx"] < 2048
      BY DEF found, Below, RingRxMax
    <3> QED
      BY <2>2, <3>2, <3>3 DEF Tested
  <2>3. CASE r.rank = 20
    <3> DEFINE found == Below(st["netdev_max_backlog"], 5000) /\ "Dropped" \in cn
    <3>1. r.when = found
      BY <1>4, <2>3, SMT DEF TableRecs, Rec
    <3> HIDE DEF found
    <3>2. r.when => found
      BY <3>1
    <3>3. found => st["netdev_max_backlog"] < 5000
      BY DEF found, Below
    <3> QED
      BY <2>3, <3>2, <3>3 DEF Tested
  <2>4. CASE r.rank \in {17, 19}
    BY <2>4 DEF Tested
  <2> QED
    BY <2>1, <2>2, <2>3, <2>4
<1>5. CASE r \in BufferRecs(rd, st, cn)
  <2>1. r.rank \in {21, 22, 23, 24, 25, 26}
    BY <1>5, SMT DEF BufferRecs, Rec
  <2>2. CASE r.rank = 21
    <3> DEFINE found == Below(st["rmem_max_kb"], 16384)
    <3>1. r.when = found
      BY <1>5, <2>2, SMT DEF BufferRecs, Rec
    <3> HIDE DEF found
    <3>2. r.when => found
      BY <3>1
    <3>3. found => st["rmem_max_kb"] < 16384
      BY DEF found, Below
    <3> QED
      BY <2>2, <3>2, <3>3 DEF Tested
  <2>3. CASE r.rank = 22
    <3> DEFINE found == st["ports"] < 40000
    <3>1. r.when = found
      BY <1>5, <2>3, SMT DEF BufferRecs, Rec
    <3> HIDE DEF found
    <3>2. r.when => found
      BY <3>1
    <3>3. found => st["ports"] < 40000
      BY DEF found, Below
    <3> QED
      BY <2>3, <3>2, <3>3 DEF Tested
  <2>4. CASE r.rank = 24
    <3> DEFINE found == st["fastopen"] < 3
    <3>1. r.when = found
      BY <1>5, <2>4, SMT DEF BufferRecs, Rec
    <3> HIDE DEF found
    <3>2. r.when => found
      BY <3>1
    <3>3. found => st["fastopen"] < 3
      BY DEF found, Below
    <3> QED
      BY <2>4, <3>2, <3>3 DEF Tested
  <2>5. CASE r.rank = 25
    <3> DEFINE found == "TimeSqueeze" \in cn /\ Below(st["netdev_budget"], 600)
    <3>1. r.when = found
      BY <1>5, <2>5, SMT DEF BufferRecs, Rec
    <3> HIDE DEF found
    <3>2. r.when => found
      BY <3>1
    <3>3. found => st["netdev_budget"] < 600
      BY DEF found, Below
    <3> QED
      BY <2>5, <3>2, <3>3 DEF Tested
  <2>6. CASE r.rank = 26
    <3> DEFINE found == RcvbufErrRate(rd) > 0 /\ Below(st["rmem_max_kb"], 25600)
    <3>1. r.when = found
      BY <1>5, <2>6, SMT DEF BufferRecs, Rec
    <3> HIDE DEF found
    <3>2. r.when => found
      BY <3>1
    <3>3. found => st["rmem_max_kb"] < 25600
      BY DEF found, Below
    <3> QED
      BY <2>6, <3>2, <3>3 DEF Tested
  <2>7. CASE r.rank \in {23}
    BY <2>7 DEF Tested
  <2> QED
    BY <2>1, <2>2, <2>3, <2>4, <2>5, <2>6, <2>7
<1>6. CASE r \in SocketRecs(rd, st, cn)
  <2>1. r.rank \in {27, 28, 29}
    BY <1>6, SMT DEF SocketRecs, Rec
  <2> QED
    BY <2>1 DEF Tested
<1>7. CASE r \in NeighbourRecs(st, cn)
  <2>1. r.rank \in {30, 31}
    BY <1>7, SMT DEF NeighbourRecs, Rec
  <2>2. CASE r.rank = 30
    <3> DEFINE found == Below(st["arp_thresh3"], 1025)
    <3>1. r.when = found
      BY <1>7, <2>2, SMT DEF NeighbourRecs, Rec
    <3> HIDE DEF found
    <3>2. r.when => found
      BY <3>1
    <3>3. found => st["arp_thresh3"] < 1025
      BY DEF found, Below
    <3> QED
      BY <2>2, <3>2, <3>3 DEF Tested
  <2>3. CASE r.rank \in {31}
    BY <2>3 DEF Tested
  <2> QED
    BY <2>1, <2>2, <2>3
<1>8. CASE r \in DiskRecs(st)
  <2>1. r.rank \in {32, 33}
    BY <1>8, SMT DEF DiskRecs, Rec
  <2> QED
    BY <2>1 DEF Tested
<1>9. CASE r \in LargeMemoryRecs(st)
  <2>1. r.rank \in {34, 35}
    BY <1>9, SMT DEF LargeMemoryRecs, Rec
  <2> QED
    BY <2>1 DEF Tested
<1> QED
  BY <1>1, <1>2, <1>3, <1>4, <1>5, <1>6, <1>7, <1>8, <1>9 DEF AllRecs

\* The settings of GuardedNeverLowered.
Guarded == {"syn_backlog", "rmem_max_kb", "netdev_max_backlog", "netdev_budget", "ring_rx",
            "fastopen", "arp_thresh3", "ports", "tcp_wmem_kb", "conntrack_max"}

\* A value that is set after the test is not below the one that was tested.
LEMMA TestedRaises ==
    ASSUME NEW st \in [Settings -> Nat], NEW s \in Guarded, NEW rank, NEW v,
           SetTo(s, rank, v, st), Tested(rank, st)
    PROVE  st[s] <= v
<1>1. st[s] \in Nat
  BY DEF Guarded, Settings
<1>2. CASE s = "syn_backlog"
  BY <1>1, <1>2 DEF SetTo, Tested
<1>3. CASE s = "rmem_max_kb"
  BY <1>1, <1>3 DEF SetTo, Tested
<1>4. CASE s = "netdev_max_backlog"
  BY <1>1, <1>4 DEF SetTo, Tested
<1>5. CASE s = "netdev_budget"
  BY <1>1, <1>5 DEF SetTo, Tested
<1>6. CASE s = "ring_rx"
  BY <1>1, <1>6 DEF SetTo, Tested, RingRxMax
<1>7. CASE s = "fastopen"
  BY <1>1, <1>7 DEF SetTo, Tested
<1>8. CASE s = "arp_thresh3"
  BY <1>1, <1>8 DEF SetTo, Tested
<1>9. CASE s = "ports"
  BY <1>1, <1>9 DEF SetTo, Tested
<1>10. CASE s = "tcp_wmem_kb"
  BY <1>1, <1>10 DEF SetTo, Tested
<1>11. CASE s = "conntrack_max"
  BY <1>1, <1>11 DEF SetTo
<1> QED
  BY <1>2, <1>3, <1>4, <1>5, <1>6, <1>7, <1>8, <1>9, <1>10, <1>11 DEF Guarded

-----------------------------------------------------------------------------
(* The host, at all times.                                                 *)

\* A list that GenerateRecommendations has made of some host.
Made(list) ==
    \E rd, cn : \E st \in [Settings -> Nat] : list = GenerateRecommendations(rd, st, cn)

\* What has been followed is not due on a host that has just booted.
Persistent(ids, st) == \A id \in ids \cap Optimizations : ~Due(id, st[Knob(id)])

TInv ==
    /\ DInv
    /\ known = Sources
    /\ setting \in [Settings -> Nat]
    /\ boot \in [Settings -> Nat]
    /\ CountersOf(reading) \subseteq counted
    /\ Made(recs)
    /\ Persistent(followed, boot)

\* Every optimization is about one of the settings.
LEMMA KnobIsSetting ==
    ASSUME NEW id \in Optimizations
    PROVE  Knob(id) \in Settings
  BY DEF Optimizations, Knob, Settings

\* What is known of a list.
LEMMA MadeList ==
    ASSUME NEW rd, NEW cn, NEW st \in [Settings -> Nat], NEW list,
           list = GenerateRecommendations(rd, st, cn)
    PROVE  ListOf(list, st) /\ \A r \in list : Proper(r, st)
<1>1. \A r \in list : r \in AllRecs(rd, st, cn)
  BY DEF GenerateRecommendations
<1> QED
  BY <1>1, SetsFit, OptimizationsProper DEF ListOf

\* Following a list, or a part that has all its optimizations, leaves none of
\* them due, and makes none due that was not.
LEMMA RunSettles ==
    ASSUME NEW st0 \in [Settings -> Nat], NEW list, ListOf(list, st0),
           NEW st, NEW id \in Optimizations,
           \/ \E r \in list : r.id = id /\ Proper(r, st0)
           \/ ~Due(id, st[Knob(id)])
    PROVE  ~Due(id, Run(list, st)[Knob(id)])
<1>1. Knob(id) \in Settings
  BY KnobIsSetting
<1>2. CASE /\ Run(list, st)[Knob(id)] = st[Knob(id)]
           /\ \A r \in list : Knob(id) \notin DOMAIN r.sets
  <2>1. ~\E r \in list : r.id = id /\ Proper(r, st0)
    BY <1>2 DEF Proper
  <2> QED
    BY <1>2, <2>1
<1>3. ASSUME NEW r \in list, Knob(id) \in DOMAIN r.sets,
             Run(list, st)[Knob(id)] = r.sets[Knob(id)]
      PROVE  ~Due(id, Run(list, st)[Knob(id)])
  <2>1. SetTo(Knob(id), r.rank, r.sets[Knob(id)], st0)
    BY <1>3 DEF ListOf, Fits
  <2> QED
    BY <1>3, <2>1, NothingDue
<1> QED
  BY <1>1, <1>2, <1>3, RunSets

\* A new value of one reading can only add the counter behind that reading.
LEMMA CountersGrow ==
    ASSUME NEW rd, NEW f \in DOMAIN rd, NEW v, NEW cn, CountersOf(rd) \subseteq cn,
           DOMAIN CountedBy \subseteq DOMAIN rd
    PROVE  CountersOf([rd EXCEPT ![f] = v]) \subseteq
              cn \cup {CountedBy[g] : g \in {f} \cap DOMAIN CountedBy}
<1> DEFINE C == DOMAIN CountedBy
           by(g) == CountedBy[g]
           new == [rd EXCEPT ![f] = v]
<1>1. CountersOf(rd) = {by(g) : g \in {h \in C : rd[h] > 0}}
  BY DEF CountersOf
<1>2. CountersOf(new) = {by(g) : g \in {h \in C : new[h] > 0}}
  BY DEF CountersOf
<1>3. \A g \in C : g # f => new[g] = rd[g]
  OBVIOUS
<1>4. ASSUME NEW g \in C, new[g] > 0
      PROVE  by(g) \in cn \cup {by(h) : h \in {f} \cap C}
  <2>1. CASE g = f
    BY <2>1
  <2>2. CASE g # f
    <3>1. rd[g] > 0
      BY <1>3, <1>4, <2>2
    <3> HIDE DEF C, by, new
    <3> QED
      BY <1>1, <3>1
  <2> QED
    BY <2>1, <2>2
<1>5. {CountedBy[g] : g \in {f} \cap DOMAIN CountedBy} = {by(h) : h \in {f} \cap C}
  OBVIOUS
<1> HIDE DEF C, by, new
<1>6. CountersOf(new) \subseteq cn \cup {by(h) : h \in {f} \cap C}
  BY <1>2, <1>4
<1> QED
  BY <1>5, <1>6 DEF new

\* The metrics of those rules are readings, and so are those of the counters.
LEMMA AdviceFields ==
    {"load_average", "direct_reclaim_rate", "compaction_stall_rate", "numa_miss_ratio", "tcp_retransmits",
     "conntrack_usage_pct", "listen_overflows", "tcp_zero_window_drop", "listen_queue_saturation",
     "softnet_dropped", "softnet_time_squeeze"} \subseteq Fields
<1>1. "load_average" \in Fields
  <2> DEFINE q == Rule("load_average", "cpu", 20, 40)
  <2>1. q \in defaultThresholds
    BY DEF defaultThresholds, CPURules
  <2>2. q.metric = "load_average"
    BY DEF Rule
  <2> HIDE DEF q
  <2> QED
    BY <2>1, <2>2, DirectField DEF Composite
<1>2. "direct_reclaim_rate" \in Fields
  <2> DEFINE q == Rule("direct_reclaim_rate", "memory", 100, 10000)
  <2>1. q \in defaultThresholds
    BY DEF defaultThresholds, MemoryRules
  <2>2. q.metric = "direct_reclaim_rate"
    BY DEF Rule
  <2> HIDE DEF q
  <2> QED
    BY <2>1, <2>2, DirectField DEF Composite
<1>3. "compaction_stall_rate" \in Fields
  <2> DEFINE q == Rule("compaction_stall_rate", "memory", 10, 1000)
  <2>1. q \in defaultThresholds
    BY DEF defaultThresholds, MemoryRules
  <2>2. q.metric = "compaction_stall_rate"
    BY DEF Rule
  <2> HIDE DEF q
  <2> QED
    BY <2>1, <2>2, DirectField DEF Composite
<1>4. "numa_miss_ratio" \in Fields
  <2> DEFINE q == Rule("numa_miss_ratio", "memory", 50, 200)
  <2>1. q \in defaultThresholds
    BY DEF defaultThresholds, MemoryRules
  <2>2. q.metric = "numa_miss_ratio"
    BY DEF Rule
  <2> HIDE DEF q
  <2> QED
    BY <2>1, <2>2, DirectField DEF Composite
<1>5. "tcp_retransmits" \in Fields
  <2> DEFINE q == Rule("tcp_retransmits", "network", 100, 500)
  <2>1. q \in defaultThresholds
    BY DEF defaultThresholds, DeviceRules
  <2>2. q.metric = "tcp_retransmits"
    BY DEF Rule
  <2> HIDE DEF q
  <2> QED
    BY <2>1, <2>2, DirectField DEF Composite
<1>6. "conntrack_usage_pct" \in Fields
  <2> DEFINE q == Rule("conntrack_usage_pct", "network", 700, 900)
  <2>1. q \in defaultThresholds
    BY DEF defaultThresholds, InterfaceRules
  <2>2. q.metric = "conntrack_usage_pct"
    BY DEF Rule
  <2> HIDE DEF q
  <2> QED
    BY <2>1, <2>2, DirectField DEF Composite
<1>7. "listen_overflows" \in Fields
  <2> DEFINE q == Rule("listen_overflows", "network", 10, 1000)
  <2>1. q \in defaultThresholds
    BY DEF defaultThresholds, InterfaceRules
  <2>2. q.metric = "listen_overflows"
    BY DEF Rule
  <2> HIDE DEF q
  <2> QED
    BY <2>1, <2>2, DirectField DEF Composite
<1>8. "tcp_zero_window_drop" \in Fields
  <2> DEFINE q == Rule("tcp_zero_window_drop", "network", 10, 500)
  <2>1. q \in defaultThresholds
    BY DEF defaultThresholds, SocketRules
  <2>2. q.metric = "tcp_zero_window_drop"
    BY DEF Rule
  <2> HIDE DEF q
  <2> QED
    BY <2>1, <2>2, DirectField DEF Composite
<1>9. "listen_queue_saturation" \in Fields
  <2> DEFINE q == Rule("listen_queue_saturation", "network", 700, 900)
  <2>1. q \in defaultThresholds
    BY DEF defaultThresholds, SocketRules
  <2>2. q.metric = "listen_queue_saturation"
    BY DEF Rule
  <2> HIDE DEF q
  <2> QED
    BY <2>1, <2>2, DirectField DEF Composite
<1>10. "softnet_dropped" \in Fields
  <2> DEFINE q == Rule("softnet_dropped", "network", 10, 1000)
  <2>1. q \in defaultThresholds
    BY DEF defaultThresholds, InterfaceRules
  <2>2. q.metric = "softnet_dropped"
    BY DEF Rule
  <2> HIDE DEF q
  <2> QED
    BY <2>1, <2>2, DirectField DEF Composite
<1>11. "softnet_time_squeeze" \in Fields
  <2> DEFINE q == Rule("softnet_time_squeeze", "network", 10, 1000)
  <2>1. q \in defaultThresholds
    BY DEF defaultThresholds, KernelRules
  <2>2. q.metric = "softnet_time_squeeze"
    BY DEF Rule
  <2> HIDE DEF q
  <2> QED
    BY <2>1, <2>2, DirectField DEF Composite
<1> QED
  BY <1>1, <1>2, <1>3, <1>4, <1>5, <1>6, <1>7, <1>8, <1>9, <1>10, <1>11

\* Each counter since boot belongs to a reading.
LEMMA CountersAreFields == DOMAIN CountedBy \subseteq Fields
<1>1. DOMAIN CountedBy = {"listen_overflows", "softnet_dropped", "softnet_time_squeeze"}
  BY DEF CountedBy
<1> QED
  BY <1>1, AdviceFields

\* The list of a report is one that GenerateRecommendations made, and an
\* optimization that has been followed is not due for the settings of a boot.
THEOREM TuningInvariant == TuningSpec => []TInv
<1>1. ASSUME TuningInit PROVE TInv
  <2>1. DInv
    BY <1>1, BasesAssumption DEF TuningInit, Init, DInv
  <2>2. setting \in [Settings -> Nat] /\ boot \in [Settings -> Nat]
    BY <1>1, SettingsAssumption DEF TuningInit
  <2>3. Made(recs)
    BY <1>1, <2>2 DEF TuningInit, Made
  <2>4. Persistent(followed, boot)
    BY <1>1 DEF TuningInit, Persistent
  <2> QED
    BY <1>1, <2>1, <2>2, <2>3, <2>4 DEF TuningInit, Init, TInv
<1>2. ASSUME TInv, [TuningNext]_tuningVars PROVE TInv'
  <2> USE <1>2
  <2>1. ASSUME NEW f \in Fields, NEW v \in Levels[f], Measure(f, v) PROVE TInv'
    <3>1. v \in Nat /\ f \in DOMAIN reading
      BY LevelsAssumption DEF TInv, DInv
    <3>2. DInv' /\ known' = Sources
      BY <2>1, <3>1 DEF TInv, DInv, Measure, Remeasure
    <3>3. Made(recs')
      BY <2>1 DEF TInv, Made, Measure, Report
    <3>4. CountersOf(reading') \subseteq counted'
      <4>1. DOMAIN CountedBy \subseteq DOMAIN reading
        BY CountersAreFields DEF TInv, DInv
      <4> QED
        BY <2>1, <3>1, <4>1, CountersGrow DEF TInv, Measure, Remeasure
    <3> QED
      BY <2>1, <3>2, <3>3, <3>4 DEF TInv, Measure
  <2>2. ASSUME NEW s \in Settings, NEW v \in SettingLevels[s], Drift(s, v) PROVE TInv'
    <3>1. v \in Nat
      BY SettingsAssumption
    <3>2. DInv'
      BY <2>2 DEF TInv, DInv, Drift, vars
    <3> QED
      BY <2>2, <3>1, <3>2 DEF TInv, Drift, vars
  <2>3. ASSUME NEW c \in Counters, Count(c) PROVE TInv'
    <3>1. DInv'
      BY <2>3 DEF TInv, DInv, Count, vars
    <3> QED
      BY <2>3, <3>1 DEF TInv, Count, vars
  <2>4. CASE Collect
    <3>1. DInv'
      BY <2>4 DEF TInv, DInv, Collect, vars
    <3>2. Made(recs')
      BY <2>4 DEF TInv, Made, Collect, Report
    <3> QED
      BY <2>4, <3>1, <3>2 DEF TInv, Collect, vars
  <2>5. CASE Apply
    <3>1. DInv'
      BY <2>5 DEF TInv, DInv, Apply, vars
    <3>0. PICK rd, cn : \E st \in [Settings -> Nat] : recs = GenerateRecommendations(rd, st, cn)
      BY DEF TInv, Made
    <3>2. PICK st \in [Settings -> Nat] : recs = GenerateRecommendations(rd, st, cn)
      BY <3>0
    <3> DEFINE kept == {r \in recs : r.kept}
    <3>3. ListOf(recs, st) /\ \A r \in recs : Proper(r, st)
      BY <3>2, MadeList
    <3>4. ListOf(kept, st)
      BY <3>3 DEF ListOf
    <3>5. setting' \in [Settings -> Nat] /\ boot' \in [Settings -> Nat]
      BY <2>5, <3>3, <3>4, RunTyped DEF TInv, Apply
    <3>6. ASSUME NEW id \in followed' \cap Optimizations PROVE ~Due(id, boot'[Knob(id)])
      <4>1. \/ \E r \in kept : r.id = id /\ Proper(r, st)
            \/ ~Due(id, boot[Knob(id)])
        <5>1. CASE id \in followed
          BY <3>6, <5>1 DEF TInv, Persistent
        <5>2. ASSUME NEW r \in recs, r.id = id PROVE r \in kept /\ Proper(r, st)
          BY <3>3, <3>6, <5>2 DEF Proper
        <5> QED
          BY <2>5, <3>6, <5>1, <5>2 DEF Apply
      <4>2. boot' = Run(kept, boot)
        BY <2>5 DEF Apply
      <4> HIDE DEF kept
      <4> QED
        BY <3>4, <3>6, <4>1, <4>2, RunSettles
    <3>7. Persistent(followed', boot')
      BY <3>6 DEF Persistent
    <3> QED
      BY <2>5, <3>1, <3>5, <3>7 DEF TInv, Apply, vars
  <2>6. CASE Reboot
    <3>1. DInv'
      BY <2>6 DEF TInv, DInv, Reboot, vars
    <3>2. Made(recs')
      BY <2>6 DEF TInv, Made, Reboot, Report
    <3> QED
      BY <2>6, <3>1, <3>2 DEF TInv, Reboot, vars
  <2>7. CASE UNCHANGED tuningVars
    <3>1. DInv'
      BY <2>7 DEF TInv, DInv, tuningVars, vars
    <3> QED
      BY <2>7, <3>1 DEF TInv, tuningVars, vars
  <2> QED
    BY <2>1, <2>2, <2>3, <2>4, <2>5, <2>6, <2>7 DEF TuningNext
<1> QED
  BY <1>1, <1>2, PTL DEF TuningSpec

\* Run in the order of priority, no command of a list takes back what an
\* earlier one has set.
THEOREM LaterKeeps == TuningSpec => []LaterKeepsEarlier
<1>1. TInv => LaterKeepsEarlier
  <2> SUFFICES ASSUME TInv, NEW r \in recs, NEW q \in recs, r.rank < q.rank,
                      NEW s \in DOMAIN r.sets \cap DOMAIN q.sets
               PROVE  r.sets[s] <= q.sets[s]
    BY DEF LaterKeepsEarlier
  <2>0. PICK rd, cn : \E st \in [Settings -> Nat] : recs = GenerateRecommendations(rd, st, cn)
    BY DEF TInv, Made
  <2>1. PICK st \in [Settings -> Nat] : recs = GenerateRecommendations(rd, st, cn)
    BY <2>0
  <2>2. ListOf(recs, st)
    BY <2>1, MadeList
  <2>3. /\ r.rank \in 1 .. 35 /\ SetTo(s, r.rank, r.sets[s], st)
        /\ q.rank \in 1 .. 35 /\ SetTo(s, q.rank, q.sets[s], st)
    BY <2>2 DEF ListOf, Fits
  <2> QED
    BY <2>3, LaterIsNoLess
<1> QED
  BY <1>1, TuningInvariant, PTL

\* An up-to-date list leaves no optimization to propose: what it sets is beyond
\* the bound that is tested, and no later command brings a value back below it.
THEOREM ListsSettle == TuningSpec => AdviceSettles
<1>1. TInv /\ Apply /\ UpToDate => Ids("optimization")' = {}
  <2> SUFFICES ASSUME TInv, Apply, UpToDate, NEW q \in Pending', q.type = "optimization"
               PROVE  FALSE
    BY DEF Ids
  <2> DEFINE k == Knob(q.id)
  <2>1. recs = GenerateRecommendations(reading, setting, counted) /\ setting \in [Settings -> Nat]
    BY DEF UpToDate, Pending, TInv
  <2>2. q \in AllRecs(reading', setting', counted') /\ q.when
    BY DEF Pending, GenerateRecommendations
  <2>3. q.id \in Optimizations /\ Due(q.id, setting'[k])
    <3>1. Proper(q, setting')
      BY <2>2, OptimizationsProper
    <3> QED
      BY <2>2, <3>1 DEF Proper
  <2>4. ListOf(recs, setting)
    BY <2>1, MadeList
  <2>5. setting' = Run(recs, setting)
    BY DEF Apply
  <2>6. CASE ~Due(q.id, setting[k])
    BY <2>1, <2>3, <2>4, <2>5, <2>6, RunSettles
  <2>7. CASE Due(q.id, setting[k])
    <3>1. PICK r \in AllRecs(reading, setting, counted) : r.id = q.id /\ r.type = "optimization"
      BY <2>3, OptimizationThere
    <3>2. Proper(r, setting)
      BY OptimizationsProper
    <3>3. r.when
      BY <2>7, <3>1, <3>2 DEF Proper
    <3>4. r \in recs
      BY <2>1, <3>1, <3>3 DEF GenerateRecommendations
    <3> QED
      BY <2>1, <2>3, <2>4, <2>5, <3>1, <3>2, <3>4, RunSettles
  <2> QED
    BY <2>6, <2>7
<1> QED
  BY <1>1, TuningInvariant, PTL DEF AdviceSettles

\* A followed optimization does not come back with a reboot.
THEOREM FollowedStaysDone == TuningSpec => OptimizationsPersist
<1>1. TInv /\ [TuningNext]_tuningVars => ~ComesBack("optimization")
  <2> SUFFICES ASSUME TInv, Reboot, NEW q \in Pending', q.type = "optimization", q.id \in followed
               PROVE  FALSE
    BY DEF ComesBack, Ids
  <2>1. q \in AllRecs(reading', setting', counted') /\ q.when
    BY DEF Pending, GenerateRecommendations
  <2>2. Proper(q, setting')
    BY <2>1, OptimizationsProper
  <2>3. q.id \in Optimizations /\ Due(q.id, boot[Knob(q.id)])
    BY <2>1, <2>2 DEF Proper, Reboot
  <2> QED
    BY <2>3 DEF TInv, Persistent
<1> QED
  BY <1>1, TuningInvariant, PTL DEF OptimizationsPersist, TuningSpec

\* No value that is raised after a test is ever lowered by an up-to-date list.
THEOREM TestedNeverLowered == TuningSpec => GuardedNeverLowered
<1>1. TInv /\ Apply /\ UpToDate => \A s \in Guarded : setting[s] <= setting'[s]
  <2> SUFFICES ASSUME TInv, Apply, UpToDate, NEW s \in Guarded
               PROVE  setting[s] <= setting'[s]
    OBVIOUS
  <2>1. recs = GenerateRecommendations(reading, setting, counted) /\ setting \in [Settings -> Nat]
    BY DEF UpToDate, Pending, TInv
  <2>2. ListOf(recs, setting)
    BY <2>1, MadeList
  <2>3. s \in Settings /\ setting' = Run(recs, setting)
    BY DEF Apply, Guarded, Settings
  <2>4. CASE Run(recs, setting)[s] = setting[s]
    <3>1. setting[s] \in Nat
      BY <2>1, <2>3
    <3> QED
      BY <2>3, <2>4, <3>1
  <2>5. ASSUME NEW r \in recs, s \in DOMAIN r.sets, Run(recs, setting)[s] = r.sets[s]
        PROVE  setting[s] <= setting'[s]
    <3>1. r \in AllRecs(reading, setting, counted) /\ r.when
      BY <2>1, <2>5 DEF GenerateRecommendations
    <3>2. Tested(r.rank, setting)
      BY <2>1, <3>1, RecsTested
    <3>3. SetTo(s, r.rank, r.sets[s], setting)
      BY <2>2, <2>5 DEF ListOf, Fits
    <3> QED
      BY <2>1, <2>3, <2>5, <3>2, <3>3, TestedRaises
  <2> QED
    BY <2>2, <2>3, <2>4, <2>5, RunSets
<1> QED
  BY <1>1, TuningInvariant, PTL DEF GuardedNeverLowered, Guarded

-----------------------------------------------------------------------------
(* Critical anomalies.                                                     *)

\* The metric of a critical anomaly has reached the threshold of its rule.
LEMMA CriticalValue ==
    ASSUME NEW rd, NEW q \in defaultThresholds, q.metric \notin Special,
           q.metric \in DetectAnomalies(rd, Sources)["critical"]
    PROVE  rd[q.metric] >= q.critical
<1>1. PICK r \in defaultThresholds :
         Severity(r, rd, Sources) = "critical" /\ q.metric = r.metric
  BY AnomalyIsRule
<1>2. r = q
  BY <1>1, RulesDistinct DEF Distinct
<1>3. q.source \in Sources
  BY DEF Sources
<1>4. Evaluator(q, rd, Sources) = {rd[q.metric]}
  BY <1>3, PlainEvaluator
<1>5. \E v \in Evaluator(q, rd, Sources) : v >= q.critical
  BY <1>1, <1>2 DEF Severity
<1> QED
  BY <1>4, <1>5

\* The rule for each metric that CriticalHasFix names.
LEMMA CriticalFrom ==
    ASSUME NEW rd
    PROVE  LET C == DetectAnomalies(rd, Sources)["critical"]
           IN  /\ "load_average" \in C => rd["load_average"] >= 40
               /\ "direct_reclaim_rate" \in C => rd["direct_reclaim_rate"] >= 10000
               /\ "compaction_stall_rate" \in C => rd["compaction_stall_rate"] >= 1000
               /\ "numa_miss_ratio" \in C => rd["numa_miss_ratio"] >= 200
               /\ "tcp_retransmits" \in C => rd["tcp_retransmits"] >= 500
               /\ "conntrack_usage_pct" \in C => rd["conntrack_usage_pct"] >= 900
               /\ "listen_overflows" \in C => rd["listen_overflows"] >= 1000
               /\ "tcp_zero_window_drop" \in C => rd["tcp_zero_window_drop"] >= 500
               /\ "listen_queue_saturation" \in C => rd["listen_queue_saturation"] >= 900
<1>1. "load_average" \in DetectAnomalies(rd, Sources)["critical"] => rd["load_average"] >= 40
  <2> DEFINE q == Rule("load_average", "cpu", 20, 40)
  <2>1. q \in defaultThresholds
    BY DEF defaultThresholds, CPURules
  <2>2. q.metric = "load_average" /\ q.critical = 40
    BY DEF Rule
  <2> HIDE DEF q
  <2>3. q.metric \notin Special
    BY <2>2 DEF Special
  <2> QED
    BY <2>1, <2>2, <2>3, CriticalValue
<1>2. "direct_reclaim_rate" \in DetectAnomalies(rd, Sources)["critical"] => rd["direct_reclaim_rate"] >= 10000
  <2> DEFINE q == Rule("direct_reclaim_rate", "memory", 100, 10000)
  <2>1. q \in defaultThresholds
    BY DEF defaultThresholds, MemoryRules
  <2>2. q.metric = "direct_reclaim_rate" /\ q.critical = 10000
    BY DEF Rule
  <2> HIDE DEF q
  <2>3. q.metric \notin Special
    BY <2>2 DEF Special
  <2>4. q.metric \in DetectAnomalies(rd, Sources)["critical"] => rd[q.metric] >= q.critical
    BY <2>1, <2>3, CriticalValue
  <2> QED
    BY <2>2, <2>4
<1>3. "compaction_stall_rate" \in DetectAnomalies(rd, Sources)["critical"] => rd["compaction_stall_rate"] >= 1000
  <2> DEFINE q == Rule("compaction_stall_rate", "memory", 10, 1000)
  <2>1. q \in defaultThresholds
    BY DEF defaultThresholds, MemoryRules
  <2>2. q.metric = "compaction_stall_rate" /\ q.critical = 1000
    BY DEF Rule
  <2> HIDE DEF q
  <2>3. q.metric \notin Special
    BY <2>2 DEF Special
  <2> QED
    BY <2>1, <2>2, <2>3, CriticalValue
<1>4. "numa_miss_ratio" \in DetectAnomalies(rd, Sources)["critical"] => rd["numa_miss_ratio"] >= 200
  <2> DEFINE q == Rule("numa_miss_ratio", "memory", 50, 200)
  <2>1. q \in defaultThresholds
    BY DEF defaultThresholds, MemoryRules
  <2>2. q.metric = "numa_miss_ratio" /\ q.critical = 200
    BY DEF Rule
  <2> HIDE DEF q
  <2>3. q.metric \notin Special
    BY <2>2 DEF Special
  <2> QED
    BY <2>1, <2>2, <2>3, CriticalValue
<1>5. "tcp_retransmits" \in DetectAnomalies(rd, Sources)["critical"] => rd["tcp_retransmits"] >= 500
  <2> DEFINE q == Rule("tcp_retransmits", "network", 100, 500)
  <2>1. q \in defaultThresholds
    BY DEF defaultThresholds, DeviceRules
  <2>2. q.metric = "tcp_retransmits" /\ q.critical = 500
    BY DEF Rule
  <2> HIDE DEF q
  <2>3. q.metric \notin Special
    BY <2>2 DEF Special
  <2> QED
    BY <2>1, <2>2, <2>3, CriticalValue
<1>6. "conntrack_usage_pct" \in DetectAnomalies(rd, Sources)["critical"] => rd["conntrack_usage_pct"] >= 900
  <2> DEFINE q == Rule("conntrack_usage_pct", "network", 700, 900)
  <2>1. q \in defaultThresholds
    BY DEF defaultThresholds, InterfaceRules
  <2>2. q.metric = "conntrack_usage_pct" /\ q.critical = 900
    BY DEF Rule
  <2> HIDE DEF q
  <2>3. q.metric \notin Special
    BY <2>2 DEF Special
  <2> QED
    BY <2>1, <2>2, <2>3, CriticalValue
<1>7. "listen_overflows" \in DetectAnomalies(rd, Sources)["critical"] => rd["listen_overflows"] >= 1000
  <2> DEFINE q == Rule("listen_overflows", "network", 10, 1000)
  <2>1. q \in defaultThresholds
    BY DEF defaultThresholds, InterfaceRules
  <2>2. q.metric = "listen_overflows" /\ q.critical = 1000
    BY DEF Rule
  <2> HIDE DEF q
  <2>3. q.metric \notin Special
    BY <2>2 DEF Special
  <2> QED
    BY <2>1, <2>2, <2>3, CriticalValue
<1>8. "tcp_zero_window_drop" \in DetectAnomalies(rd, Sources)["critical"] => rd["tcp_zero_window_drop"] >= 500
  <2> DEFINE q == Rule("tcp_zero_window_drop", "network", 10, 500)
  <2>1. q \in defaultThresholds
    BY DEF defaultThresholds, SocketRules
  <2>2. q.metric = "tcp_zero_window_drop" /\ q.critical = 500
    BY DEF Rule
  <2> HIDE DEF q
  <2>3. q.metric \notin Special
    BY <2>2 DEF Special
  <2> QED
    BY <2>1, <2>2, <2>3, CriticalValue
<1>9. "listen_queue_saturation" \in DetectAnomalies(rd, Sources)["critical"] => rd["listen_queue_saturation"] >= 900
  <2> DEFINE q == Rule("listen_queue_saturation", "network", 700, 900)
  <2>1. q \in defaultThresholds
    BY DEF defaultThresholds, SocketRules
  <2>2. q.metric = "listen_queue_saturation" /\ q.critical = 900
    BY DEF Rule
  <2> HIDE DEF q
  <2>3. q.metric \notin Special
    BY <2>2 DEF Special
  <2> QED
    BY <2>1, <2>2, <2>3, CriticalValue
<1> QED
  BY <1>1, <1>2, <1>3, <1>4, <1>5, <1>6, <1>7, <1>8, <1>9

\* Each of them has a recommendation that is made by then.
LEMMA FixThere ==
    ASSUME NEW rd, NEW st, NEW cn
    PROVE  LET ids == {r.id : r \in GenerateRecommendations(rd, st, cn)}
           IN  /\ rd["load_average"] \in Nat /\ rd["load_average"] >= 40 => "cpu_saturation" \in ids
               /\ rd["direct_reclaim_rate"] \in Nat /\ rd["direct_reclaim_rate"] >= 10000 => "direct_reclaim" \in ids
               /\ rd["compaction_stall_rate"] \in Nat /\ rd["compaction_stall_rate"] >= 1000 => "compaction" \in ids
               /\ rd["numa_miss_ratio"] \in Nat /\ rd["numa_miss_ratio"] >= 200 => "numa" \in ids
               /\ rd["tcp_retransmits"] \in Nat /\ rd["tcp_retransmits"] >= 500 => "retransmits" \in ids
               /\ rd["conntrack_usage_pct"] \in Nat /\ rd["conntrack_usage_pct"] >= 900 => "conntrack" \in ids
               /\ "ListenOverflows" \in cn => "listen_overflows" \in ids
               /\ rd["tcp_zero_window_drop"] \in Nat /\ rd["tcp_zero_window_drop"] >= 500 => "zero_window" \in ids
               /\ rd["listen_queue_saturation"] \in Nat /\ rd["listen_queue_saturation"] >= 900 => "accept_queue" \in ids
<1>1. rd["load_average"] \in Nat /\ rd["load_average"] >= 40 => "cpu_saturation" \in {r.id : r \in GenerateRecommendations(rd, st, cn)}
  <2> DEFINE when == rd["load_average"] > 20
             w == Rec(1, "cpu_saturation", "fix", when, Nothing, FALSE)
  <2>1. w \in AllRecs(rd, st, cn)
    BY DEF AllRecs, CPURecs
  <2>2. rd["load_average"] \in Nat /\ rd["load_average"] >= 40 => when
    OBVIOUS
  <2> HIDE DEF when
  <2>3. w.id = "cpu_saturation" /\ w.when = when
    BY DEF Rec
  <2> HIDE DEF w
  <2> QED
    BY <2>1, <2>2, <2>3 DEF GenerateRecommendations
<1>2. rd["direct_reclaim_rate"] \in Nat /\ rd["direct_reclaim_rate"] >= 10000 => "direct_reclaim" \in {r.id : r \in GenerateRecommendations(rd, st, cn)}
  <2> DEFINE when == rd["direct_reclaim_rate"] > 0
             w == Rec(6, "direct_reclaim", "fix", when, [watermark_scale_factor |-> 200, min_free_kbytes |-> 131072], TRUE)
  <2>1. w \in AllRecs(rd, st, cn)
    BY DEF AllRecs, MemoryRecs
  <2>2. rd["direct_reclaim_rate"] \in Nat /\ rd["direct_reclaim_rate"] >= 10000 => when
    OBVIOUS
  <2> HIDE DEF when
  <2>3. w.id = "direct_reclaim" /\ w.when = when
    BY DEF Rec
  <2> HIDE DEF w
  <2> QED
    BY <2>1, <2>2, <2>3 DEF GenerateRecommendations
<1>3. rd["compaction_stall_rate"] \in Nat /\ rd["compaction_stall_rate"] >= 1000 => "compaction" \in {r.id : r \in GenerateRecommendations(rd, st, cn)}
  <2> DEFINE when == rd["compaction_stall_rate"] > 10
             w == Rec(9, "compaction", "fix", when, [extfrag_threshold |-> 500], FALSE)
  <2>1. w \in AllRecs(rd, st, cn)
    BY DEF AllRecs, MemoryRecs
  <2>2. rd["compaction_stall_rate"] \in Nat /\ rd["compaction_stall_rate"] >= 1000 => when
    OBVIOUS
  <2> HIDE DEF when
  <2>3. w.id = "compaction" /\ w.when = when
    BY DEF Rec
  <2> HIDE DEF w
  <2> QED
    BY <2>1, <2>2, <2>3 DEF GenerateRecommendations
<1>4. rd["numa_miss_ratio"] \in Nat /\ rd["numa_miss_ratio"] >= 200 => "numa" \in {r.id : r \in GenerateRecommendations(rd, st, cn)}
  <2> DEFINE when == rd["numa_miss_ratio"] > 50
             w == Rec(8, "numa", "fix", when, [numa_balancing |-> 1], TRUE)
  <2>1. w \in AllRecs(rd, st, cn)
    BY DEF AllRecs, MemoryRecs
  <2>2. rd["numa_miss_ratio"] \in Nat /\ rd["numa_miss_ratio"] >= 200 => when
    OBVIOUS
  <2> HIDE DEF when
  <2>3. w.id = "numa" /\ w.when = when
    BY DEF Rec
  <2> HIDE DEF w
  <2> QED
    BY <2>1, <2>2, <2>3 DEF GenerateRecommendations
<1>5. rd["tcp_retransmits"] \in Nat /\ rd["tcp_retransmits"] >= 500 => "retransmits" \in {r.id : r \in GenerateRecommendations(rd, st, cn)}
  <2> DEFINE when == rd["tcp_retransmits"] > 10
             w == Rec(11, "retransmits", "fix", when, Nothing, FALSE)
  <2>1. w \in AllRecs(rd, st, cn)
    BY DEF AllRecs, TCPRecs
  <2>2. rd["tcp_retransmits"] \in Nat /\ rd["tcp_retransmits"] >= 500 => when
    OBVIOUS
  <2> HIDE DEF when
  <2>3. w.id = "retransmits" /\ w.when = when
    BY DEF Rec
  <2> HIDE DEF w
  <2> QED
    BY <2>1, <2>2, <2>3 DEF GenerateRecommendations
<1>6. rd["conntrack_usage_pct"] \in Nat /\ rd["conntrack_usage_pct"] >= 900 => "conntrack" \in {r.id : r \in GenerateRecommendations(rd, st, cn)}
  <2> DEFINE when == rd["conntrack_usage_pct"] > 700
             w == Rec(17, "conntrack", "fix", when, [conntrack_max |-> 2 * st["conntrack_max"]], TRUE)
  <2>1. w \in AllRecs(rd, st, cn)
    BY DEF AllRecs, TableRecs
  <2>2. rd["conntrack_usage_pct"] \in Nat /\ rd["conntrack_usage_pct"] >= 900 => when
    OBVIOUS
  <2> HIDE DEF when
  <2>3. w.id = "conntrack" /\ w.when = when
    BY DEF Rec
  <2> HIDE DEF w
  <2> QED
    BY <2>1, <2>2, <2>3 DEF GenerateRecommendations
<1>7. "ListenOverflows" \in cn => "listen_overflows" \in {r.id : r \in GenerateRecommendations(rd, st, cn)}
  <2> DEFINE when == "ListenOverflows" \in cn
             w == Rec(19, "listen_overflows", "fix", when, [somaxconn |-> 65535], TRUE)
  <2>1. w \in AllRecs(rd, st, cn)
    BY DEF AllRecs, TableRecs
  <2>2. "ListenOverflows" \in cn => when
    OBVIOUS
  <2> HIDE DEF when
  <2>3. w.id = "listen_overflows" /\ w.when = when
    BY DEF Rec
  <2> HIDE DEF w
  <2> QED
    BY <2>1, <2>2, <2>3 DEF GenerateRecommendations
<1>8. rd["tcp_zero_window_drop"] \in Nat /\ rd["tcp_zero_window_drop"] >= 500 => "zero_window" \in {r.id : r \in GenerateRecommendations(rd, st, cn)}
  <2> DEFINE when == rd["tcp_zero_window_drop"] > 0
             w == Rec(29, "zero_window", "fix", when, [tcp_rmem_kb |-> 16384], TRUE)
  <2>1. w \in AllRecs(rd, st, cn)
    BY DEF AllRecs, SocketRecs
  <2>2. rd["tcp_zero_window_drop"] \in Nat /\ rd["tcp_zero_window_drop"] >= 500 => when
    OBVIOUS
  <2> HIDE DEF when
  <2>3. w.id = "zero_window" /\ w.when = when
    BY DEF Rec
  <2> HIDE DEF w
  <2> QED
    BY <2>1, <2>2, <2>3 DEF GenerateRecommendations
<1>9. rd["listen_queue_saturation"] \in Nat /\ rd["listen_queue_saturation"] >= 900 => "accept_queue" \in {r.id : r \in GenerateRecommendations(rd, st, cn)}
  <2> DEFINE when == rd["listen_queue_saturation"] >= 700
             w == Rec(28, "accept_queue", "fix", when, [somaxconn |-> Max({2 * Min({AppBacklog, st["somaxconn"]}), 65535})], FALSE)
  <2>1. w \in AllRecs(rd, st, cn)
    BY DEF AllRecs, SocketRecs
  <2>2. rd["listen_queue_saturation"] \in Nat /\ rd["listen_queue_saturation"] >= 900 => when
    OBVIOUS
  <2> HIDE DEF when
  <2>3. w.id = "accept_queue" /\ w.when = when
    BY DEF Rec
  <2> HIDE DEF w
  <2> QED
    BY <2>1, <2>2, <2>3 DEF GenerateRecommendations
<1> QED
  BY <1>1, <1>2, <1>3, <1>4, <1>5, <1>6, <1>7, <1>8, <1>9

\* A critical anomaly with a recommendation is reported together with it, for
\* any readings and settings: the thresholds of the two files fit.
THEOREM CriticalsHaveFix == TuningSpec => []CriticalHasFix
<1>1. TInv => CriticalHasFix
  <2> DEFINE C == summary.anomalies["critical"]
             ids == {r.id : r \in recs}
  <2> SUFFICES ASSUME TInv, UpToDate
               PROVE  /\ "load_average" \in C => "cpu_saturation" \in ids
                      /\ "direct_reclaim_rate" \in C => "direct_reclaim" \in ids
                      /\ "compaction_stall_rate" \in C => "compaction" \in ids
                      /\ "numa_miss_ratio" \in C => "numa" \in ids
                      /\ "tcp_retransmits" \in C => "retransmits" \in ids
                      /\ "conntrack_usage_pct" \in C => "conntrack" \in ids
                      /\ "listen_overflows" \in C => "listen_overflows" \in ids
                      /\ "tcp_zero_window_drop" \in C => "zero_window" \in ids
                      /\ "listen_queue_saturation" \in C => "accept_queue" \in ids
    BY DEF CriticalHasFix
  <2>1. C = DetectAnomalies(reading, Sources)["critical"]
    BY DEF TInv, DInv, Summary
  <2>2. ids = {r.id : r \in GenerateRecommendations(reading, setting, counted)}
    BY DEF UpToDate, Pending
  <2>3. \A m \in {"load_average", "direct_reclaim_rate", "compaction_stall_rate", "numa_miss_ratio", "tcp_retransmits",
                 "conntrack_usage_pct", "listen_overflows", "tcp_zero_window_drop", "listen_queue_saturation"} : reading[m] \in Nat
    BY AdviceFields DEF TInv, DInv
  <2>4. "listen_overflows" \in C => "ListenOverflows" \in counted
    <3>1. "listen_overflows" \in C => reading["listen_overflows"] > 0
      BY <2>1, <2>3, CriticalFrom
    <3>2. reading["listen_overflows"] > 0 => "ListenOverflows" \in CountersOf(reading)
      BY DEF CountersOf, CountedBy
    <3> QED
      BY <3>1, <3>2 DEF TInv
  <2> HIDE DEF C, ids
  <2> QED
    BY <2>1, <2>2, <2>3, <2>4, CriticalFrom, FixThere
<1> QED
  BY <1>1, TuningInvariant, PTL

=============================================================================
