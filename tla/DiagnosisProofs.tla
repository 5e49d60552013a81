--------------------------- MODULE DiagnosisProofs ---------------------------
(***************************************************************************)
(* Theorems about module Diagnosis, for any readings, any set of levels    *)
(* and any starting hosts.                                                 *)
(***************************************************************************)
EXTENDS Comparison, FiniteSetTheorems, TLAPS

\* What is true of the host and its report at every diagnosis: the report was
\* computed from the readings and sources of that moment.
DInv ==
    /\ reading \in [Fields -> Nat]
    /\ known \subseteq Sources
    /\ summary = Summary(reading, known)

-----------------------------------------------------------------------------
(* Arithmetic.                                                             *)

\* Division rounds down, so a quotient is the largest factor that fits.
LEMMA DivFits ==
    ASSUME NEW a \in Nat, NEW d \in Nat, d > 0
    PROVE  /\ a \div d \in Nat
           /\ d * (a \div d) <= a
           /\ a < d * ((a \div d) + 1)
  OBVIOUS

\* A larger dividend and a smaller divisor give no smaller quotient.
LEMMA DivMonotone ==
    ASSUME NEW a \in Nat, NEW b \in Nat, NEW c \in Nat, NEW d \in Nat,
           a <= b, d <= c, d > 0
    PROVE  a \div c <= b \div d
<1> DEFINE q == a \div c
           p == b \div d
<1>1. q \in Nat /\ c * q <= a
  BY DivFits
<1>2. p \in Nat /\ b < d * (p + 1)
  BY DivFits
<1> HIDE DEF q, p
<1>3. d * q <= c * q
  BY <1>1
<1>4. d * q < d * (p + 1)
  BY <1>1, <1>2, <1>3
<1>5. q < p + 1
  BY <1>4, <1>1, <1>2
<1> QED
  BY <1>1, <1>2, <1>5 DEF q, p

-----------------------------------------------------------------------------
(* The threshold table and the fields.                                     *)

\* Every rule has numbers for its thresholds.
LEMMA RulesTyped ==
    \A r \in defaultThresholds : r.warning \in Nat /\ r.critical \in Nat
<1>1. \A r \in CPURules \cup MemoryRules \cup DeviceRules :
         r.warning \in Nat /\ r.critical \in Nat
  BY DEF CPURules, MemoryRules, DeviceRules, Rule
<1>2. \A r \in HistogramRules \cup PressureRules \cup InterfaceRules :
         r.warning \in Nat /\ r.critical \in Nat
  BY DEF HistogramRules, PressureRules, InterfaceRules, Rule
<1>3. \A r \in KernelRules \cup SocketRules :
         r.warning \in Nat /\ r.critical \in Nat
  BY DEF KernelRules, SocketRules, Rule
<1> QED
  BY <1>1, <1>2, <1>3 DEF defaultThresholds

\* A rule that is not composite reads the field of its name.
LEMMA DirectField ==
    \A r \in defaultThresholds : r.metric \notin Composite => r.metric \in Fields
  BY DEF Fields

\* The fields of the composite rules.
LEMMA OtherFields ==
    {"io_time", "errors_eth0", "errors_eth1", "irq_max", "irq_min",
     "p99_ssd", "p99_hdd", "p99_other"} \subseteq Fields
  BY DEF Fields

\* The least busy CPU is a field of its own, not the metric of a rule.
LEMMA IrqMinIsNoMetric == \A r \in defaultThresholds : r.metric # "irq_min"
<1>1. \A r \in CPURules \cup MemoryRules \cup DeviceRules : r.metric # "irq_min"
  BY DEF CPURules, MemoryRules, DeviceRules, Rule
<1>2. \A r \in HistogramRules \cup PressureRules \cup InterfaceRules : r.metric # "irq_min"
  BY DEF HistogramRules, PressureRules, InterfaceRules, Rule
<1>3. \A r \in KernelRules \cup SocketRules : r.metric # "irq_min"
  BY DEF KernelRules, SocketRules, Rule
<1> QED
  BY <1>1, <1>2, <1>3 DEF defaultThresholds

-----------------------------------------------------------------------------
(* Evaluators.  a is a host, b the same host with some readings worse.     *)

WorseHost(a, b) == \A f \in Fields : Worse(f, a[f], b[f])

\* The interrupt ratio does not fall.
LEMMA IRQRises ==
    ASSUME NEW a \in [Fields -> Nat], NEW b \in [Fields -> Nat], WorseHost(a, b),
           NEW v \in IRQSamples(a)
    PROVE  v \in Int /\ \E w \in IRQSamples(b) : w \in Int /\ v <= w
<1> DEFINE am == 10 * a["irq_max"]
           an == a["irq_min"]
           bm == 10 * b["irq_max"]
           bn == b["irq_min"]
<1>1. am \in Nat /\ an \in Nat /\ bm \in Nat /\ bn \in Nat /\ am <= bm /\ bn <= an
  BY OtherFields DEF WorseHost, Worse
<1>2. v = IF an > 0 THEN am \div an ELSE am
  BY DEF IRQSamples
<1>3. IRQSamples(b) = {IF bn > 0 THEN bm \div bn ELSE bm}
  <2>1. a["irq_max"] \in Nat /\ b["irq_max"] \in Nat /\ a["irq_max"] <= b["irq_max"]
    BY OtherFields DEF WorseHost, Worse
  <2>2. ~(a["irq_max"] < 100)
    BY DEF IRQSamples
  <2>3. ~(b["irq_max"] < 100)
    BY <2>1, <2>2
  <2> QED
    BY <2>3 DEF IRQSamples
<1> HIDE DEF am, an, bm, bn
<1>4. CASE bn > 0
  <2>1. an > 0
    BY <1>1, <1>4
  <2>2. am \div an <= bm \div bn
    BY <1>1, <1>4, DivMonotone
  <2>3. am \div an \in Int /\ bm \div bn \in Int
    BY <1>1, <1>4, <2>1, DivFits
  <2> QED
    BY <1>2, <1>3, <1>4, <2>1, <2>2, <2>3
<1>5. CASE ~(bn > 0) /\ an > 0
  <2>1. am \div an <= am \div 1
    BY <1>1, <1>5, DivMonotone
  <2>2. am \div an \in Int
    BY <1>1, <1>5, DivFits
  <2>3. am \div 1 = am
    BY <1>1
  <2> QED
    BY <1>1, <1>2, <1>3, <1>5, <2>1, <2>2, <2>3
<1>6. CASE ~(bn > 0) /\ ~(an > 0)
  BY <1>1, <1>2, <1>3, <1>6
<1> QED
  BY <1>4, <1>5, <1>6

\* The disks whose latency the biolatency rule of a kind looks at.
DisksOf(rotational, kn) ==
    {f \in {"p99_ssd", "p99_hdd", "p99_other"} :
        ~ /\ "disk" \in kn
          /\ \/ f = "p99_ssd" /\ rotational
             \/ f = "p99_hdd" /\ ~rotational}

\* The samples of the biolatency rules, without the detour through microseconds.
LEMMA BiolatencySamples ==
    ASSUME NEW rd \in [Fields -> Nat], NEW kn, NEW rotational \in BOOLEAN
    PROVE  P99Samples("biolatency", rotational, rd, kn) = {rd[f] : f \in DisksOf(rotational, kn)}
<1> DEFINE h1 == [device |-> "ssd",   unit |-> "us", p99 |-> 1000 * rd["p99_ssd"]]
           h2 == [device |-> "hdd",   unit |-> "us", p99 |-> 1000 * rd["p99_hdd"]]
           h3 == [device |-> "other", unit |-> "us", p99 |-> 1000 * rd["p99_other"]]
           p(h) == IF h.unit = "us" THEN h.p99 \div 1000 ELSE h.p99
           wrong(h) == /\ "biolatency" = "biolatency"
                       /\ "disk" \in kn
                       /\ \/ h.device = "ssd" /\ rotational
                          \/ h.device = "hdd" /\ ~rotational
<1>1. Histograms("biolatency", rd) = {h1, h2, h3}
  BY DEF Histograms
<1>2. \A v : v \in P99Samples("biolatency", rotational, rd, kn) <=>
                \E h \in {h1, h2, h3} : ~wrong(h) /\ v = p(h)
  <2> DEFINE H == Histograms("biolatency", rd)
  <2>1. P99Samples("biolatency", rotational, rd, kn) = {p(h) : h \in {g \in H : ~wrong(g)}}
    BY Zenon DEF P99Samples
  <2>2. H = {h1, h2, h3}
    BY <1>1
  <2> HIDE DEF H, p, wrong, h1, h2, h3
  <2>3. \A v : v \in {p(h) : h \in {g \in H : ~wrong(g)}} <=>
                 \E h \in H : ~wrong(h) /\ v = p(h)
    BY Zenon
  <2> QED
    BY <2>1, <2>2, <2>3, Zenon
<1>3. rd["p99_ssd"] \in Nat /\ rd["p99_hdd"] \in Nat /\ rd["p99_other"] \in Nat
  BY OtherFields
<1>4. p(h1) = rd["p99_ssd"] /\ p(h2) = rd["p99_hdd"] /\ p(h3) = rd["p99_other"]
  BY <1>3
<1>5. /\ wrong(h1) <=> "disk" \in kn /\ rotational
      /\ wrong(h2) <=> "disk" \in kn /\ ~rotational
      /\ ~wrong(h3)
  OBVIOUS
<1> HIDE DEF p, wrong, h1, h2, h3
<1>6. \A v : v \in P99Samples("biolatency", rotational, rd, kn) <=>
                \/ v = rd["p99_ssd"] /\ ~("disk" \in kn /\ rotational)
                \/ v = rd["p99_hdd"] /\ ~("disk" \in kn /\ ~rotational)
                \/ v = rd["p99_other"]
  BY <1>2, <1>4, <1>5, Zenon
<1>7. \A v : v \in {rd[f] : f \in DisksOf(rotational, kn)} <=>
                \/ v = rd["p99_ssd"] /\ ~("disk" \in kn /\ rotational)
                \/ v = rd["p99_hdd"] /\ ~("disk" \in kn /\ ~rotational)
                \/ v = rd["p99_other"]
  BY DEF DisksOf
<1> QED
  BY <1>6, <1>7

\* No latency a histogram shows falls.
LEMMA P99Rises ==
    ASSUME NEW a \in [Fields -> Nat], NEW b \in [Fields -> Nat], WorseHost(a, b),
           NEW kn, NEW rotational \in BOOLEAN,
           NEW v \in P99Samples("biolatency", rotational, a, kn)
    PROVE  v \in Int /\ \E w \in P99Samples("biolatency", rotational, b, kn) :
                            w \in Int /\ v <= w
<1>1. \A f \in {"p99_ssd", "p99_hdd", "p99_other"} :
         a[f] \in Nat /\ b[f] \in Nat /\ a[f] <= b[f]
  BY OtherFields DEF WorseHost, Worse
<1>2. PICK f \in DisksOf(rotational, kn) : v = a[f]
  BY BiolatencySamples
<1>3. b[f] \in P99Samples("biolatency", rotational, b, kn)
  BY BiolatencySamples
<1>4. f \in {"p99_ssd", "p99_hdd", "p99_other"}
  BY DEF DisksOf
<1> QED
  BY <1>1, <1>2, <1>3, <1>4

\* The one sample of the run queue rule: the millisecond reading, divided again.
RunQueueSample(rd) == rd["runqlat_p99"] \div 1000

\* The samples of the run queue rule.
LEMMA RunqlatSample ==
    ASSUME NEW rd \in [Fields -> Nat], NEW kn
    PROVE  P99Samples("runqlat", FALSE, rd, kn) = {RunQueueSample(rd)}
<1> DEFINE h0 == [device |-> "none", unit |-> "us", p99 |-> rd["runqlat_p99"]]
           p(h) == IF h.unit = "us" THEN h.p99 \div 1000 ELSE h.p99
           wrong(h) == /\ "runqlat" = "biolatency"
                       /\ "disk" \in kn
                       /\ \/ h.device = "ssd" /\ FALSE
                          \/ h.device = "hdd" /\ ~FALSE
<1>1. Histograms("runqlat", rd) = {h0}
  BY DEF Histograms
<1>2. P99Samples("runqlat", FALSE, rd, kn) = {p(h) : h \in {g \in {h0} : ~wrong(g)}}
  BY <1>1, Zenon DEF P99Samples
<1>3. p(h0) = RunQueueSample(rd)
  BY DEF RunQueueSample
<1>4. ~wrong(h0)
  OBVIOUS
<1> HIDE DEF p, wrong, h0
<1>5. \A v : v \in {p(h) : h \in {g \in {h0} : ~wrong(g)}} <=> v = p(h0)
  BY <1>4, Zenon
<1>6. {p(h) : h \in {g \in {h0} : ~wrong(g)}} = {p(h0)}
  BY <1>5, Zenon
<1>7. P99Samples("runqlat", FALSE, rd, kn) = {p(h0)}
  BY <1>2, <1>6
<1> QED
  BY <1>3, <1>7

\* The tools without histograms have no samples.
LEMMA NoSamples ==
    ASSUME NEW rd, NEW kn
    PROVE  /\ P99Samples("gethostlatency", FALSE, rd, kn) = {}
           /\ Histograms("cachestat", rd) = {}
<1>1. Histograms("gethostlatency", rd) = {} /\ Histograms("cachestat", rd) = {}
  BY DEF Histograms
<1> QED
  BY <1>1 DEF P99Samples

-----------------------------------------------------------------------------
(* Every evaluator is monotone, and so are severities and reports.         *)

\* The rules whose evaluator does more than read the field of the rule's name.
Special == {"disk_utilization", "network_errors_per_sec", "irq_imbalance",
            "udp_rcvbuf_errors", "container_memory_usage", "biolatency_p99_ssd",
            "biolatency_p99_hdd", "runqlat_p99", "dns_latency_p99", "cache_miss_ratio"}

\* What a plain evaluator returns.
LEMMA PlainEvaluator ==
    ASSUME NEW r \in defaultThresholds, NEW rd, NEW kn,
           r.source \in kn, r.metric \notin Special
    PROVE  Evaluator(r, rd, kn) = {rd[r.metric]} /\ r.metric \in Fields
<1>1. r.metric \in Fields
  BY DirectField DEF Special, Composite
<1>2. Evaluator(r, rd, kn) = {rd[r.metric]}
  BY DEF Evaluator, Special
<1> QED
  BY <1>1, <1>2

\* No evaluator sees less of a host that only got worse.
LEMMA SamplesRise ==
    ASSUME NEW a \in [Fields -> Nat], NEW b \in [Fields -> Nat], WorseHost(a, b),
           NEW r \in defaultThresholds, NEW kn,
           NEW v \in Evaluator(r, a, kn)
    PROVE  v \in Int /\ \E w \in Evaluator(r, b, kn) : w \in Int /\ v <= w
<1>0. r.source \in kn
  BY DEF Evaluator
<1>a. ASSUME NEW f \in Fields, f # "irq_min"
      PROVE  a[f] \in Nat /\ b[f] \in Nat /\ a[f] <= b[f]
  BY <1>a DEF WorseHost, Worse
<1>1. CASE r.metric \notin Special
  <2>1. /\ Evaluator(r, a, kn) = {a[r.metric]}
        /\ Evaluator(r, b, kn) = {b[r.metric]}
        /\ r.metric \in Fields
    BY <1>0, <1>1, PlainEvaluator
  <2>2. r.metric # "irq_min"
    BY IrqMinIsNoMetric
  <2> QED
    BY <1>a, <2>1, <2>2
<1>2. CASE r.metric = "disk_utilization"
  <2>1. /\ Evaluator(r, a, kn) = {computeDiskUtilization(a)}
        /\ Evaluator(r, b, kn) = {computeDiskUtilization(b)}
    BY <1>0, <1>2 DEF Evaluator
  <2>2. a["io_time"] \in Nat /\ b["io_time"] \in Nat /\ a["io_time"] <= b["io_time"]
    BY <1>a, OtherFields
  <2> QED
    BY <2>1, <2>2 DEF computeDiskUtilization
<1>3. CASE r.metric = "network_errors_per_sec"
  <2>1. /\ Evaluator(r, a, kn) = {a["errors_eth0"], a["errors_eth1"]}
        /\ Evaluator(r, b, kn) = {b["errors_eth0"], b["errors_eth1"]}
    BY <1>0, <1>3 DEF Evaluator
  <2>2. \A f \in {"errors_eth0", "errors_eth1"} :
           a[f] \in Nat /\ b[f] \in Nat /\ a[f] <= b[f]
    BY <1>a, OtherFields
  <2> QED
    BY <2>1, <2>2
<1>4. CASE r.metric = "irq_imbalance"
  <2>1. Evaluator(r, a, kn) = IRQSamples(a) /\ Evaluator(r, b, kn) = IRQSamples(b)
    BY <1>0, <1>4 DEF Evaluator
  <2> QED
    BY <2>1, IRQRises
<1>5. CASE r.metric = "udp_rcvbuf_errors"
  BY <1>0, <1>5 DEF Evaluator, RcvbufErrRate
<1>6. CASE r.metric = "container_memory_usage"
  <2>1. /\ Evaluator(r, a, kn) = ContainerMemory(a, kn)
        /\ Evaluator(r, b, kn) = ContainerMemory(b, kn)
    BY <1>0, <1>6 DEF Evaluator
  <2>2. "container_memory_usage" \in Fields
    BY <1>6, DirectField DEF Composite
  <2> QED
    BY <1>a, <2>1, <2>2 DEF ContainerMemory
<1>7. CASE r.metric = "biolatency_p99_ssd"
  <2>1. /\ Evaluator(r, a, kn) = P99Samples("biolatency", FALSE, a, kn)
        /\ Evaluator(r, b, kn) = P99Samples("biolatency", FALSE, b, kn)
    BY <1>0, <1>7 DEF Evaluator
  <2> QED
    BY <2>1, P99Rises
<1>8. CASE r.metric = "biolatency_p99_hdd"
  <2>1. /\ Evaluator(r, a, kn) = P99Samples("biolatency", TRUE, a, kn)
        /\ Evaluator(r, b, kn) = P99Samples("biolatency", TRUE, b, kn)
    BY <1>0, <1>8 DEF Evaluator
  <2> QED
    BY <2>1, P99Rises
<1>9. CASE r.metric = "runqlat_p99"
  <2>1. /\ Evaluator(r, a, kn) = P99Samples("runqlat", FALSE, a, kn)
        /\ Evaluator(r, b, kn) = P99Samples("runqlat", FALSE, b, kn)
    BY <1>0, <1>9 DEF Evaluator
  <2>2. /\ Evaluator(r, a, kn) = {RunQueueSample(a)}
        /\ Evaluator(r, b, kn) = {RunQueueSample(b)}
    BY <2>1, RunqlatSample, Zenon
  <2>3. "runqlat_p99" \in Fields
    BY <1>9, DirectField DEF Composite
  <2>4. /\ RunQueueSample(a) \in Int
        /\ RunQueueSample(b) \in Int
        /\ RunQueueSample(a) <= RunQueueSample(b)
    BY <1>a, <2>3 DEF RunQueueSample
  <2> QED
    BY <2>2, <2>4
<1>10. CASE r.metric \in {"dns_latency_p99", "cache_miss_ratio"}
  BY <1>0, <1>10, NoSamples DEF Evaluator
<1> QED
  BY <1>1, <1>2, <1>3, <1>4, <1>5, <1>6, <1>7, <1>8, <1>9, <1>10 DEF Special

\* No rule fires at a lower severity.
LEMMA SeverityRises ==
    ASSUME NEW a \in [Fields -> Nat], NEW b \in [Fields -> Nat], WorseHost(a, b),
           NEW r \in defaultThresholds, NEW kn
    PROVE  /\ Severity(r, a, kn) = "critical" => Severity(r, b, kn) = "critical"
           /\ Severity(r, a, kn) = "warning" => Severity(r, b, kn) \in {"warning", "critical"}
<1> DEFINE A == Evaluator(r, a, kn)
           B == Evaluator(r, b, kn)
<1>1. ASSUME NEW t \in Nat, \E v \in A : v >= t
      PROVE  \E w \in B : w >= t
  <2>1. PICK v \in A : v >= t
    BY <1>1
  <2>2. v \in Int
    BY SamplesRise
  <2>3. PICK w \in B : w \in Int /\ v <= w
    BY SamplesRise
  <2> QED
    BY <2>1, <2>2, <2>3
<1>2. r.warning \in Nat /\ r.critical \in Nat
  BY RulesTyped
<1>3. /\ (\E v \in A : v >= r.critical) => (\E w \in B : w >= r.critical)
      /\ (\E v \in A : v >= r.warning) => (\E w \in B : w >= r.warning)
  BY <1>1, <1>2
<1>4. /\ Severity(r, a, kn) = IF \E v \in A : v >= r.critical THEN "critical"
                              ELSE IF \E v \in A : v >= r.warning THEN "warning" ELSE "none"
      /\ Severity(r, b, kn) = IF \E v \in B : v >= r.critical THEN "critical"
                              ELSE IF \E v \in B : v >= r.warning THEN "warning" ELSE "none"
  BY DEF Severity
<1> HIDE DEF A, B
<1> QED
  BY <1>3, <1>4

\* No report loses an anomaly of a host that only got worse.
LEMMA AnomaliesRise ==
    ASSUME NEW a \in [Fields -> Nat], NEW b \in [Fields -> Nat], WorseHost(a, b), NEW kn
    PROVE  LET x == DetectAnomalies(a, kn)
               y == DetectAnomalies(b, kn)
           IN  /\ x["critical"] \subseteq y["critical"]
               /\ x["warning"] \subseteq y["warning"] \cup y["critical"]
<1>1. ASSUME NEW rd, NEW m, NEW s \in {"critical", "warning"}
      PROVE  m \in DetectAnomalies(rd, kn)[s] <=>
                \E r \in defaultThresholds : Severity(r, rd, kn) = s /\ m = r.metric
  BY DEF DetectAnomalies
<1> QED
  BY <1>1, SeverityRises

-----------------------------------------------------------------------------
(* The metrics of the table: a rule is known by its metric, and there are  *)
(* finitely many.                                                          *)

CPUNames == {"cpu_utilization", "cpu_iowait", "load_average"}
MemoryNames == {"memory_utilization", "swap_usage", "memory_psi_pressure", "direct_reclaim_rate",
                "compaction_stall_rate", "thp_split_rate", "numa_miss_ratio"}
DeviceNames == {"tcp_retransmits", "tcp_timewait", "disk_utilization", "cpu_throttling",
                "container_memory_usage"}
HistogramNames == {"biolatency_p99_ssd", "biolatency_p99_hdd", "runqlat_p99", "dns_latency_p99",
                   "cache_miss_ratio"}
PressureNames == {"cpu_psi_pressure", "io_psi_pressure", "disk_avg_latency"}
InterfaceNames == {"network_errors_per_sec", "conntrack_usage_pct", "softnet_dropped",
                   "listen_overflows", "nic_rx_discards", "tcp_close_wait"}
KernelNames == {"softnet_time_squeeze", "tcp_abort_on_memory", "irq_imbalance"}
SocketNames == {"udp_rcvbuf_errors", "tcp_rcvq_drop", "tcp_zero_window_drop",
                "listen_queue_saturation", "gpu_nic_cross_numa"}

Names == CPUNames \cup MemoryNames \cup DeviceNames \cup HistogramNames \cup PressureNames
         \cup InterfaceNames \cup KernelNames \cup SocketNames

\* The rules of a group have metrics of the group, and different ones.
Distinct(rules, names) ==
    /\ \A r \in rules : r.metric \in names
    /\ \A r, q \in rules : r.metric = q.metric => r = q

\* Two groups of rules without a common metric make one.
LEMMA DistinctUnion ==
    ASSUME NEW R, NEW N, NEW R2, NEW N2, Distinct(R, N), Distinct(R2, N2), N \cap N2 = {}
    PROVE  Distinct(R \cup R2, N \cup N2)
  BY DEF Distinct

\* No two rules of defaultThresholds have the same metric.
LEMMA RulesDistinct == Distinct(defaultThresholds, Names)
<1>1. Distinct(CPURules, CPUNames)
  BY DEF Distinct, CPURules, CPUNames, Rule
<1>2. Distinct(MemoryRules, MemoryNames)
  BY DEF Distinct, MemoryRules, MemoryNames, Rule
<1>3. Distinct(DeviceRules, DeviceNames)
  BY DEF Distinct, DeviceRules, DeviceNames, Rule
<1>4. Distinct(HistogramRules, HistogramNames)
  BY DEF Distinct, HistogramRules, HistogramNames, Rule
<1>5. Distinct(PressureRules, PressureNames)
  BY DEF Distinct, PressureRules, PressureNames, Rule
<1>6. Distinct(InterfaceRules, InterfaceNames)
  BY DEF Distinct, InterfaceRules, InterfaceNames, Rule
<1>7. Distinct(KernelRules, KernelNames)
  BY DEF Distinct, KernelRules, KernelNames, Rule
<1>8. Distinct(SocketRules, SocketNames)
  BY DEF Distinct, SocketRules, SocketNames, Rule
<1> DEFINE N2 == CPUNames \cup MemoryNames
           N3 == N2 \cup DeviceNames
           N4 == N3 \cup HistogramNames
           N5 == N4 \cup PressureNames
           N6 == N5 \cup InterfaceNames
           N7 == N6 \cup KernelNames
<1>9. /\ CPUNames \cap MemoryNames = {} /\ N2 \cap DeviceNames = {}
      /\ N3 \cap HistogramNames = {} /\ N4 \cap PressureNames = {}
  BY DEF CPUNames, MemoryNames, DeviceNames, HistogramNames, PressureNames
<1>10. /\ N5 \cap InterfaceNames = {} /\ N6 \cap KernelNames = {} /\ N7 \cap SocketNames = {}
  BY DEF CPUNames, MemoryNames, DeviceNames, HistogramNames, PressureNames, InterfaceNames,
         KernelNames, SocketNames
<1> HIDE DEF N2, N3, N4, N5, N6, N7
<1>11. Distinct(CPURules \cup MemoryRules, N2)
  BY <1>1, <1>2, <1>9, DistinctUnion DEF N2
<1>12. Distinct(CPURules \cup MemoryRules \cup DeviceRules, N3)
  BY <1>3, <1>9, <1>11, DistinctUnion DEF N3
<1>13. Distinct(CPURules \cup MemoryRules \cup DeviceRules \cup HistogramRules, N4)
  BY <1>4, <1>9, <1>12, DistinctUnion DEF N4
<1>14. Distinct(CPURules \cup MemoryRules \cup DeviceRules \cup HistogramRules \cup PressureRules, N5)
  BY <1>5, <1>9, <1>13, DistinctUnion DEF N5
<1>15. Distinct(CPURules \cup MemoryRules \cup DeviceRules \cup HistogramRules \cup PressureRules
                \cup InterfaceRules, N6)
  BY <1>6, <1>10, <1>14, DistinctUnion DEF N6
<1>16. Distinct(CPURules \cup MemoryRules \cup DeviceRules \cup HistogramRules \cup PressureRules
                \cup InterfaceRules \cup KernelRules, N7)
  BY <1>7, <1>10, <1>15, DistinctUnion DEF N7
<1>17. Distinct(defaultThresholds, N7 \cup SocketNames)
  BY <1>8, <1>10, <1>16, DistinctUnion DEF defaultThresholds
<1>18. N7 \cup SocketNames = Names
  BY DEF Names, N2, N3, N4, N5, N6, N7
<1> QED
  BY <1>17, <1>18

\* A set of seven elements at most.
LEMMA SevenFinite ==
    ASSUME NEW a, NEW b, NEW c, NEW d, NEW e, NEW f, NEW g
    PROVE  IsFiniteSet({a, b, c, d, e, f, g})
<1>1. IsFiniteSet({a}) /\ IsFiniteSet({b}) /\ IsFiniteSet({c}) /\ IsFiniteSet({d})
      /\ IsFiniteSet({e}) /\ IsFiniteSet({f}) /\ IsFiniteSet({g})
  BY FS_Singleton
<1>2. IsFiniteSet({a} \cup {b})
  BY <1>1, FS_Union
<1>3. IsFiniteSet({a} \cup {b} \cup {c})
  BY <1>1, <1>2, FS_Union
<1>4. IsFiniteSet({a} \cup {b} \cup {c} \cup {d})
  BY <1>1, <1>3, FS_Union
<1>5. IsFiniteSet({a} \cup {b} \cup {c} \cup {d} \cup {e})
  BY <1>1, <1>4, FS_Union
<1>6. IsFiniteSet({a} \cup {b} \cup {c} \cup {d} \cup {e} \cup {f})
  BY <1>1, <1>5, FS_Union
<1>7. IsFiniteSet({a} \cup {b} \cup {c} \cup {d} \cup {e} \cup {f} \cup {g})
  BY <1>1, <1>6, FS_Union
<1>8. {a} \cup {b} \cup {c} \cup {d} \cup {e} \cup {f} \cup {g} = {a, b, c, d, e, f, g}
  OBVIOUS
<1> QED
  BY <1>7, <1>8

\* The table is finite.
LEMMA NamesFinite == IsFiniteSet(Names)
<1>1. IsFiniteSet(CPUNames) /\ IsFiniteSet(PressureNames) /\ IsFiniteSet(KernelNames)
  <2>1. ASSUME NEW a, NEW b, NEW c PROVE IsFiniteSet({a, b, c})
    <3>1. IsFiniteSet({a, b, c, c, c, c, c})
      BY SevenFinite
    <3>2. {a, b, c, c, c, c, c} = {a, b, c}
      OBVIOUS
    <3> QED
      BY <3>1, <3>2
  <2> QED
    BY <2>1 DEF CPUNames, PressureNames, KernelNames
<1>2. IsFiniteSet(DeviceNames) /\ IsFiniteSet(HistogramNames) /\ IsFiniteSet(SocketNames)
  <2>1. ASSUME NEW a, NEW b, NEW c, NEW d, NEW e PROVE IsFiniteSet({a, b, c, d, e})
    <3>1. IsFiniteSet({a, b, c, d, e, e, e})
      BY SevenFinite
    <3>2. {a, b, c, d, e, e, e} = {a, b, c, d, e}
      OBVIOUS
    <3> QED
      BY <3>1, <3>2
  <2> QED
    BY <2>1 DEF DeviceNames, HistogramNames, SocketNames
<1>3. IsFiniteSet(InterfaceNames)
  <2>1. ASSUME NEW a, NEW b, NEW c, NEW d, NEW e, NEW f PROVE IsFiniteSet({a, b, c, d, e, f})
    <3>1. IsFiniteSet({a, b, c, d, e, f, f})
      BY SevenFinite
    <3>2. {a, b, c, d, e, f, f} = {a, b, c, d, e, f}
      OBVIOUS
    <3> QED
      BY <3>1, <3>2
  <2> QED
    BY <2>1 DEF InterfaceNames
<1>4. IsFiniteSet(MemoryNames)
  BY SevenFinite DEF MemoryNames
<1>5. IsFiniteSet(CPUNames \cup MemoryNames)
  BY <1>1, <1>4, FS_Union
<1>6. IsFiniteSet(CPUNames \cup MemoryNames \cup DeviceNames)
  BY <1>2, <1>5, FS_Union
<1>7. IsFiniteSet(CPUNames \cup MemoryNames \cup DeviceNames \cup HistogramNames)
  BY <1>2, <1>6, FS_Union
<1>8. IsFiniteSet(CPUNames \cup MemoryNames \cup DeviceNames \cup HistogramNames
                  \cup PressureNames)
  BY <1>1, <1>7, FS_Union
<1>9. IsFiniteSet(CPUNames \cup MemoryNames \cup DeviceNames \cup HistogramNames
                  \cup PressureNames \cup InterfaceNames)
  BY <1>3, <1>8, FS_Union
<1>10. IsFiniteSet(CPUNames \cup MemoryNames \cup DeviceNames \cup HistogramNames
                   \cup PressureNames \cup InterfaceNames \cup KernelNames)
  BY <1>1, <1>9, FS_Union
<1> QED
  BY <1>2, <1>10, FS_Union DEF Names

\* What is in a list of anomalies: the metrics of the rules with that severity.
LEMMA AnomalyIsRule ==
    ASSUME NEW rd, NEW kn, NEW s \in {"critical", "warning"}, NEW m
    PROVE  m \in DetectAnomalies(rd, kn)[s] <=>
              \E r \in defaultThresholds : Severity(r, rd, kn) = s /\ m = r.metric
  BY DEF DetectAnomalies

\* No metric is listed twice, and every list is finite.
LEMMA AnomaliesCounted ==
    ASSUME NEW rd, NEW kn
    PROVE  LET x == DetectAnomalies(rd, kn)
           IN  /\ x["critical"] \subseteq Names /\ x["warning"] \subseteq Names
               /\ x["critical"] \cap x["warning"] = {}
               /\ IsFiniteSet(x["critical"]) /\ IsFiniteSet(x["warning"])
<1> DEFINE C == DetectAnomalies(rd, kn)["critical"]
           W == DetectAnomalies(rd, kn)["warning"]
<1>1. \A m : m \in C <=> \E r \in defaultThresholds : Severity(r, rd, kn) = "critical" /\ m = r.metric
  BY AnomalyIsRule
<1>2. \A m : m \in W <=> \E r \in defaultThresholds : Severity(r, rd, kn) = "warning" /\ m = r.metric
  BY AnomalyIsRule
<1> HIDE DEF C, W
<1>3. C \subseteq Names /\ W \subseteq Names
  BY <1>1, <1>2, RulesDistinct DEF Distinct
<1>4. ASSUME NEW m \in C \cap W PROVE FALSE
  <2>1. PICK r \in defaultThresholds : Severity(r, rd, kn) = "critical" /\ m = r.metric
    BY <1>1
  <2>2. PICK q \in defaultThresholds : Severity(q, rd, kn) = "warning" /\ m = q.metric
    BY <1>2
  <2>3. r = q
    BY <2>1, <2>2, RulesDistinct, Zenon DEF Distinct
  <2> QED
    BY <2>1, <2>2, <2>3
<1>5. IsFiniteSet(C) /\ IsFiniteSet(W)
  BY <1>3, NamesFinite, FS_Subset
<1> QED
  BY <1>3, <1>4, <1>5 DEF C, W

-----------------------------------------------------------------------------
(* The health score.  x are the anomalies of one report, y of another.     *)

Points(x) == 10 * Cardinality(x["critical"]) + 5 * Cardinality(x["warning"])

\* The lists of a report, as the counting needs them.
Lists(C, W) == IsFiniteSet(C) /\ IsFiniteSet(W) /\ C \cap W = {}

\* More anomalies, or more severe ones, cost more points: 5 for each of them and
\* another 5 for each that is critical.
LEMMA AnomalyCost ==
    ASSUME NEW C, NEW W, NEW C2, NEW W2, Lists(C, W), Lists(C2, W2),
           C \subseteq C2, W \subseteq W2 \cup C2
    PROVE  /\ Cardinality(C) \in Nat /\ Cardinality(W) \in Nat
           /\ Cardinality(C2) \in Nat /\ Cardinality(W2) \in Nat
           /\ 10 * Cardinality(C) + 5 * Cardinality(W) <= 10 * Cardinality(C2) + 5 * Cardinality(W2)
           /\ (C # C2 \/ W # W2) =>
                10 * Cardinality(C) + 5 * Cardinality(W) < 10 * Cardinality(C2) + 5 * Cardinality(W2)
<1> DEFINE c == Cardinality(C)
           w == Cardinality(W)
           c2 == Cardinality(C2)
           w2 == Cardinality(W2)
           all == Cardinality(C \cup W)
           all2 == Cardinality(C2 \cup W2)
<1>1. c \in Nat /\ w \in Nat /\ c2 \in Nat /\ w2 \in Nat
  BY FS_CardinalityType DEF Lists
<1>2. IsFiniteSet(C \cup W) /\ all = c + w - Cardinality(C \cap W)
  BY FS_Union DEF Lists
<1>3. IsFiniteSet(C2 \cup W2) /\ all2 = c2 + w2 - Cardinality(C2 \cap W2)
  BY FS_Union DEF Lists
<1>4. Cardinality(C \cap W) = 0 /\ Cardinality(C2 \cap W2) = 0
  BY FS_EmptySet DEF Lists
<1>5. c <= c2 /\ (c2 = c => C2 = C)
  BY FS_Subset DEF Lists
<1>6. C \cup W \in SUBSET (C2 \cup W2)
  OBVIOUS
<1>7. all <= all2 /\ (all2 = all => C2 \cup W2 = C \cup W)
  BY <1>3, <1>6, FS_Subset
<1>8. C2 = C /\ C2 \cup W2 = C \cup W => W = W2
  BY DEF Lists
<1> HIDE DEF c, w, c2, w2, all, all2
<1>9. all = c + w /\ all2 = c2 + w2
  BY <1>1, <1>2, <1>3, <1>4
<1>10. 10 * c + 5 * w <= 10 * c2 + 5 * w2
  BY <1>1, <1>5, <1>7, <1>9
<1>11. (C # C2 \/ W # W2) => c2 # c \/ all2 # all
  BY <1>5, <1>7, <1>8
<1>12. (C # C2 \/ W # W2) => 10 * c + 5 * w < 10 * c2 + 5 * w2
  BY <1>1, <1>5, <1>7, <1>9, <1>11
<1> QED
  BY <1>1, <1>10, <1>12 DEF c, w, c2, w2

Resources == {"cpu", "memory", "disk", "network", "container_cpu", "container_memory"}

\* A metric of numbers.
Use == [utilization : Nat, saturation : Nat, errors : Nat]

UseRises(u, v) == u.utilization <= v.utilization /\ u.saturation <= v.saturation /\ u.errors <= v.errors

\* A resource that is used more costs no less.
LEMMA DeductionRises ==
    ASSUME NEW res \in Resources, NEW u \in Use, NEW v \in Use, UseRises(u, v)
    PROVE  Deduction(res, u) \in Nat /\ Deduction(res, v) \in Nat /\ Deduction(res, u) <= Deduction(res, v)
<1> DEFINE wt == resourceWeight(res)
           U(x) == Banded(x.utilization, <<950, 850, 700>>, <<15, 8, 3>>)
           S(x) == Banded(x.saturation, <<501, 101, 11>>, <<15, 8, 3>>)
           E(x) == Banded(x.errors, <<1001, 101, 1>>, <<10, 5, 2>>)
<1>1. wt \in Nat
  BY DEF resourceWeight, Resources
<1>2. /\ u.utilization \in Nat /\ v.utilization \in Nat /\ u.utilization <= v.utilization
      /\ u.saturation \in Nat /\ v.saturation \in Nat /\ u.saturation <= v.saturation
      /\ u.errors \in Nat /\ v.errors \in Nat /\ u.errors <= v.errors
  BY DEF Use, UseRises
<1>3. U(u) \in Nat /\ U(v) \in Nat /\ U(u) <= U(v)
  BY <1>2 DEF Banded
<1>4. S(u) \in Nat /\ S(v) \in Nat /\ S(u) <= S(v)
  BY <1>2 DEF Banded
<1>5. E(u) \in Nat /\ E(v) \in Nat /\ E(u) <= E(v)
  BY <1>2 DEF Banded
<1>6. /\ Deduction(res, u) = (U(u) * wt) \div 10 + (S(u) * wt) \div 10 + (E(u) * wt) \div 10
      /\ Deduction(res, v) = (U(v) * wt) \div 10 + (S(v) * wt) \div 10 + (E(v) * wt) \div 10
  BY DEF Deduction
<1> HIDE DEF wt, U, S, E
<1>7. ASSUME NEW p \in Nat, NEW q \in Nat, p <= q
      PROVE  (p * wt) \div 10 \in Nat /\ (q * wt) \div 10 \in Nat /\ (p * wt) \div 10 <= (q * wt) \div 10
  <2>1. p * wt \in Nat /\ q * wt \in Nat /\ p * wt <= q * wt
    BY <1>1, <1>7
  <2> QED
    BY <2>1, DivFits, DivMonotone
<1>8. /\ (U(u) * wt) \div 10 \in Nat /\ (U(v) * wt) \div 10 \in Nat
      /\ (U(u) * wt) \div 10 <= (U(v) * wt) \div 10
  BY <1>3, <1>7
<1>9. /\ (S(u) * wt) \div 10 \in Nat /\ (S(v) * wt) \div 10 \in Nat
      /\ (S(u) * wt) \div 10 <= (S(v) * wt) \div 10
  BY <1>4, <1>7
<1>10. /\ (E(u) * wt) \div 10 \in Nat /\ (E(v) * wt) \div 10 \in Nat
       /\ (E(u) * wt) \div 10 <= (E(v) * wt) \div 10
  BY <1>5, <1>7
<1> QED
  BY <1>6, <1>8, <1>9, <1>10

\* The fields the USE metrics read.
LEMMA UseFields ==
    {"cpu_utilization", "load_average", "memory_utilization", "swap_usage", "io_time",
     "io_in_progress", "tcp_timewait", "tcp_close_wait", "errors_eth0", "errors_eth1",
     "tcp_retransmits", "throttled_pct", "cpu_throttling", "container_memory_usage"}
        \subseteq Fields \ {"irq_min"}
<1>1. {"cpu_utilization", "load_average"} \subseteq {r.metric : r \in defaultThresholds}
  <2>1. /\ Rule("cpu_utilization", "cpu", 800, 950) \in defaultThresholds
        /\ Rule("load_average", "cpu", 20, 40) \in defaultThresholds
    BY DEF defaultThresholds, CPURules
  <2> QED
    BY <2>1 DEF Rule
<1>2. {"memory_utilization", "swap_usage"} \subseteq {r.metric : r \in defaultThresholds}
  <2>1. /\ Rule("memory_utilization", "memory", 850, 950) \in defaultThresholds
        /\ Rule("swap_usage", "memory", 100, 500) \in defaultThresholds
    BY DEF defaultThresholds, MemoryRules
  <2> QED
    BY <2>1 DEF Rule
<1>3. {"tcp_retransmits", "tcp_timewait", "cpu_throttling", "container_memory_usage"}
         \subseteq {r.metric : r \in defaultThresholds}
  <2>1. /\ Rule("tcp_retransmits", "network", 100, 500) \in defaultThresholds
        /\ Rule("tcp_timewait", "network", 50000, 200000) \in defaultThresholds
        /\ Rule("cpu_throttling", "container", 1000, 10000) \in defaultThresholds
        /\ Rule("container_memory_usage", "container", 800, 950) \in defaultThresholds
    BY DEF defaultThresholds, DeviceRules
  <2> QED
    BY <2>1 DEF Rule
<1>4. "tcp_close_wait" \in {r.metric : r \in defaultThresholds}
  <2>1. Rule("tcp_close_wait", "network", 10, 1000) \in defaultThresholds
    BY DEF defaultThresholds, InterfaceRules
  <2> QED
    BY <2>1 DEF Rule
<1>5. {"cpu_utilization", "load_average", "memory_utilization", "swap_usage", "tcp_retransmits",
       "tcp_timewait", "cpu_throttling", "container_memory_usage", "tcp_close_wait"}
         \cap Composite = {}
  BY DEF Composite
<1> QED
  BY <1>1, <1>2, <1>3, <1>4, <1>5 DEF Fields

\* The resources of a report, and what it says of one.
Reported(kn) == ({"cpu", "memory", "disk", "network"} \cap kn) \cup ContainerResources(kn)

UseOf(rd, res) ==
    CASE res = "cpu"     -> USEMetric(rd["cpu_utilization"], computeCPUSaturation(rd), 0)
      [] res = "memory"  -> USEMetric(rd["memory_utilization"], rd["swap_usage"], 0)
      [] res = "disk"    -> USEMetric(computeDiskUtilization(rd), rd["io_in_progress"], 0)
      [] res = "network" -> USEMetric(0, rd["tcp_timewait"] + rd["tcp_close_wait"], computeNetErrors(rd))
      [] res = "container_cpu"    -> USEMetric(rd["throttled_pct"], rd["cpu_throttling"], 0)
      [] res = "container_memory" -> USEMetric(rd["container_memory_usage"], 0, 0)

\* The USE metrics of a report depend on the readings only; what is missing
\* leaves resources out.
LEMMA UseMetrics ==
    ASSUME NEW rd, NEW kn
    PROVE  /\ Reported(kn) \subseteq Resources
           /\ DOMAIN ComputeUSEMetrics(rd, kn) = Reported(kn)
           /\ \A res \in Reported(kn) : ComputeUSEMetrics(rd, kn)[res] = UseOf(rd, res)
<1> DEFINE metric ==
          [cpu     |-> USEMetric(rd["cpu_utilization"], computeCPUSaturation(rd), 0),
           memory  |-> USEMetric(rd["memory_utilization"], rd["swap_usage"], 0),
           disk    |-> USEMetric(computeDiskUtilization(rd), rd["io_in_progress"], 0),
           network |-> USEMetric(0, rd["tcp_timewait"] + rd["tcp_close_wait"], computeNetErrors(rd)),
           container_cpu    |-> USEMetric(rd["throttled_pct"], rd["cpu_throttling"], 0),
           container_memory |-> USEMetric(rd["container_memory_usage"], 0, 0)]
<1>1. Reported(kn) \subseteq Resources
  BY DEF Reported, ContainerResources, Resources
<1>2. ComputeUSEMetrics(rd, kn) = [res \in Reported(kn) |-> metric[res]]
  BY DEF ComputeUSEMetrics, Reported
<1>3. \A res \in Resources : metric[res] = UseOf(rd, res)
  BY DEF Resources, UseOf
<1> HIDE DEF metric
<1> QED
  BY <1>1, <1>2, <1>3

\* Every resource of a host that only got worse is used no less.
LEMMA UseOfRises ==
    ASSUME NEW a \in [Fields -> Nat], NEW b \in [Fields -> Nat], WorseHost(a, b),
           NEW res \in Resources
    PROVE  UseOf(a, res) \in Use /\ UseOf(b, res) \in Use /\ UseRises(UseOf(a, res), UseOf(b, res))
<1>1. \A f \in Fields \ {"irq_min"} : a[f] \in Nat /\ b[f] \in Nat /\ a[f] <= b[f]
  BY DEF WorseHost, Worse
<1>2. CASE res = "cpu"
  <2>1. /\ a["cpu_utilization"] \in Nat /\ b["cpu_utilization"] \in Nat
        /\ a["cpu_utilization"] <= b["cpu_utilization"]
        /\ a["load_average"] \in Nat /\ b["load_average"] \in Nat
        /\ a["load_average"] <= b["load_average"]
    BY <1>1, UseFields
  <2>2. /\ computeCPUSaturation(a) \in Nat /\ computeCPUSaturation(b) \in Nat
        /\ computeCPUSaturation(a) <= computeCPUSaturation(b)
    BY <2>1 DEF computeCPUSaturation
  <2>3. \A rd : UseOf(rd, res) = USEMetric(rd["cpu_utilization"], computeCPUSaturation(rd), 0)
    BY <1>2 DEF UseOf
  <2> QED
    BY <2>1, <2>2, <2>3 DEF USEMetric, Use, UseRises
<1>3. CASE res = "memory"
  <2>1. /\ a["memory_utilization"] \in Nat /\ b["memory_utilization"] \in Nat
        /\ a["memory_utilization"] <= b["memory_utilization"]
        /\ a["swap_usage"] \in Nat /\ b["swap_usage"] \in Nat /\ a["swap_usage"] <= b["swap_usage"]
    BY <1>1, UseFields
  <2>2. \A rd : UseOf(rd, res) = USEMetric(rd["memory_utilization"], rd["swap_usage"], 0)
    BY <1>3 DEF UseOf
  <2> QED
    BY <2>1, <2>2 DEF USEMetric, Use, UseRises
<1>4. CASE res = "disk"
  <2>1. /\ a["io_time"] \in Nat /\ b["io_time"] \in Nat /\ a["io_time"] <= b["io_time"]
        /\ a["io_in_progress"] \in Nat /\ b["io_in_progress"] \in Nat
        /\ a["io_in_progress"] <= b["io_in_progress"]
    BY <1>1, UseFields
  <2>2. /\ computeDiskUtilization(a) \in Nat /\ computeDiskUtilization(b) \in Nat
        /\ computeDiskUtilization(a) <= computeDiskUtilization(b)
    BY <2>1 DEF computeDiskUtilization
  <2>3. \A rd : UseOf(rd, res) = USEMetric(computeDiskUtilization(rd), rd["io_in_progress"], 0)
    BY <1>4 DEF UseOf
  <2> QED
    BY <2>1, <2>2, <2>3 DEF USEMetric, Use, UseRises
<1>5. CASE res = "network"
  <2>1. /\ a["tcp_timewait"] \in Nat /\ b["tcp_timewait"] \in Nat
        /\ a["tcp_timewait"] <= b["tcp_timewait"]
        /\ a["tcp_close_wait"] \in Nat /\ b["tcp_close_wait"] \in Nat
        /\ a["tcp_close_wait"] <= b["tcp_close_wait"]
    BY <1>1, UseFields
  <2>2. /\ a["errors_eth0"] \in Nat /\ b["errors_eth0"] \in Nat
        /\ a["errors_eth0"] <= b["errors_eth0"]
        /\ a["errors_eth1"] \in Nat /\ b["errors_eth1"] \in Nat
        /\ a["errors_eth1"] <= b["errors_eth1"]
        /\ a["tcp_retransmits"] \in Nat /\ b["tcp_retransmits"] \in Nat
        /\ a["tcp_retransmits"] <= b["tcp_retransmits"]
    BY <1>1, UseFields
  <2>3. /\ computeNetErrors(a) \in Nat /\ computeNetErrors(b) \in Nat
        /\ computeNetErrors(a) <= computeNetErrors(b)
    BY <2>2 DEF computeNetErrors
  <2>4. \A rd : UseOf(rd, res) =
                  USEMetric(0, rd["tcp_timewait"] + rd["tcp_close_wait"], computeNetErrors(rd))
    BY <1>5 DEF UseOf
  <2>5. /\ a["tcp_timewait"] + a["tcp_close_wait"] \in Nat
        /\ b["tcp_timewait"] + b["tcp_close_wait"] \in Nat
        /\ a["tcp_timewait"] + a["tcp_close_wait"] <= b["tcp_timewait"] + b["tcp_close_wait"]
    BY <2>1
  <2> QED
    BY <2>3, <2>4, <2>5 DEF USEMetric, Use, UseRises
<1>6. CASE res = "container_cpu"
  <2>1. /\ a["throttled_pct"] \in Nat /\ b["throttled_pct"] \in Nat
        /\ a["throttled_pct"] <= b["throttled_pct"]
        /\ a["cpu_throttling"] \in Nat /\ b["cpu_throttling"] \in Nat
        /\ a["cpu_throttling"] <= b["cpu_throttling"]
    BY <1>1, UseFields
  <2>2. \A rd : UseOf(rd, res) = USEMetric(rd["throttled_pct"], rd["cpu_throttling"], 0)
    BY <1>6 DEF UseOf
  <2> QED
    BY <2>1, <2>2 DEF USEMetric, Use, UseRises
<1>7. CASE res = "container_memory"
  <2>1. /\ a["container_memory_usage"] \in Nat /\ b["container_memory_usage"] \in Nat
        /\ a["container_memory_usage"] <= b["container_memory_usage"]
    BY <1>1, UseFields
  <2>2. \A rd : UseOf(rd, res) = USEMetric(rd["container_memory_usage"], 0, 0)
    BY <1>7 DEF UseOf
  <2> QED
    BY <2>1, <2>2 DEF USEMetric, Use, UseRises
<1> QED
  BY <1>2, <1>3, <1>4, <1>5, <1>6, <1>7 DEF Resources

\* A resource that is reported of the better host is reported of the worse one,
\* and costs no less.
LEMMA DeductedRises ==
    ASSUME NEW a \in [Fields -> Nat], NEW b \in [Fields -> Nat], WorseHost(a, b),
           NEW kn, NEW kn2, Reported(kn) \subseteq Reported(kn2), NEW res \in Resources
    PROVE  LET x == Deducted(ComputeUSEMetrics(a, kn), res)
               y == Deducted(ComputeUSEMetrics(b, kn2), res)
           IN  x \in Nat /\ y \in Nat /\ x <= y
<1> DEFINE d == Deduction(res, UseOf(a, res))
           e == Deduction(res, UseOf(b, res))
<1>1. d \in Nat /\ e \in Nat /\ d <= e
  BY UseOfRises, DeductionRises
<1>2. Deducted(ComputeUSEMetrics(a, kn), res) = IF res \in Reported(kn) THEN d ELSE 0
  BY UseMetrics DEF Deducted
<1>3. Deducted(ComputeUSEMetrics(b, kn2), res) = IF res \in Reported(kn2) THEN e ELSE 0
  BY UseMetrics DEF Deducted
<1> HIDE DEF d, e
<1> QED
  BY <1>1, <1>2, <1>3

\* All deductions for resources.
Charged(resources) ==
    Deducted(resources, "cpu") + Deducted(resources, "memory") + Deducted(resources, "disk")
    + Deducted(resources, "network") + Deducted(resources, "container_cpu")
    + Deducted(resources, "container_memory")

\* They do not fall for a host that only got worse, nor for a report with more.
LEMMA ChargedRises ==
    ASSUME NEW a \in [Fields -> Nat], NEW b \in [Fields -> Nat], WorseHost(a, b),
           NEW kn, NEW kn2, Reported(kn) \subseteq Reported(kn2)
    PROVE  LET x == Charged(ComputeUSEMetrics(a, kn))
               y == Charged(ComputeUSEMetrics(b, kn2))
           IN  x \in Nat /\ y \in Nat /\ x <= y
<1> DEFINE x(res) == Deducted(ComputeUSEMetrics(a, kn), res)
           y(res) == Deducted(ComputeUSEMetrics(b, kn2), res)
<1>1. \A res \in Resources : x(res) \in Nat /\ y(res) \in Nat /\ x(res) <= y(res)
  BY DeductedRises
<1>2. Charged(ComputeUSEMetrics(a, kn)) = x("cpu") + x("memory") + x("disk") + x("network")
                                          + x("container_cpu") + x("container_memory")
  BY DEF Charged
<1>3. Charged(ComputeUSEMetrics(b, kn2)) = y("cpu") + y("memory") + y("disk") + y("network")
                                           + y("container_cpu") + y("container_memory")
  BY DEF Charged
<1> HIDE DEF x, y
<1>4. /\ x("cpu") \in Nat /\ y("cpu") \in Nat /\ x("cpu") <= y("cpu")
      /\ x("memory") \in Nat /\ y("memory") \in Nat /\ x("memory") <= y("memory")
      /\ x("disk") \in Nat /\ y("disk") \in Nat /\ x("disk") <= y("disk")
      /\ x("network") \in Nat /\ y("network") \in Nat /\ x("network") <= y("network")
      /\ x("container_cpu") \in Nat /\ y("container_cpu") \in Nat
      /\ x("container_cpu") <= y("container_cpu")
      /\ x("container_memory") \in Nat /\ y("container_memory") \in Nat
      /\ x("container_memory") <= y("container_memory")
  BY <1>1 DEF Resources
<1> QED
  BY <1>2, <1>3, <1>4

\* The score, from the points that resources and anomalies cost.
LEMMA ScoreOf ==
    ASSUME NEW rd \in [Fields -> Nat], NEW kn
    PROVE  LET x == DetectAnomalies(rd, kn)
               c == Charged(ComputeUSEMetrics(rd, kn))
               s == 100 - c - Points(x)
           IN  /\ c \in Nat /\ Points(x) \in Nat
               /\ Summary(rd, kn).score = IF s < 0 THEN 0 ELSE s
<1> DEFINE x == DetectAnomalies(rd, kn)
           m == ComputeUSEMetrics(rd, kn)
<1>1. WorseHost(rd, rd)
  BY DEF WorseHost, Worse
<1>2. \A res \in Resources : Deducted(m, res) \in Nat
  BY <1>1, DeductedRises
<1>3. Cardinality(x["critical"]) \in Nat /\ Cardinality(x["warning"]) \in Nat
  BY AnomaliesCounted, FS_CardinalityType
<1>4. Summary(rd, kn).score = ComputeHealthScore(m, x)
  BY DEF Summary
<1> HIDE DEF x, m
<1>5. /\ Deducted(m, "cpu") \in Nat /\ Deducted(m, "memory") \in Nat /\ Deducted(m, "disk") \in Nat
      /\ Deducted(m, "network") \in Nat /\ Deducted(m, "container_cpu") \in Nat
      /\ Deducted(m, "container_memory") \in Nat
  BY <1>2 DEF Resources
<1>6. Charged(m) \in Nat /\ Points(x) \in Nat
  BY <1>3, <1>5 DEF Charged, Points
<1>7. ComputeHealthScore(m, x) = IF 100 - Charged(m) - Points(x) < 0 THEN 0
                                 ELSE 100 - Charged(m) - Points(x)
  BY <1>3, <1>5 DEF ComputeHealthScore, Charged, Points
<1> QED
  BY <1>4, <1>6, <1>7 DEF x, m

-----------------------------------------------------------------------------
(* A report of the same host that lacks some sources.                      *)

\* Without a source an evaluator has the samples it had, or none.
LEMMA SamplesLost ==
    ASSUME NEW rd \in [Fields -> Nat], NEW kn, NEW kn2 \in SUBSET kn, "disk" \notin kn \ kn2,
           NEW r \in defaultThresholds
    PROVE  Evaluator(r, rd, kn2) = {} \/ Evaluator(r, rd, kn2) = Evaluator(r, rd, kn)
<1>1. CASE r.source \notin kn2
  BY <1>1 DEF Evaluator
<1>2. CASE r.source \in kn2
  <2>0. r.source \in kn /\ ("disk" \in kn <=> "disk" \in kn2)
    BY <1>2
  <2>1. CASE r.metric \in {"biolatency_p99_ssd", "biolatency_p99_hdd"}
    <3>1. \A rotational \in BOOLEAN : DisksOf(rotational, kn) = DisksOf(rotational, kn2)
      BY <2>0 DEF DisksOf
    <3>2. \A rotational \in BOOLEAN : P99Samples("biolatency", rotational, rd, kn2) =
                                      P99Samples("biolatency", rotational, rd, kn)
      BY <3>1, BiolatencySamples
    <3>3. \A k \in {kn, kn2} :
             /\ r.metric = "biolatency_p99_ssd" =>
                   Evaluator(r, rd, k) = P99Samples("biolatency", FALSE, rd, k)
             /\ r.metric = "biolatency_p99_hdd" =>
                   Evaluator(r, rd, k) = P99Samples("biolatency", TRUE, rd, k)
      BY <1>2, <2>0 DEF Evaluator
    <3> QED
      BY <2>1, <3>2, <3>3
  <2>2. CASE r.metric = "runqlat_p99"
    <3>1. \A k \in {kn, kn2} : Evaluator(r, rd, k) = P99Samples("runqlat", FALSE, rd, k)
      BY <1>2, <2>0, <2>2 DEF Evaluator
    <3> QED
      BY <3>1, RunqlatSample
  <2>3. CASE r.metric \in {"dns_latency_p99", "cache_miss_ratio"}
    BY <1>2, <2>3, NoSamples DEF Evaluator
  <2>4. CASE r.metric = "container_memory_usage"
    <3>1. \A k \in {kn, kn2} : Evaluator(r, rd, k) = ContainerMemory(rd, k)
      BY <1>2, <2>0, <2>4 DEF Evaluator
    <3>2. \A k : ContainerMemory(rd, k) = {} \/ /\ "memory_limit" \in k
                                                /\ ContainerMemory(rd, k) = {rd["container_memory_usage"]}
      BY DEF ContainerMemory
    <3>3. "memory_limit" \in kn => ContainerMemory(rd, kn) = {rd["container_memory_usage"]}
      BY DEF ContainerMemory
    <3> QED
      BY <3>1, <3>2, <3>3
  <2>5. CASE r.metric \notin Special
    BY <1>2, <2>0, <2>5, PlainEvaluator
  <2>6. CASE r.metric \in {"disk_utilization", "network_errors_per_sec", "irq_imbalance", "udp_rcvbuf_errors"}
    BY <1>2, <2>0, <2>6 DEF Evaluator
  <2> QED
    BY <2>1, <2>2, <2>3, <2>4, <2>5, <2>6 DEF Special
<1> QED
  BY <1>1, <1>2

\* A rule that fires without the source fires with it, at the same severity.
LEMMA SeverityLost ==
    ASSUME NEW rd \in [Fields -> Nat], NEW kn, NEW kn2 \in SUBSET kn, "disk" \notin kn \ kn2,
           NEW r \in defaultThresholds
    PROVE  Severity(r, rd, kn2) = "none" \/ Severity(r, rd, kn2) = Severity(r, rd, kn)
<1>1. CASE Evaluator(r, rd, kn2) = {}
  BY <1>1 DEF Severity
<1>2. CASE Evaluator(r, rd, kn2) = Evaluator(r, rd, kn)
  BY <1>2 DEF Severity
<1> QED
  BY <1>1, <1>2, SamplesLost

\* The lists of anomalies do not grow.
LEMMA AnomaliesLost ==
    ASSUME NEW rd \in [Fields -> Nat], NEW kn, NEW kn2 \in SUBSET kn, "disk" \notin kn \ kn2,
           NEW s \in {"critical", "warning"}
    PROVE  DetectAnomalies(rd, kn2)[s] \subseteq DetectAnomalies(rd, kn)[s]
<1> SUFFICES ASSUME NEW m \in DetectAnomalies(rd, kn2)[s] PROVE m \in DetectAnomalies(rd, kn)[s]
  OBVIOUS
<1>1. PICK r \in defaultThresholds : Severity(r, rd, kn2) = s /\ m = r.metric
  BY AnomalyIsRule
<1>2. Severity(r, rd, kn) = s
  BY <1>1, SeverityLost
<1> QED
  BY <1>1, <1>2, AnomalyIsRule

-----------------------------------------------------------------------------
(* diff.go: the changes between two reports.                               *)

Parts == {"utilization", "saturation", "errors"}

\* The value behind a USE metric, and the keys these have.
UseKeys == {<<res, part>> : res \in Resources, part \in Parts}

UseValue(rd, m) == UseOf(rd, m[1])[m[2]]

\* The value behind a histogram, and the names these have.
HistogramKeys == {<<"biolatency", "ssd">>, <<"biolatency", "hdd">>, <<"biolatency", "other">>,
                  <<"runqlat", "none">>}

HistogramValue(rd, m) ==
    IF m[1] = "runqlat" THEN rd["runqlat_p99"]
    ELSE IF m[2] = "ssd" THEN 1000 * rd["p99_ssd"]
    ELSE IF m[2] = "hdd" THEN 1000 * rd["p99_hdd"] ELSE 1000 * rd["p99_other"]

\* The USE metrics of a report are values of the host.
LEMMA UseCompared ==
    ASSUME NEW rd, NEW kn
    PROVE  LET u == USEMetrics(ComputeUSEMetrics(rd, kn))
           IN  \A m \in DOMAIN u : m \in UseKeys /\ u[m] = UseValue(rd, m)
<1> DEFINE s == ComputeUSEMetrics(rd, kn)
           keys == {<<res, part>> : res \in DOMAIN s, part \in Parts}
<1>1. USEMetrics(s) = [m \in keys |-> s[m[1]][m[2]]]
  BY DEF USEMetrics, Parts
<1>2. DOMAIN s \subseteq Resources /\ \A res \in DOMAIN s : s[res] = UseOf(rd, res)
  BY UseMetrics
<1> HIDE DEF s
<1>3. ASSUME NEW m \in keys PROVE m \in UseKeys /\ s[m[1]][m[2]] = UseValue(rd, m)
  <2>1. PICK res \in DOMAIN s, part \in Parts : m = <<res, part>>
    OBVIOUS
  <2>2. m[1] = res /\ m[2] = part
    BY <2>1
  <2>3. m \in UseKeys
    BY <1>2, <2>1 DEF UseKeys
  <2> QED
    BY <1>2, <2>2, <2>3 DEF UseValue
<1> HIDE DEF keys
<1> QED
  BY <1>1, <1>3 DEF s

\* The histograms of a report are values of the host.
LEMMA HistogramsCompared ==
    ASSUME NEW rd, NEW kn
    PROVE  LET u == collectHistograms(rd, kn)
           IN  \A m \in DOMAIN u : m \in HistogramKeys /\ u[m] = HistogramValue(rd, m)
<1> DEFINE named == UNION {{<<tool, h>> : h \in Histograms(tool, rd)} : tool \in {"biolatency", "runqlat"} \cap kn}
           names == {<<n[1], n[2].device>> : n \in named}
           chosen(m) == CHOOSE n \in named : n[1] = m[1] /\ n[2].device = m[2]
<1>1. collectHistograms(rd, kn) = [m \in names |-> chosen(m)[2].p99]
  BY DEF collectHistograms
<1>2. ASSUME NEW n \in named
      PROVE  /\ <<n[1], n[2].device>> \in HistogramKeys
             /\ n[2].p99 = HistogramValue(rd, <<n[1], n[2].device>>)
  <2>1. PICK tool \in {"biolatency", "runqlat"} : \E h \in Histograms(tool, rd) : n = <<tool, h>>
    OBVIOUS
  <2>2. PICK h \in Histograms(tool, rd) : n = <<tool, h>>
    BY <2>1
  <2>3. n[1] = tool /\ n[2] = h
    BY <2>2
  <2>4. CASE tool = "biolatency"
    <3>1. h \in {[device |-> "ssd",   unit |-> "us", p99 |-> 1000 * rd["p99_ssd"]],
                 [device |-> "hdd",   unit |-> "us", p99 |-> 1000 * rd["p99_hdd"]],
                 [device |-> "other", unit |-> "us", p99 |-> 1000 * rd["p99_other"]]}
      BY <2>2, <2>4 DEF Histograms
    <3>2. \/ h.device = "ssd" /\ h.p99 = 1000 * rd["p99_ssd"]
          \/ h.device = "hdd" /\ h.p99 = 1000 * rd["p99_hdd"]
          \/ h.device = "other" /\ h.p99 = 1000 * rd["p99_other"]
      BY <3>1
    <3> QED
      BY <2>3, <2>4, <3>2 DEF HistogramKeys, HistogramValue
  <2>5. CASE tool = "runqlat"
    <3>1. h = [device |-> "none", unit |-> "us", p99 |-> rd["runqlat_p99"]]
      BY <2>2, <2>5 DEF Histograms
    <3>2. h.device = "none" /\ h.p99 = rd["runqlat_p99"]
      BY <3>1
    <3> QED
      BY <2>3, <2>5, <3>2 DEF HistogramKeys, HistogramValue
  <2> QED
    BY <2>4, <2>5
<1> HIDE DEF named
<1>3. ASSUME NEW m \in names
      PROVE  m \in HistogramKeys /\ chosen(m)[2].p99 = HistogramValue(rd, m)
  <2>1. PICK n \in named : m = <<n[1], n[2].device>>
    OBVIOUS
  <2>2. n[1] = m[1] /\ n[2].device = m[2] /\ m = <<m[1], m[2]>>
    BY <2>1
  <2>3. chosen(m) \in named /\ chosen(m)[1] = m[1] /\ chosen(m)[2].device = m[2]
    BY <2>2
  <2> HIDE DEF chosen
  <2>4. <<chosen(m)[1], chosen(m)[2].device>> = m
    BY <2>2, <2>3
  <2> QED
    BY <1>2, <2>3, <2>4
<1> HIDE DEF names, chosen
<1> QED
  BY <1>1, <1>3

\* What is compared of two hosts are numbers, and none falls when the host only
\* got worse.
LEMMA ValuesRise ==
    ASSUME NEW a \in [Fields -> Nat], NEW b \in [Fields -> Nat], WorseHost(a, b)
    PROVE  /\ \A m \in UseKeys : /\ UseValue(a, m) \in Nat /\ UseValue(b, m) \in Nat
                                 /\ UseValue(a, m) <= UseValue(b, m)
           /\ \A m \in HistogramKeys : /\ HistogramValue(a, m) \in Nat
                                       /\ HistogramValue(b, m) \in Nat
                                       /\ HistogramValue(a, m) <= HistogramValue(b, m)
<1>1. ASSUME NEW m \in UseKeys
      PROVE  UseValue(a, m) \in Nat /\ UseValue(b, m) \in Nat /\ UseValue(a, m) <= UseValue(b, m)
  <2>1. PICK res \in Resources, part \in Parts : m = <<res, part>>
    BY DEF UseKeys
  <2>2. UseValue(a, m) = UseOf(a, res)[part] /\ UseValue(b, m) = UseOf(b, res)[part]
    BY <2>1 DEF UseValue
  <2>3. UseOf(a, res) \in Use /\ UseOf(b, res) \in Use /\ UseRises(UseOf(a, res), UseOf(b, res))
    BY UseOfRises
  <2> QED
    BY <2>2, <2>3 DEF Use, UseRises, Parts
<1>2. "runqlat_p99" \in Fields \ {"irq_min"}
  <2>1. Rule("runqlat_p99", "runqlat", 100, 500) \in defaultThresholds
    BY DEF defaultThresholds, HistogramRules
  <2>2. Rule("runqlat_p99", "runqlat", 100, 500).metric = "runqlat_p99"
    BY DEF Rule
  <2> QED
    BY <2>1, <2>2, DirectField DEF Composite
<1>3. \A f \in {"runqlat_p99", "p99_ssd", "p99_hdd", "p99_other"} :
         a[f] \in Nat /\ b[f] \in Nat /\ a[f] <= b[f]
  BY <1>2, OtherFields DEF WorseHost, Worse
<1>4. ASSUME NEW m \in HistogramKeys
      PROVE  /\ HistogramValue(a, m) \in Nat /\ HistogramValue(b, m) \in Nat
             /\ HistogramValue(a, m) <= HistogramValue(b, m)
  BY <1>3 DEF HistogramValue
<1> QED
  BY <1>1, <1>4

\* A change says which metric of both reports differs, and how.
LEMMA ChangeIs ==
    ASSUME NEW u, NEW v, NEW ch \in CompareMetrics(u, v)
    PROVE  \E m \in DOMAIN u \cap DOMAIN v :
              u[m] # v[m] /\ ch = [metric |-> m, direction |-> Direction(u[m], v[m])]
  BY DEF CompareMetrics

\* No value that has risen is an improvement, and no change has the same
\* direction both ways.
LEMMA DirectionsOpposed ==
    ASSUME NEW x \in Nat, NEW y \in Nat
    PROVE  /\ x <= y => Direction(x, y) # "improvement"
           /\ Direction(x, y) # "unchanged" => Direction(x, y) # Direction(y, x)
  BY DEF Direction, Exceeds

-----------------------------------------------------------------------------
(* Theorems.                                                               *)

\* Every report is computed from the readings of its own diagnosis.
THEOREM ReportsAreCurrent == Spec => []DInv
<1>1. Init => DInv
  BY BasesAssumption DEF Init, DInv
<1>2. DInv /\ [Next]_vars => DInv'
  <2> SUFFICES ASSUME DInv, [Next]_vars PROVE DInv'
    OBVIOUS
  <2>1. ASSUME NEW f \in Fields, NEW v \in Levels[f], Remeasure(f, v) PROVE DInv'
    <3>1. v \in Nat
      BY LevelsAssumption
    <3> QED
      BY <2>1, <3>1 DEF DInv, Remeasure
  <2>2. ASSUME NEW s \in Sources, Lose(s) PROVE DInv'
    BY <2>2 DEF DInv, Lose
  <2>3. ASSUME NEW s \in Sources, Regain(s) PROVE DInv'
    BY <2>3 DEF DInv, Regain
  <2>4. CASE UNCHANGED vars
    BY <2>4 DEF DInv, vars
  <2> QED
    BY <2>1, <2>2, <2>3, <2>4 DEF Next
<1> QED
  BY <1>1, <1>2, PTL DEF Spec

\* A host that only got worse keeps its anomalies, at no lower severity: the 37
\* evaluators of defaultThresholds are monotone in everything they read.
THEOREM WorseKeepsAnomalies == Spec => AnomaliesPersist
<1>1. DInv /\ DInv' /\ NoBetter =>
         /\ summary.anomalies["critical"] \subseteq summary'.anomalies["critical"]
         /\ summary.anomalies["warning"] \subseteq
                summary'.anomalies["warning"] \cup summary'.anomalies["critical"]
  <2> SUFFICES ASSUME DInv, DInv', NoBetter
               PROVE  /\ summary.anomalies["critical"] \subseteq summary'.anomalies["critical"]
                      /\ summary.anomalies["warning"] \subseteq
                             summary'.anomalies["warning"] \cup summary'.anomalies["critical"]
    OBVIOUS
  <2>1. summary.anomalies = DetectAnomalies(reading, known)
    BY DEF DInv, Summary
  <2>2. summary'.anomalies = DetectAnomalies(reading', known)
    BY DEF DInv, Summary, NoBetter
  <2>3. /\ reading \in [Fields -> Nat]
        /\ reading' \in [Fields -> Nat]
        /\ WorseHost(reading, reading')
    BY DEF DInv, NoBetter, WorseHost
  <2> QED
    BY <2>1, <2>2, <2>3, AnomaliesRise
<1>2. DInv /\ DInv' =>
         [NoBetter => /\ summary.anomalies["critical"] \subseteq summary'.anomalies["critical"]
                      /\ summary.anomalies["warning"] \subseteq
                             summary'.anomalies["warning"] \cup summary'.anomalies["critical"]]_vars
  BY <1>1
<1> QED
  BY <1>2, ReportsAreCurrent, PTL DEF AnomaliesPersist

\* A resource ComputeHealthScore charges for being full has a critical anomaly.
THEOREM FullResourcesAlarm == Spec => []FullIsCritical
<1>1. ASSUME NEW rd, NEW kn, NEW m, NEW s, NEW w, NEW c, NEW v,
             Rule(m, s, w, c) \in defaultThresholds,
             v \in Evaluator(Rule(m, s, w, c), rd, kn), v >= c
      PROVE  m \in DetectAnomalies(rd, kn)["critical"]
  <2> DEFINE r == Rule(m, s, w, c)
  <2>1. r.metric = m /\ r.critical = c
    BY DEF Rule
  <2> HIDE DEF r
  <2>2. r \in defaultThresholds /\ v \in Evaluator(r, rd, kn)
    BY <1>1 DEF r
  <2>3. Severity(r, rd, kn) = "critical"
    BY <1>1, <2>1, <2>2 DEF Severity
  <2> QED
    BY <2>1, <2>2, <2>3 DEF DetectAnomalies
<1>2. /\ Rule("cpu_utilization", "cpu", 800, 950) \in defaultThresholds
      /\ Rule("memory_utilization", "memory", 850, 950) \in defaultThresholds
      /\ Rule("disk_utilization", "disk", 700, 900) \in defaultThresholds
      /\ Rule("container_memory_usage", "container", 800, 950) \in defaultThresholds
  BY DEF defaultThresholds, CPURules, MemoryRules, DeviceRules
<1>3. DInv => FullIsCritical
  <2> SUFFICES ASSUME DInv,
                      NEW res \in DOMAIN summary.resources \ {"container_cpu"},
                      summary.resources[res].utilization >= 950
               PROVE  CASE res = "cpu"    -> "cpu_utilization" \in summary.anomalies["critical"]
                        [] res = "memory" -> "memory_utilization" \in summary.anomalies["critical"]
                        [] res = "disk"   -> "disk_utilization" \in summary.anomalies["critical"]
                        [] res = "container_memory" ->
                              "container_memory_usage" \in summary.anomalies["critical"]
                        [] OTHER -> FALSE
    BY DEF FullIsCritical
  <2>1. /\ summary.anomalies = DetectAnomalies(reading, known)
        /\ summary.resources = ComputeUSEMetrics(reading, known)
        /\ reading \in [Fields -> Nat]
    BY DEF DInv, Summary
  <2>2. res \in ({"cpu", "memory", "disk", "network"} \cap known) \cup ContainerResources(known)
    BY <2>1 DEF ComputeUSEMetrics
  <2>3. CASE res = "cpu"
    <3>1. summary.resources[res].utilization = reading["cpu_utilization"]
      BY <2>1, <2>2, <2>3 DEF ComputeUSEMetrics, USEMetric
    <3>2. "cpu" \in known
      BY <2>2, <2>3 DEF ContainerResources
    <3>3. reading["cpu_utilization"] \in Evaluator(Rule("cpu_utilization", "cpu", 800, 950), reading, known)
      BY <3>2 DEF Evaluator, Rule
    <3>4. "cpu_utilization" \in DetectAnomalies(reading, known)["critical"]
      BY <1>1, <1>2, <3>1, <3>3
    <3> QED
      BY <2>1, <2>3, <3>4
  <2>4. CASE res = "memory"
    <3>1. summary.resources[res].utilization = reading["memory_utilization"]
      BY <2>1, <2>2, <2>4 DEF ComputeUSEMetrics, USEMetric
    <3>2. "memory" \in known
      BY <2>2, <2>4 DEF ContainerResources
    <3>3. reading["memory_utilization"] \in Evaluator(Rule("memory_utilization", "memory", 850, 950), reading, known)
      BY <3>2 DEF Evaluator, Rule
    <3>4. "memory_utilization" \in DetectAnomalies(reading, known)["critical"]
      BY <1>1, <1>2, <3>1, <3>3
    <3> QED
      BY <2>1, <2>4, <3>4
  <2>5. CASE res = "disk"
    <3>1. summary.resources[res].utilization = computeDiskUtilization(reading)
      BY <2>1, <2>2, <2>5 DEF ComputeUSEMetrics, USEMetric
    <3>2. "disk" \in known
      BY <2>2, <2>5 DEF ContainerResources
    <3>3. computeDiskUtilization(reading) \in Evaluator(Rule("disk_utilization", "disk", 700, 900), reading, known)
      BY <3>2 DEF Evaluator, Rule
    <3>4. computeDiskUtilization(reading) \in Nat
      BY <2>1, OtherFields DEF computeDiskUtilization
    <3>5. computeDiskUtilization(reading) >= 900
      BY <3>1, <3>4
    <3>6. "disk_utilization" \in DetectAnomalies(reading, known)["critical"]
      BY <1>1, <1>2, <3>3, <3>5
    <3> QED
      BY <2>1, <2>5, <3>6
  <2>6. CASE res = "container_memory"
    <3>1. summary.resources[res].utilization = reading["container_memory_usage"]
      BY <2>1, <2>2, <2>6 DEF ComputeUSEMetrics, USEMetric
    <3>2. "container" \in known /\ "memory_limit" \in known
      BY <2>2, <2>6 DEF ContainerResources
    <3>3. reading["container_memory_usage"] \in Evaluator(Rule("container_memory_usage", "container", 800, 950), reading, known)
      BY <3>2 DEF Evaluator, Rule, ContainerMemory
    <3>4. "container_memory_usage" \in DetectAnomalies(reading, known)["critical"]
      BY <1>1, <1>2, <3>1, <3>3
    <3> QED
      BY <2>1, <2>6, <3>4
  <2>7. CASE res = "network"
    <3>1. summary.resources[res].utilization = 0
      BY <2>1, <2>2, <2>7 DEF ComputeUSEMetrics, USEMetric
    <3> QED
      BY <3>1
  <2>8. res \in {"cpu", "memory", "disk", "network", "container_memory"}
    BY <2>2 DEF ContainerResources
  <2> QED
    BY <2>3, <2>4, <2>5, <2>6, <2>7, <2>8
<1> QED
  BY <1>3, ReportsAreCurrent, PTL

\* Two reports of a host that only got worse, and what their scores are.
LEMMA ScoreFalls ==
    ASSUME NEW a \in [Fields -> Nat], NEW b \in [Fields -> Nat], WorseHost(a, b), NEW kn
    PROVE  LET x == Summary(a, kn)
               y == Summary(b, kn)
           IN  /\ y.score <= x.score
               /\ y.anomalies # x.anomalies => y.score < x.score \/ y.score = 0
<1> DEFINE x == DetectAnomalies(a, kn)
           y == DetectAnomalies(b, kn)
           c == Charged(ComputeUSEMetrics(a, kn))
           d == Charged(ComputeUSEMetrics(b, kn))
<1>1. c \in Nat /\ d \in Nat /\ c <= d
  BY ChargedRises
<1>2. /\ Lists(x["critical"], x["warning"])
      /\ Lists(y["critical"], y["warning"])
  BY AnomaliesCounted DEF Lists
<1>3. x["critical"] \subseteq y["critical"] /\ x["warning"] \subseteq y["warning"] \cup y["critical"]
  BY AnomaliesRise
<1>4. /\ x = [s \in {"critical", "warning"} |-> x[s]]
      /\ y = [s \in {"critical", "warning"} |-> y[s]]
  BY DEF DetectAnomalies
<1>5. /\ Summary(a, kn).anomalies = x
      /\ Summary(b, kn).anomalies = y
  BY DEF Summary
<1>6. /\ Points(x) \in Nat
      /\ Summary(a, kn).score = IF 100 - c - Points(x) < 0 THEN 0 ELSE 100 - c - Points(x)
  BY ScoreOf
<1>7. /\ Points(y) \in Nat
      /\ Summary(b, kn).score = IF 100 - d - Points(y) < 0 THEN 0 ELSE 100 - d - Points(y)
  BY ScoreOf
<1> HIDE DEF x, y, c, d
<1>8. Points(x) <= Points(y)
  BY <1>2, <1>3, AnomalyCost DEF Points
<1>9. x # y => x["critical"] # y["critical"] \/ x["warning"] # y["warning"]
  BY <1>4
<1>10. x # y => Points(x) < Points(y)
  BY <1>2, <1>3, <1>9, AnomalyCost DEF Points
<1> QED
  BY <1>1, <1>5, <1>6, <1>7, <1>8, <1>10

\* The score is a percentage, and follows the host: when a host only got worse it
\* does not rise, and a new or more severe anomaly lowers it unless it is 0.
THEOREM ScoresFollow == Spec => ScoreFollows
<1>1. DInv' => summary'.score \in 0 .. 100
  <2> SUFFICES ASSUME DInv' PROVE summary'.score \in 0 .. 100
    OBVIOUS
  <2>1. reading' \in [Fields -> Nat] /\ summary' = Summary(reading', known')
    BY DEF DInv
  <2>2. ASSUME NEW rd \in [Fields -> Nat], NEW kn PROVE Summary(rd, kn).score \in 0 .. 100
    <3> DEFINE c == Charged(ComputeUSEMetrics(rd, kn))
               p == Points(DetectAnomalies(rd, kn))
    <3>1. /\ c \in Nat /\ p \in Nat
          /\ Summary(rd, kn).score = IF 100 - c - p < 0 THEN 0 ELSE 100 - c - p
      BY ScoreOf
    <3> HIDE DEF c, p
    <3> QED
      BY <3>1
  <2> QED
    BY <2>1, <2>2
<1>2. DInv /\ DInv' /\ NoBetter =>
         /\ summary'.score <= summary.score
         /\ summary'.anomalies # summary.anomalies =>
                summary'.score < summary.score \/ summary'.score = 0
  <2> SUFFICES ASSUME DInv, DInv', NoBetter
               PROVE  /\ summary'.score <= summary.score
                      /\ summary'.anomalies # summary.anomalies =>
                             summary'.score < summary.score \/ summary'.score = 0
    OBVIOUS
  <2>1. summary = Summary(reading, known) /\ summary' = Summary(reading', known)
    BY DEF DInv, NoBetter
  <2>2. /\ reading \in [Fields -> Nat]
        /\ reading' \in [Fields -> Nat]
        /\ WorseHost(reading, reading')
    BY DEF DInv, NoBetter, WorseHost
  <2> QED
    BY <2>1, <2>2, ScoreFalls
<1>3. DInv /\ DInv' =>
         [/\ summary'.score \in 0 .. 100
          /\ NoBetter => /\ summary'.score <= summary.score
                         /\ summary'.anomalies # summary.anomalies =>
                                summary'.score < summary.score \/ summary'.score = 0]_vars
  BY <1>1, <1>2
<1> QED
  BY <1>3, ReportsAreCurrent, PTL DEF ScoreFollows

\* What is missing is not a problem: whichever sources but disk_stats a report
\* lacks, it has no anomaly and no deduction the complete report lacks.
THEOREM LossesAreQuiet == Spec => LossNeverAlarms
<1>1. ASSUME NEW rd \in [Fields -> Nat], NEW kn, NEW kn2 \in SUBSET kn, "disk" \notin kn \ kn2
      PROVE  LET x == Summary(rd, kn)
                 y == Summary(rd, kn2)
             IN  /\ \A sev \in {"critical", "warning"} : y.anomalies[sev] \subseteq x.anomalies[sev]
                 /\ x.score <= y.score
  <2> DEFINE x == DetectAnomalies(rd, kn)
             y == DetectAnomalies(rd, kn2)
             c == Charged(ComputeUSEMetrics(rd, kn))
             d == Charged(ComputeUSEMetrics(rd, kn2))
  <2>1. Reported(kn2) \subseteq Reported(kn)
    BY DEF Reported, ContainerResources
  <2>2. WorseHost(rd, rd)
    BY DEF WorseHost, Worse
  <2>3. c \in Nat /\ d \in Nat /\ d <= c
    BY <2>1, <2>2, ChargedRises
  <2>4. y["critical"] \subseteq x["critical"] /\ y["warning"] \subseteq x["warning"]
    BY <1>1, AnomaliesLost
  <2>5. Lists(x["critical"], x["warning"]) /\ Lists(y["critical"], y["warning"])
    BY AnomaliesCounted DEF Lists
  <2>6. Summary(rd, kn).anomalies = x /\ Summary(rd, kn2).anomalies = y
    BY DEF Summary
  <2>7. /\ Points(x) \in Nat
        /\ Summary(rd, kn).score = IF 100 - c - Points(x) < 0 THEN 0 ELSE 100 - c - Points(x)
    BY ScoreOf
  <2>8. /\ Points(y) \in Nat
        /\ Summary(rd, kn2).score = IF 100 - d - Points(y) < 0 THEN 0 ELSE 100 - d - Points(y)
    BY ScoreOf
  <2> HIDE DEF x, y, c, d
  <2>9. Points(y) <= Points(x)
    BY <2>4, <2>5, AnomalyCost DEF Points
  <2>10. Summary(rd, kn).score <= Summary(rd, kn2).score
    BY <2>3, <2>7, <2>8, <2>9
  <2> QED
    BY <2>4, <2>6, <2>10
<1>2. DInv /\ DInv' =>
         [known' \subseteq known /\ reading' = reading /\ "disk" \notin known \ known' =>
             /\ \A sev \in {"critical", "warning"} :
                   summary'.anomalies[sev] \subseteq summary.anomalies[sev]
             /\ summary.score <= summary'.score]_vars
  <2> SUFFICES ASSUME DInv, DInv', known' \subseteq known, reading' = reading,
                      "disk" \notin known \ known'
               PROVE  /\ \A sev \in {"critical", "warning"} :
                            summary'.anomalies[sev] \subseteq summary.anomalies[sev]
                      /\ summary.score <= summary'.score
    OBVIOUS
  <2>1. /\ summary = Summary(reading, known)
        /\ summary' = Summary(reading, known')
        /\ reading \in [Fields -> Nat]
    BY DEF DInv
  <2> QED
    BY <1>1, <2>1
<1> QED
  BY <1>2, ReportsAreCurrent, PTL DEF LossNeverAlarms

\* Every anomaly a report can contain has an explanation of its own, and
\* list_anomalies has it under the category of its rule.
THEOREM AnomaliesExplained == Spec => []EveryAnomalyExplained
<1>1. Names \subseteq anomalyExplanations
  <2>1. CPUNames \cup MemoryNames \cup DeviceNames \subseteq anomalyExplanations
    BY DEF CPUNames, MemoryNames, DeviceNames, anomalyExplanations, HostExplanations,
           ToolExplanations, KernelExplanations
  <2>2. HistogramNames \cup PressureNames \cup InterfaceNames \subseteq anomalyExplanations
    BY DEF HistogramNames, PressureNames, InterfaceNames, anomalyExplanations, HostExplanations,
           ToolExplanations, KernelExplanations
  <2>3. KernelNames \cup SocketNames \subseteq anomalyExplanations
    BY DEF KernelNames, SocketNames, anomalyExplanations, HostExplanations,
           ToolExplanations, KernelExplanations
  <2> QED
    BY <2>1, <2>2, <2>3 DEF Names
<1>2. "" \notin anomalyExplanations
  BY DEF anomalyExplanations, HostExplanations, ToolExplanations, KernelExplanations
<1>3. ASSUME NEW rd, NEW kn, NEW s \in {"critical", "warning"}, NEW id \in DetectAnomalies(rd, kn)[s]
      PROVE  /\ handleExplainAnomaly(id) = "specific"
             /\ [id |-> id, general |-> FALSE] \in handleListAnomalies
  <2>1. PICK r \in defaultThresholds : id = r.metric
    BY AnomalyIsRule
  <2>2. id \in anomalyExplanations
    BY <1>1, <2>1, RulesDistinct DEF Distinct
  <2>3. handleExplainAnomaly(id) = "specific"
    BY <1>2, <2>2 DEF handleExplainAnomaly
  <2>4. id \in {q.metric : q \in defaultThresholds}
    BY <2>1
  <2>5. [id |-> id, general |-> FALSE] = [id |-> id, general |-> id \notin {q.metric : q \in defaultThresholds}]
    BY <2>4
  <2> QED
    BY <2>2, <2>3, <2>5 DEF handleListAnomalies
<1>4. DInv => EveryAnomalyExplained
  <2> SUFFICES ASSUME DInv,
                      NEW id \in summary.anomalies["critical"] \cup summary.anomalies["warning"]
               PROVE  /\ handleExplainAnomaly(id) = "specific"
                      /\ [id |-> id, general |-> FALSE] \in handleListAnomalies
    BY DEF EveryAnomalyExplained
  <2>1. summary.anomalies = DetectAnomalies(reading, known)
    BY DEF DInv, Summary
  <2> QED
    BY <1>3, <2>1
<1> QED
  BY <1>4, ReportsAreCurrent, PTL

\* What Compare calls the changes between the reports of two hosts.
ChangesOf(a, kn, b, kn2) ==
    CompareMetrics(USEMetrics(ComputeUSEMetrics(a, kn)), USEMetrics(ComputeUSEMetrics(b, kn2)))
    \cup CompareMetrics(collectHistograms(a, kn), collectHistograms(b, kn2))

\* A change is one of a USE metric or one of a histogram, never both.
LEMMA ChangeOfHost ==
    ASSUME NEW a, NEW b, NEW kn, NEW kn2, NEW ch \in ChangesOf(a, kn, b, kn2)
    PROVE  \/ /\ ch.metric \in UseKeys
              /\ UseValue(a, ch.metric) # UseValue(b, ch.metric)
              /\ ch.direction = Direction(UseValue(a, ch.metric), UseValue(b, ch.metric))
           \/ /\ ch.metric \in HistogramKeys
              /\ HistogramValue(a, ch.metric) # HistogramValue(b, ch.metric)
              /\ ch.direction = Direction(HistogramValue(a, ch.metric), HistogramValue(b, ch.metric))
<1>1. CASE ch \in CompareMetrics(USEMetrics(ComputeUSEMetrics(a, kn)), USEMetrics(ComputeUSEMetrics(b, kn2)))
  <2> DEFINE u == USEMetrics(ComputeUSEMetrics(a, kn))
             v == USEMetrics(ComputeUSEMetrics(b, kn2))
  <2>1. \A m \in DOMAIN u : m \in UseKeys /\ u[m] = UseValue(a, m)
    BY UseCompared
  <2>2. \A m \in DOMAIN v : m \in UseKeys /\ v[m] = UseValue(b, m)
    BY UseCompared
  <2>3. ch \in CompareMetrics(u, v)
    BY <1>1
  <2> HIDE DEF u, v
  <2>4. PICK m \in DOMAIN u \cap DOMAIN v :
                u[m] # v[m] /\ ch = [metric |-> m, direction |-> Direction(u[m], v[m])]
    BY <2>3, ChangeIs
  <2>5. ch.metric = m /\ ch.direction = Direction(u[m], v[m])
    BY <2>4
  <2> QED
    BY <2>1, <2>2, <2>4, <2>5
<1>2. CASE ch \in CompareMetrics(collectHistograms(a, kn), collectHistograms(b, kn2))
  <2> DEFINE u == collectHistograms(a, kn)
             v == collectHistograms(b, kn2)
  <2>1. \A m \in DOMAIN u : m \in HistogramKeys /\ u[m] = HistogramValue(a, m)
    BY HistogramsCompared
  <2>2. \A m \in DOMAIN v : m \in HistogramKeys /\ v[m] = HistogramValue(b, m)
    BY HistogramsCompared
  <2>3. ch \in CompareMetrics(u, v)
    BY <1>2
  <2> HIDE DEF u, v
  <2>4. PICK m \in DOMAIN u \cap DOMAIN v :
                u[m] # v[m] /\ ch = [metric |-> m, direction |-> Direction(u[m], v[m])]
    BY <2>3, ChangeIs
  <2>5. ch.metric = m /\ ch.direction = Direction(u[m], v[m])
    BY <2>4
  <2> QED
    BY <2>1, <2>2, <2>4, <2>5
<1> QED
  BY <1>1, <1>2 DEF ChangesOf

\* The keys of the two kinds are different.
LEMMA KeysApart == UseKeys \cap HistogramKeys = {}
<1>1. ASSUME NEW m \in UseKeys PROVE m[1] \in Resources
  BY DEF UseKeys
<1>2. ASSUME NEW m \in HistogramKeys PROVE m[1] \in {"biolatency", "runqlat"}
  BY DEF HistogramKeys
<1>3. Resources \cap {"biolatency", "runqlat"} = {}
  BY DEF Resources
<1> QED
  BY <1>1, <1>2, <1>3

\* The diff of two reports agrees with what happened to the host: nothing got
\* better when every reading is worse or the same, nothing changed when no reading
\* did, whatever sources the reports lack, and in the other order no change has
\* the same direction.
THEOREM DiffsFollowHost == Spec => DiffFollowsHost
<1>1. ASSUME NEW a \in [Fields -> Nat], NEW b \in [Fields -> Nat], WorseHost(a, b), NEW kn, NEW kn2,
             NEW ch \in ChangesOf(a, kn, b, kn2)
      PROVE  ch.direction # "improvement"
  BY <1>1, ChangeOfHost, ValuesRise, DirectionsOpposed
<1>2. ASSUME NEW a, NEW kn, NEW kn2 PROVE ChangesOf(a, kn, a, kn2) = {}
  BY ChangeOfHost
<1>3. ASSUME NEW a \in [Fields -> Nat], NEW b \in [Fields -> Nat], NEW kn, NEW kn2,
             NEW ch \in ChangesOf(a, kn, b, kn2), ch.direction # "unchanged"
      PROVE  ch \notin ChangesOf(b, kn2, a, kn)
  <2> SUFFICES ASSUME ch \in ChangesOf(b, kn2, a, kn) PROVE FALSE
    OBVIOUS
  <2>1. WorseHost(a, a) /\ WorseHost(b, b)
    BY DEF WorseHost, Worse
  <2>2. CASE ch.metric \in UseKeys
    <3> DEFINE x == UseValue(a, ch.metric)
               y == UseValue(b, ch.metric)
    <3>1. x \in Nat /\ y \in Nat
      BY <2>1, <2>2, ValuesRise
    <3>2. ch.direction = Direction(x, y) /\ ch.direction = Direction(y, x)
      BY <2>2, ChangeOfHost, KeysApart
    <3> HIDE DEF x, y
    <3> QED
      BY <1>3, <3>1, <3>2, DirectionsOpposed
  <2>3. CASE ch.metric \in HistogramKeys
    <3> DEFINE x == HistogramValue(a, ch.metric)
               y == HistogramValue(b, ch.metric)
    <3>1. x \in Nat /\ y \in Nat
      BY <2>1, <2>3, ValuesRise
    <3>2. ch.direction = Direction(x, y) /\ ch.direction = Direction(y, x)
      BY <2>3, ChangeOfHost, KeysApart
    <3> HIDE DEF x, y
    <3> QED
      BY <1>3, <3>1, <3>2, DirectionsOpposed
  <2> QED
    BY <2>2, <2>3, ChangeOfHost
<1>4. DInv /\ DInv' =>
         [LET back == Compare(summary', collectHistograms(reading', known'),
                              summary, collectHistograms(reading, known))
          IN  /\ NoBetter => Diff.HealthDelta <= 0 /\ Diff.Improvements = 0
              /\ reading' = reading => Diff.Changes = {}
              /\ \A ch \in Diff.Changes : ch.direction # "unchanged" => ch \notin back.Changes]_vars
  <2> DEFINE back == Compare(summary', collectHistograms(reading', known'),
                             summary, collectHistograms(reading, known))
             there == ChangesOf(reading, known, reading', known')
  <2> SUFFICES ASSUME DInv, DInv'
               PROVE  /\ NoBetter => Diff.HealthDelta <= 0 /\ Diff.Improvements = 0
                      /\ reading' = reading => Diff.Changes = {}
                      /\ \A ch \in Diff.Changes : ch.direction # "unchanged" => ch \notin back.Changes
    OBVIOUS
  <2>1. /\ reading \in [Fields -> Nat] /\ summary = Summary(reading, known)
        /\ reading' \in [Fields -> Nat] /\ summary' = Summary(reading', known')
    BY DEF DInv
  <2>2. /\ summary.resources = ComputeUSEMetrics(reading, known)
        /\ summary'.resources = ComputeUSEMetrics(reading', known')
    BY <2>1 DEF Summary
  <2>3. /\ Diff.Changes = there
        /\ Diff.HealthDelta = summary'.score - summary.score
        /\ Diff.Improvements = Cardinality({ch \in there : ch.direction = "improvement"})
    BY <2>2 DEF Diff, Compare, ChangesOf
  <2>4. back.Changes = ChangesOf(reading', known', reading, known)
    BY <2>2 DEF Compare, ChangesOf
  <2> HIDE DEF back, there
  <2>5. NoBetter => Diff.HealthDelta <= 0
    <3> SUFFICES ASSUME NoBetter PROVE summary'.score - summary.score <= 0
      BY <2>3
    <3>1. summary'.score <= summary.score
      BY <2>1, ScoreFalls DEF NoBetter, WorseHost
    <3>2. summary'.score \in Int /\ summary.score \in Int
      <4>1. ASSUME NEW rd \in [Fields -> Nat], NEW kn PROVE Summary(rd, kn).score \in Int
        <5> DEFINE c == Charged(ComputeUSEMetrics(rd, kn))
                   p == Points(DetectAnomalies(rd, kn))
        <5>1. /\ c \in Nat /\ p \in Nat
              /\ Summary(rd, kn).score = IF 100 - c - p < 0 THEN 0 ELSE 100 - c - p
          BY ScoreOf
        <5> HIDE DEF c, p
        <5> QED
          BY <5>1
      <4> QED
        BY <2>1, <4>1
    <3> QED
      BY <3>1, <3>2
  <2>6. NoBetter => Diff.Improvements = 0
    <3> SUFFICES ASSUME NoBetter PROVE Diff.Improvements = 0
      OBVIOUS
    <3>1. \A ch \in there : ch.direction # "improvement"
      BY <1>1, <2>1 DEF NoBetter, WorseHost, there
    <3>2. {ch \in there : ch.direction = "improvement"} = {}
      BY <3>1
    <3> QED
      BY <2>3, <3>2, FS_EmptySet
  <2>7. reading' = reading => Diff.Changes = {}
    BY <1>2, <2>3 DEF there
  <2>8. \A ch \in Diff.Changes : ch.direction # "unchanged" => ch \notin back.Changes
    BY <1>3, <2>1, <2>3, <2>4 DEF there
  <2> QED
    BY <2>5, <2>6, <2>7, <2>8
<1> QED
  BY <1>4, ReportsAreCurrent, PTL DEF DiffFollowsHost
=============================================================================
