------------------------------ MODULE Sampling ------------------------------
(***************************************************************************)
(* One Collect call of a Tier 1 collector that samples twice: cpu.go,      *)
(* disk.go, memory.go, process.go and network.go of internal/collector.    *)
(* The collector reads files of /proc, sleeps for the sample interval,     *)
(* reads them again and reports differences.  Between the two reads the    *)
(* kernel counts, counters wrap or run backwards, CPUs, devices and        *)
(* processes come and go, and a file may not open.                         *)
(*                                                                         *)
(* A rate is compared by its numerator, the reported difference: the       *)
(* divisor is the interval, a constant of the call.  A percentage is kept  *)
(* as a share of a total.  Gauges (memory sizes, load, PSI, sysctls, NIC   *)
(* details) are read once and left out.                                    *)
(***************************************************************************)
EXTENDS Integers, Sequences, FiniteSets, SequencesExt

CONSTANTS
    CPUSeq,      \* the possible CPUs, in the order of the kernel's files
    Disks,       \* whole disks
    PartitionOf, \* partitions and virtual devices, and the disk each is on
    Unmatched,   \* the ones whose name isVirtualOrPartition does not know: xvda1, nbd0p1
    Ifaces,      \* network interfaces
    Pids,        \* process ids
    Self,        \* the collector's own pid
    Rss,         \* resident memory of each pid
    TopN,        \* length of the top lists (20 in the source)
    Filters,     \* the --pid and --cgroup settings to try
    InCgroup,    \* pids in the target cgroup
    U64,         \* 2^64, the modulus of the collector's unsigned counters
    U32,         \* 2^32, the modulus of the counters the kernel keeps short
    Starts,      \* values of the counters at the first read, per line
    Present,     \* lines that exist at the first read
    MaxEvents,   \* bound: events counted between the reads
    MaxFaults    \* bound: hotplugs, backward steps and failed reads

CPUs == {CPUSeq[i] : i \in DOMAIN CPUSeq}
Partitions == DOMAIN PartitionOf

Files == {"stat", "diskstats", "vmstat", "pids", "netdev", "snmp",
          "softirqs", "softnet", "netstat"}

Lines(f) ==
    CASE f \in {"stat", "softirqs", "softnet"} -> CPUs
      [] f = "diskstats" -> Disks \cup Partitions
      [] f = "netdev" -> Ifaces
      [] f = "pids" -> Pids
      [] OTHER -> {"host"}

\* The counters of a line.  "irq" stands for the CPU states irq, softirq and steal: each
\* has its share in CPUData and none in PerCPU.  iowait and idle are the two the kernel
\* may take back.  Errors and drops of an interface are added up.
Counters(f) ==
    CASE f = "stat" -> {"user", "nice", "system", "iowait", "idle", "irq"}
      [] f = "diskstats" -> {"ops", "ticks"}
      [] f = "vmstat" -> {"pgscan_direct"}
      [] f = "pids" -> {"time"}
      [] f = "netdev" -> {"errors"}
      [] f = "snmp" -> {"RetransSegs", "RcvbufErrors"}
      [] f = "softirqs" -> {"NET_RX"}
      [] f = "softnet" -> {"dropped"}
      [] f = "netstat" -> {"ListenOverflows"}

Keys == UNION {{<<f, l, c>> : l \in Lines(f), c \in Counters(f)} : f \in Files}

\* Counters that the kernel prints with 32 bits, and lines that may disappear
\* and come back, with their counters (CPUs) or as a new object.
Short == {"ticks", "dropped"}
Hotplug == {"stat", "softnet", "diskstats", "netdev", "pids"}
NewObject == {"diskstats", "netdev", "pids"}

ASSUME SamplingAssumption ==
    /\ {U64, U32, TopN, MaxEvents, MaxFaults} \subseteq Nat \ {0}
    /\ 2 * U32 <= U64
    /\ MaxEvents < U64 \div 2   \* an interval is too short for 2^63 events
    /\ CPUSeq \in Seq(CPUs)
    /\ \A i, j \in DOMAIN CPUSeq : CPUSeq[i] = CPUSeq[j] => i = j
    /\ IsFiniteSet(Disks) /\ IsFiniteSet(Pids)
    /\ IsFiniteSet(Partitions) /\ Unmatched \subseteq Partitions
    /\ PartitionOf \in [Partitions -> Disks] /\ Disks \cap Partitions = {}
    /\ DOMAIN Present = Files /\ \A f \in Files : Present[f] \subseteq Lines(f)
    /\ Self \in Pids
    /\ Rss \in [Pids -> Nat]
    /\ InCgroup \subseteq Pids
    /\ Filters \subseteq [pids : SUBSET Pids, cgroup : BOOLEAN]
    /\ Starts \subseteq [Keys -> 0 .. U32 - 1]

Collectors == {"cpu", "disk", "memory", "process", "network"}

VARIABLES
    coll,     \* the collector whose Collect runs
    filter,   \* cfg.TargetPIDs and cfg.TargetCgroups
    step,     \* the number of the next step of Collect
    status,   \* "running", "done", "cancelled" or "panic"
    ctxDone,  \* the context has ended
    counter,  \* kernel: value of every counter
    live,     \* kernel: the lines present in each file
    first,    \* first samples taken so far, by file
    second,   \* second samples taken so far, by file
    top,      \* process: the lists TopByCPU and TopByMem
    events, faults  \* numbers of events and faults so far

\* What really happened since the first read of each file, for the properties:
\* events per counter, lines replaced or removed, counters taken back, and
\* files one of whose reads failed.
VARIABLES truth, replaced, takenBack, unread

kernel == <<counter, live, events, faults, truth, replaced, takenBack>>
vars == <<coll, filter, step, status, ctxDone, first, second, top, unread, kernel>>

-----------------------------------------------------------------------------
(* What a read of each file returns, given the counters cn and the lines  *)
(* lv of the kernel.  A file that cannot be opened gives the zero value of *)
(* the result.                                                             *)

Nil == [nil |-> TRUE]
Value(cn, f, l, c) == cn[<<f, l, c>>]

\* The first line of /proc/stat adds up all CPUs, those offline too.
readProcStat(ok, cn, lv) ==
    IF ok
    THEN [cpu |-> [s \in Counters("stat") |-> SumFunction([c \in CPUs |-> Value(cn, "stat", c, s)])],
          perCPU |-> [c \in lv["stat"] |-> [s \in Counters("stat") |-> Value(cn, "stat", c, s)]]]
    ELSE [cpu |-> [s \in Counters("stat") |-> 0], perCPU |-> << >>]

\* Decided by the name: three prefixes and partitionRe.
isVirtualOrPartition(l) == l \in Partitions \ Unmatched

\* Mutant: partitions are read like disks.
readDiskStatsAll(ok, cn, lv) ==
    [d \in {l \in lv["diskstats"] : ok} |->
        [c \in Counters("diskstats") |-> Value(cn, "diskstats", d, c)]]

readDiskStats(ok, cn, lv) ==
    [d \in {l \in lv["diskstats"] : ok /\ ~isVirtualOrPartition(l)} |->
        [c \in Counters("diskstats") |-> Value(cn, "diskstats", d, c)]]

parseVmstat(ok, cn) ==
    IF ok THEN [pgscan_direct |-> Value(cn, "vmstat", "host", "pgscan_direct")] ELSE Nil

readAllPIDs(ok, cn, lv) == [p \in {l \in lv["pids"] : ok} |-> Value(cn, "pids", p, "time")]

parseNetDev(ok, cn, lv) == [i \in {l \in lv["netdev"] : ok} |-> Value(cn, "netdev", i, "errors")]

\* data.TCP and data.UDP stay nil pointers when the file cannot be opened.
parseSNMP(ok, cn) ==
    [nil |-> ~ok, TCP |-> IF ok THEN Value(cn, "snmp", "host", "RetransSegs") ELSE 0,
                  UDP |-> IF ok THEN Value(cn, "snmp", "host", "RcvbufErrors") ELSE 0]

readNetRxSoftirqs(ok, cn) ==
    IF ok THEN [i \in DOMAIN CPUSeq |-> Value(cn, "softirqs", CPUSeq[i], "NET_RX")] ELSE << >>

\* One line per online CPU: the number of a line is not the number of a CPU.
parseSoftnetStat(ok, cn, lv) ==
    LET online == {i \in DOMAIN CPUSeq : ok /\ CPUSeq[i] \in lv["softnet"]}
        lineNo(i) == Cardinality({j \in online : j <= i})
    IN  [n \in 1 .. Cardinality(online) |->
            Value(cn, "softnet", CPUSeq[CHOOSE i \in online : lineNo(i) = n], "dropped")]

parseNetstat(ok, cn) ==
    IF ok THEN [ListenOverflows |-> Value(cn, "netstat", "host", "ListenOverflows")] ELSE Nil

Read(f, ok, cn, lv) ==
    CASE f = "stat" -> readProcStat(ok, cn, lv)
      [] f = "diskstats" -> readDiskStats(ok, cn, lv)
      [] f = "vmstat" -> parseVmstat(ok, cn)
      [] f = "pids" -> readAllPIDs(ok, cn, lv)
      [] f = "netdev" -> parseNetDev(ok, cn, lv)
      [] f = "snmp" -> parseSNMP(ok, cn)
      [] f = "softirqs" -> readNetRxSoftirqs(ok, cn)
      [] f = "softnet" -> parseSoftnetStat(ok, cn, lv)
      [] f = "netstat" -> parseNetstat(ok, cn)

-----------------------------------------------------------------------------
(* The kernel between the reads.  A file matters to it only between its    *)
(* first and its second read: what happened before is in Starts.           *)

Window(f) == f \in DOMAIN first \ DOMAIN second

\* An I/O of a partition is an I/O of its disk, and is counted on both lines.
Counted(f, l, c) ==
    {<<f, l, c>>} \cup IF f = "diskstats" /\ l \in Partitions THEN {<<f, PartitionOf[l], c>>} ELSE {}

Count(f, l, c) ==
    /\ Window(f) /\ l \in live[f] /\ events < MaxEvents
    /\ \A k \in Counted(f, l, c) : k[2] \in live[f]
    /\ counter' = [k \in Keys |-> IF k \in Counted(f, l, c)
                                  THEN IF c \in Short THEN (counter[k] + 1) % U32 ELSE counter[k] + 1
                                  ELSE counter[k]]
    /\ truth' = [k \in Keys |-> IF k \in Counted(f, l, c) THEN truth[k] + 1 ELSE truth[k]]
    /\ events' = events + 1
    /\ UNCHANGED <<coll, filter, step, status, ctxDone, first, second, top, unread,
                   live, faults, replaced, takenBack>>

Leave(f, l) ==
    /\ Window(f) /\ f \in Hotplug /\ l \in live[f] /\ faults < MaxFaults
    /\ live' = [live EXCEPT ![f] = @ \ {l}]
    /\ replaced' = replaced \cup {<<f, l>>}
    /\ faults' = faults + 1
    /\ UNCHANGED <<coll, filter, step, status, ctxDone, first, second, top, unread,
                   counter, events, truth, takenBack>>

Join(f, l) ==
    /\ Window(f) /\ f \in Hotplug /\ l \in Lines(f) \ live[f] /\ faults < MaxFaults
    /\ live' = [live EXCEPT ![f] = @ \cup {l}]
    /\ counter' = [k \in Keys |-> IF f \in NewObject /\ k[1] = f /\ k[2] = l THEN 0 ELSE counter[k]]
    /\ replaced' = replaced \cup {<<f, l>>}
    /\ faults' = faults + 1
    /\ UNCHANGED <<coll, filter, step, status, ctxDone, first, second, top, unread,
                   events, truth, takenBack>>

\* iowait and idle of a CPU are estimates that the kernel may correct downwards.
TakeBack(l, c) ==
    /\ Window("stat") /\ c \in {"iowait", "idle"} /\ counter[<<"stat", l, c>>] > 0
    /\ faults < MaxFaults
    /\ counter' = [counter EXCEPT ![<<"stat", l, c>>] = @ - 1]
    /\ takenBack' = takenBack \cup {l}
    /\ faults' = faults + 1
    /\ UNCHANGED <<coll, filter, step, status, ctxDone, first, second, top, unread,
                   live, events, truth, replaced>>

Kernel ==
    \/ \E f \in Files : \E l \in Lines(f) :
          \/ \E c \in Counters(f) : Count(f, l, c)
          \/ Leave(f, l)
          \/ Join(f, l)
    \/ \E l \in CPUs, c \in Counters("stat") : TakeBack(l, c)

-----------------------------------------------------------------------------
(* The steps of Collect, in the order of the source.                       *)

Twice(f) == <<<<"first", f>>, <<"sleep", "all">>, <<"second", f>>, <<"return", "all">>>>

NetworkSteps ==
    <<<<"first", "netdev">>, <<"first", "snmp">>, <<"first", "softirqs">>, <<"first", "softnet">>,
      <<"first", "netstat">>, <<"sleep", "all">>, <<"second", "netdev">>, <<"second", "snmp">>,
      <<"ss", "all">>, <<"substructs", "all">>, <<"second", "softnet">>, <<"second", "softirqs">>,
      <<"second", "netstat">>, <<"return", "all">>>>

Script(c) ==
    CASE c = "cpu" -> Twice("stat")
      [] c = "disk" -> Twice("diskstats")
      [] c = "memory" -> Twice("vmstat")
      [] c = "process" -> Twice("pids")
      [] c = "network" -> NetworkSteps

At(op) == status = "running" /\ Script(coll)[step][1] = op

\* A read fails at the expense of the fault budget.
Outcome(f, ok) ==
    /\ ok \/ faults < MaxFaults
    /\ faults' = IF ok THEN faults ELSE faults + 1
    /\ unread' = IF ok THEN unread ELSE unread \cup {f}

FirstRead(ok) ==
    /\ At("first")
    /\ LET f == Script(coll)[step][2] IN
          /\ first' = [g \in DOMAIN first \cup {f} |-> IF g = f THEN Read(f, ok, counter, live) ELSE first[g]]
          /\ Outcome(f, ok)
    /\ step' = step + 1
    /\ UNCHANGED <<coll, filter, status, ctxDone, second, top,
                   counter, live, events, truth, replaced, takenBack>>

\* select on time.After(interval) and ctx.Done(): with both ready either is taken.
Sleep ==
    /\ At("sleep")
    /\ step' = step + 1
    /\ UNCHANGED <<coll, filter, status, ctxDone, first, second, top, unread, kernel>>

Cancel ==
    /\ At("sleep") /\ ctxDone
    /\ status' = "cancelled"
    /\ UNCHANGED <<coll, filter, step, ctxDone, first, second, top, unread, kernel>>

SecondRead(ok) ==
    /\ At("second")
    /\ LET f == Script(coll)[step][2] IN
          /\ second' = [g \in DOMAIN second \cup {f} |-> IF g = f THEN Read(f, ok, counter, live) ELSE second[g]]
          /\ Outcome(f, ok)
    /\ step' = step + 1
    /\ UNCHANGED <<coll, filter, status, ctxDone, first, top,
                   counter, live, events, truth, replaced, takenBack>>

\* ss -s fills data.TCP, which is nil when the second read of snmp failed.
parseSSConnections(ok) ==
    /\ At("ss")
    /\ status' = IF ok /\ second["snmp"].nil THEN "panic" ELSE status
    /\ step' = step + 1
    /\ UNCHANGED <<coll, filter, ctxDone, first, second, top, unread, kernel>>

\* data.UDP is replaced by an empty struct, after parseSNMP has filled it.
InitSubStructs ==
    /\ At("substructs")
    /\ second' = [second EXCEPT !["snmp"].UDP = 0]
    /\ step' = step + 1
    /\ UNCHANGED <<coll, filter, status, ctxDone, first, top, unread, kernel>>

Expire ==
    /\ status = "running" /\ ~ctxDone
    /\ ctxDone' = TRUE
    /\ UNCHANGED <<coll, filter, step, status, first, second, top, unread, kernel>>

-----------------------------------------------------------------------------
(* The figures of the report, from the two samples.                        *)

Sub64(a, b) == (a - b) % U64
Int64(x) == IF x >= U64 \div 2 THEN x - U64 ELSE x
Clamp(d) == IF d > 0 THEN d ELSE 0

cpuTotal(t) == t["user"] + t["nice"] + t["system"] + t["iowait"] + t["idle"] + t["irq"]
totalDelta(before, after) == Sub64(cpuTotal(after), cpuTotal(before))
userDelta(before, after) ==
    (Sub64(after["user"], before["user"]) + Sub64(after["nice"], before["nice"])) % U64

\* CPUData: the share of each state and the total they are shares of.
NoShares ==
    [total |-> 0, UserPct |-> 0, SystemPct |-> 0, IOWaitPct |-> 0, IdlePct |-> 0, IRQPct |-> 0]

computeDelta(before, after) ==
    IF totalDelta(before, after) = 0 THEN NoShares
    ELSE [total |-> totalDelta(before, after),
          UserPct |-> userDelta(before, after),
          SystemPct |-> Sub64(after["system"], before["system"]),
          IOWaitPct |-> Sub64(after["iowait"], before["iowait"]),
          IdlePct |-> Sub64(after["idle"], before["idle"]),
          IRQPct |-> Sub64(after["irq"], before["irq"])]

\* One entry of PerCPU, which lists fewer states than its total has.
perCPUDelta(before, after) ==
    [total |-> totalDelta(before, after),
     UserPct |-> userDelta(before, after),
     SystemPct |-> Sub64(after["system"], before["system"]),
     IOWaitPct |-> Sub64(after["iowait"], before["iowait"]),
     IdlePct |-> Sub64(after["idle"], before["idle"])]

\* Mutant: a CPU missing from the first sample is taken to start from zero.
computePerCPUDeltasFromZero(before, after) ==
    LET zero == [s \in Counters("stat") |-> 0]
        delta == [c \in DOMAIN after |->
                    perCPUDelta(IF c \in DOMAIN before THEN before[c] ELSE zero, after[c])]
    IN  RestrictDomain(delta, LAMBDA c : delta[c].total # 0)

computePerCPUDeltas(before, after) ==
    LET delta == [c \in DOMAIN before \cap DOMAIN after |-> perCPUDelta(before[c], after[c])]
    IN  RestrictDomain(delta, LAMBDA c : delta[c].total # 0)

\* disk.go: the devices of both samples, and the operations of all of them.
diskDevices ==
    [d \in DOMAIN first["diskstats"] \cap DOMAIN second["diskstats"] |->
        [c \in Counters("diskstats") |->
            Int64(Sub64(second["diskstats"][d][c], first["diskstats"][d][c]))]]
TotalOps == SumFunction([d \in DOMAIN diskDevices |-> diskDevices[d]["ops"]])

computeReclaimRates(v1, v2) ==
    IF v1 = Nil \/ v2 = Nil THEN 0 ELSE Clamp(v2.pgscan_direct - v1.pgscan_direct)

CPUPct(p) ==
    IF p \in DOMAIN first["pids"] THEN Sub64(second["pids"][p], first["pids"][p]) ELSE 0

\* network.go
RetransRate ==
    IF first["snmp"].nil \/ second["snmp"].nil THEN 0
    ELSE Clamp(second["snmp"].TCP - first["snmp"].TCP)

ErrorsPerSec ==
    [i \in DOMAIN second["netdev"] |->
        IF i \in DOMAIN first["netdev"] THEN second["netdev"][i] - first["netdev"][i] ELSE 0]

\* Mutant: the lines are compared though their numbers differ.
DropRateUnmatched ==
    SumFunction([i \in DOMAIN first["softnet"] \cap DOMAIN second["softnet"] |->
                    Clamp(second["softnet"][i] - first["softnet"][i])])

DropRate ==
    IF Len(first["softnet"]) # Len(second["softnet"]) THEN 0
    ELSE SumFunction([i \in DOMAIN first["softnet"] |->
                         Clamp(second["softnet"][i] - first["softnet"][i])])

computeIRQDistribution(s1, s2) ==
    IF Len(s1) # Len(s2) THEN << >> ELSE [i \in DOMAIN s1 |-> Clamp(s2[i] - s1[i])]

\* Computed after InitSubStructs.
RcvbufErrRate ==
    IF first["snmp"].nil THEN 0 ELSE Clamp(second["snmp"].UDP - first["snmp"].UDP)

ListenOverflowRate ==
    LET ext == IF second["netstat"] = Nil THEN 0 ELSE second["netstat"].ListenOverflows
    IN  IF first["netstat"] = Nil THEN 0 ELSE Clamp(ext - first["netstat"].ListenOverflows)

-----------------------------------------------------------------------------
(* The last step: the lists of the process collector are built and the     *)
(* result is returned.  sort.Slice leaves the order of equals open.        *)

pidInCgroups(p) == p \in InCgroup /\ p \in live["pids"]

Listed ==
    {p \in DOMAIN second["pids"] :
        /\ p # Self
        /\ filter.pids = {} \/ p \in filter.pids
        /\ ~filter.cgroup \/ pidInCgroups(p)}

\* The slice of processes after sort.Slice by a key, and its first TopN.
SortedBy(key) ==
    {s \in SetToSeqs(Listed) : \A i, j \in DOMAIN s : i < j => key[s[i]] >= key[s[j]]}
FirstN(s) == SubSeq(s, 1, IF Len(s) < TopN THEN Len(s) ELSE TopN)

\* Mutant: TopByCPU is a slice of the array that is sorted again.
ProcessListsAliased(byCPU, byMem) == [TopByCPU |-> FirstN(byMem), TopByMem |-> FirstN(byMem)]

\* TopByCPU is copied before the slice is sorted again for TopByMem.
ProcessLists(byCPU, byMem) == [TopByCPU |-> FirstN(byCPU), TopByMem |-> FirstN(byMem)]

Return ==
    /\ At("return")
    /\ status' = "done"
    /\ step' = step + 1
    /\ IF coll = "process"
       THEN \E byCPU \in SortedBy([p \in Listed |-> CPUPct(p)]),
               byMem \in SortedBy([p \in Listed |-> Rss[p]]) :
               top' = ProcessLists(byCPU, byMem)
       ELSE top' = top
    /\ UNCHANGED <<coll, filter, ctxDone, first, second, unread, kernel>>

-----------------------------------------------------------------------------
NoFilter == [pids |-> {}, cgroup |-> FALSE]

Init ==
    /\ coll \in Collectors
    /\ filter \in IF coll = "process" THEN Filters ELSE {NoFilter}
    /\ step = 1
    /\ status = "running"
    /\ ctxDone = FALSE
    /\ counter \in Starts
    /\ live = Present
    /\ first = << >>
    /\ second = << >>
    /\ top = [TopByCPU |-> << >>, TopByMem |-> << >>]
    /\ events = 0
    /\ faults = 0
    /\ truth = [k \in Keys |-> 0]
    /\ replaced = {}
    /\ takenBack = {}
    /\ unread = {}

Collect ==
    \/ \E ok \in BOOLEAN : FirstRead(ok) \/ SecondRead(ok) \/ parseSSConnections(ok)
    \/ Sleep
    \/ Cancel
    \/ InitSubStructs
    \/ Return

Next == Kernel \/ Collect \/ Expire

Spec == Init /\ [][Next]_vars

-----------------------------------------------------------------------------
(* Properties.                                                             *)

Done(c) == status = "done" /\ coll = c
Truth(f, l, c) == truth[<<f, l, c>>]
TrueTotal(f, c, lines) == SumFunction([l \in lines |-> Truth(f, l, c)])
TrueUser(c) == Truth("stat", c, "user") + Truth("stat", c, "nice")
TrueTime(c) ==
    TrueUser(c) + Truth("stat", c, "system") + Truth("stat", c, "iowait")
        + Truth("stat", c, "idle") + Truth("stat", c, "irq")

AddUp(d) == d.UserPct + d.SystemPct + d.IOWaitPct + d.IdlePct + d.IRQPct = d.total

\* The shares of cpu.go are right, whatever CPUs go offline or come online in between.
\* For the machine they add up to the time that passed.  Each CPU listed has the true
\* user, system, iowait and idle time as shares of the time that passed on it, so that
\* they fall short of the whole by its irq, softirq and steal time.  Only a failed read
\* of /proc/stat or a counter the kernel took back spoils them (unsigned numbers are
\* subtracted), and one CPU's correction spoils no other CPU's line.
CPUSharesExact ==
    Done("cpu") /\ "stat" \notin unread =>
        LET all == computeDelta(first["stat"].cpu, second["stat"].cpu)
            per == computePerCPUDeltas(first["stat"].perCPU, second["stat"].perCPU)
        IN  /\ takenBack = {} => AddUp(all) /\ all.total = SumFunction([c \in CPUs |-> TrueTime(c)])
            /\ \A c \in DOMAIN per \ takenBack :
                  per[c] = [total |-> TrueTime(c), UserPct |-> TrueUser(c),
                            SystemPct |-> Truth("stat", c, "system"),
                            IOWaitPct |-> Truth("stat", c, "iowait"),
                            IdlePct |-> Truth("stat", c, "idle")]

\* No rate claims more events than happened between its two reads, through
\* wrapped counters, replaced devices and interfaces and unreadable files.  For
\* softnet_stat the comparison of the numbers of lines protects the rate unless
\* one CPU went offline and another came online.
NeverInflated ==
    /\ Done("disk") => \A d \in DOMAIN diskDevices : \A c \in Counters("diskstats") :
                           diskDevices[d][c] <= Truth("diskstats", d, c)
    /\ Done("memory") => computeReclaimRates(first["vmstat"], second["vmstat"])
                            <= Truth("vmstat", "host", "pgscan_direct")
    /\ Done("network") =>
        /\ RetransRate <= Truth("snmp", "host", "RetransSegs")
        /\ \A i \in DOMAIN ErrorsPerSec : ErrorsPerSec[i] <= Truth("netdev", i, "errors")
        /\ ListenOverflowRate <= Truth("netstat", "host", "ListenOverflows")
        /\ LET dist == computeIRQDistribution(first["softirqs"], second["softirqs"])
           IN  \A i \in DOMAIN dist : dist[i] <= Truth("softirqs", CPUSeq[i], "NET_RX")
        /\ \/ live["softnet"] = Present["softnet"]
           \/ Cardinality(live["softnet"]) # Cardinality(Present["softnet"])
           => DropRate <= TrueTotal("softnet", "dropped", CPUs)

\* A line that was there all the time, read twice, and did not wrap.
Steady(f, l) == f \notin unread /\ <<f, l>> \notin replaced
DiskSteady(d, c) ==
    Steady("diskstats", d) /\ first["diskstats"][d][c] + Truth("diskstats", d, c) < U32

\* The lines readDiskStats keeps.
Kept == Disks \cup Unmatched

\* A line that stays has its events reported exactly, whatever becomes of the other
\* lines and files: the skipped lines, the early returns and the guards for missing
\* samples lose nothing, with two exceptions.  UDP receive buffer errors are always
\* reported as 0, because data.UDP is replaced after it was filled.  And a whole
\* result is lost through /proc/net/snmp: when its second read fails, the output of ss
\* is stored through a nil pointer.  An I/O of a partition is counted once if the name
\* of the partition is known, and otherwise on its own line too.
LossesKnown ==
    /\ status = "panic" => "snmp" \in unread
    /\ Done("disk") =>
        /\ \A d \in Kept \cap Present["diskstats"] : \A c \in Counters("diskstats") :
              Steady("diskstats", d) =>
                 /\ d \in DOMAIN diskDevices
                 /\ DiskSteady(d, c) => diskDevices[d][c] = Truth("diskstats", d, c)
        /\ (\A d \in Kept : Steady("diskstats", d)) =>
              TotalOps = TrueTotal("diskstats", "ops", Kept)
    /\ Done("memory") /\ Steady("vmstat", "host") =>
        computeReclaimRates(first["vmstat"], second["vmstat"]) = Truth("vmstat", "host", "pgscan_direct")
    /\ Done("network") =>
        /\ Steady("snmp", "host") => RetransRate = Truth("snmp", "host", "RetransSegs")
        /\ RcvbufErrRate = 0
        /\ Steady("netstat", "host") => ListenOverflowRate = Truth("netstat", "host", "ListenOverflows")
        /\ \A i \in Ifaces \cap Present["netdev"] :
              Steady("netdev", i) => ErrorsPerSec[i] = Truth("netdev", i, "errors")
        /\ "softirqs" \notin unread =>
              \A i \in DOMAIN CPUSeq :
                 computeIRQDistribution(first["softirqs"], second["softirqs"])[i]
                   = Truth("softirqs", CPUSeq[i], "NET_RX")
        /\ (\A c \in CPUs : Steady("softnet", c) /\ counter[<<"softnet", c, "dropped">>] >= Truth("softnet", c, "dropped"))
              => DropRate = TrueTotal("softnet", "dropped", CPUs)

\* Of two processes that lived through the interval, one that is not among the
\* top by CPU used no more CPU time than one that is, and likewise for memory;
\* melisai itself and processes outside the filters are in neither list.
TopListsCorrect ==
    Done("process") =>
        /\ Range(top.TopByCPU) \cup Range(top.TopByMem) \subseteq Listed
        /\ \A p \in Listed \ Range(top.TopByCPU), q \in Range(top.TopByCPU) :
              Steady("pids", p) /\ Steady("pids", q) => Truth("pids", p, "time") <= Truth("pids", q, "time")
        /\ \A p \in Listed \ Range(top.TopByMem), q \in Range(top.TopByMem) : Rss[p] <= Rss[q]
=============================================================================
