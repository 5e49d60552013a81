----------------------------- MODULE Selection -----------------------------
(***************************************************************************)
(* Which collectors a run has, and for how long: the tool registry         *)
(* (executor/registry.go), the profiles (orchestrator/profiles.go) and     *)
(* RegisterCollectors and filterCollectors (orchestrator/orchestrator.go). *)
(*                                                                         *)
(* A collector is a record of its name and the tier Available() gives it.  *)
(* A host says which BCC binaries resolve and whether the native eBPF      *)
(* program loads.  Times are in seconds.                                   *)
(***************************************************************************)
EXTENDS Integers, FiniteSets

Tier1Names == {"system_info", "cpu_utilization", "memory_info", "disk_stats", "network_stats",
               "process_info", "container_info", "gpu_pcie"}

-----------------------------------------------------------------------------
(* The registry: the tools of each category.                               *)

CPUTools == {"runqlat", "runqlen", "cpudist", "hardirqs", "softirqs", "runqslower", "cpufreq",
             "cpuunclaimed", "llcstat", "funccount"}
DiskTools == {"biolatency", "biosnoop", "ext4slower", "fileslower", "bitesize", "filelife",
              "mountsnoop", "btrfsslower", "xfsslower", "nfsslower", "zfsslower", "mdflush",
              "ext4dist", "btrfsdist", "xfsdist", "nfsdist", "zfsdist", "scsilatency",
              "nvmelatency", "biotop", "vfsstat"}
NetworkTools == {"tcpconnlat", "tcpretrans", "tcprtt", "gethostlatency", "tcpdrop", "tcpstates",
                 "tcpconnect", "tcpaccept", "tcplife", "udpconnect", "sofdsnoop", "sockstat",
                 "skbdrop", "tcpsynbl"}
MemoryTools == {"cachestat", "oomkill", "shmsnoop", "drsnoop", "numamove", "slabratetop", "memleak"}
ProcessTools == {"execsnoop", "opensnoop", "killsnoop", "threadsnoop", "syncsnoop", "exitsnoop",
                 "statsnoop", "capable", "syscount"}
StackTools == {"profile", "offcputime", "wakeuptime", "offwaketime", "biostacks", "stackcount"}

Registry == CPUTools \cup DiskTools \cup NetworkTools \cup MemoryTools \cup ProcessTools \cup StackTools

Category(tool) ==
    CASE tool \in CPUTools -> "cpu"
      [] tool \in DiskTools -> "disk"
      [] tool \in NetworkTools -> "network"
      [] tool \in MemoryTools -> "memory"
      [] tool \in ProcessTools -> "process"
      [] tool \in StackTools -> "stacktrace"

-----------------------------------------------------------------------------
(* The profiles.  "all" stands for every tool of the registry.             *)

All == {"all"}

\* Mutant: a tool of the quick profile is misspelt.
profilesMisspelt ==
    [quick |-> [Duration |-> 10, Extra |-> {},
                Collectors |-> {"cpu_utilization", "memory_info", "disk_stats", "network_stats",
                                "system_info", "process_info", "biolatency", "tcpretrans",
                                "opensnoop", "oomkiller"}],
     standard |-> [Duration |-> 30, Extra |-> {}, Collectors |-> All],
     deep |-> [Duration |-> 60, Collectors |-> All, Extra |-> {}]]

profiles ==
    [quick |-> [Duration |-> 10, Extra |-> {},
                Collectors |-> {"cpu_utilization", "memory_info", "disk_stats", "network_stats",
                                "system_info", "process_info", "biolatency", "tcpretrans",
                                "opensnoop", "oomkill"}],
     standard |-> [Duration |-> 30, Extra |-> {}, Collectors |-> All],
     deep |-> [Duration |-> 60, Collectors |-> All,
               Extra |-> {"memleak", "offwaketime", "biostacks", "wakeuptime", "biotop",
                          "tcpstates", "tcplife"}]]

GetProfile(name) == IF name \in DOMAIN profiles THEN profiles[name] ELSE profiles["standard"]

-----------------------------------------------------------------------------
(* RegisterCollectors.  A name that is no tool, and a tool that does not   *)
(* resolve, are passed over in silence.                                    *)

Collector(name, tier) == [name |-> name, tier |-> tier]
Heavy(c) == c.tier > 1
Native == Collector("tcpretrans", 3)

\* NewBCCCollector and Available().
BCC(host, tool) == IF tool \in Registry /\ tool \in host.bcc THEN {Collector(tool, 2)} ELSE {}

addBCC(host, tool) ==
    IF tool \in Tier1Names THEN {}
    ELSE IF tool = "tcpretrans" /\ host.native THEN {Native}
    ELSE BCC(host, tool)

Tools(profile) == (IF profile.Collectors = All THEN Registry ELSE profile.Collectors) \cup profile.Extra

RegisterCollectors(host, profile) ==
    {Collector(name, 1) : name \in Tier1Names} \cup UNION {addBCC(host, t) : t \in Tools(profile)}

-----------------------------------------------------------------------------
(* filterCollectors, for collectors that are still available.              *)

focusCategory(area) == IF area = "stacks" THEN "stacktrace" ELSE area

filterCollectors(collectors, profile, focus) ==
    {c \in collectors :
        /\ profile.Collectors = All \/ c.name \in profile.Collectors
        /\ focus # {} /\ Heavy(c) => Category(c.name) \in {focusCategory(a) : a \in focus}}
=============================================================================
