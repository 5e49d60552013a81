----------------------------- MODULE MCSampling -----------------------------
(* A small instance of Sampling: three possible CPUs of which two are online, *)
(* two disks with a partition each, of which one has a name that is not known  *)
(* for a partition, two interfaces, three processes besides melisai, of which *)
(* one may appear during the interval.                                        *)
EXTENDS Sampling, TLC

MCCPUSeq == <<"cpu0", "cpu1", "cpu2">>
MCDisks == {"sda", "xvda"}
MCPartitionOf == ("sda1" :> "sda") @@ ("xvda1" :> "xvda")
MCUnmatched == {"xvda1"}
MCIfaces == {"eth0", "eth1"}
MCPids == {"melisai", "a", "b", "c"}
MCRss == ("melisai" :> 3) @@ ("a" :> 1) @@ ("b" :> 2) @@ ("c" :> 1)
MCFilters == {[pids |-> {}, cgroup |-> FALSE], [pids |-> {"a", "b"}, cgroup |-> FALSE],
              [pids |-> {}, cgroup |-> TRUE]}
MCInCgroup == {"a", "c"}

\* A machine that has just booted, and one whose counters are about to wrap; on
\* the second each CPU has counted more than the one before it.
MCStarts ==
    {[k \in Keys |-> 0],
     [k \in Keys |-> CASE k[2] \in {"cpu0", "b"} -> 1 [] k[2] = "cpu1" -> 2 [] OTHER -> U32 - 1]}
MCPresent ==
    [f \in Files |->
        CASE f \in {"stat", "softnet"} -> {"cpu0", "cpu1"}
          [] f = "pids" -> {"melisai", "a", "b"}
          [] OTHER -> Lines(f)]
=============================================================================
