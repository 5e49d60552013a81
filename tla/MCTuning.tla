------------------------------- MODULE MCTuning -------------------------------
(* A stock host and one tuned beyond every recommendation, and the readings that *)
(* recommendations look at.                                                      *)
EXTENDS Tuning

\* Readings at, and just above, the conditions of recommendations.go.
MCLevels ==
    [f \in Fields |->
        CASE f = "load_average"            -> {20, 40}
          [] f = "swap_usage"              -> {1}
          [] f = "direct_reclaim_rate"     -> {1, 10000}
          [] f = "thp_split_rate"          -> {10, 1000}
          [] f = "numa_miss_ratio"         -> {50, 200}
          [] f = "compaction_stall_rate"   -> {10, 1000}
          [] f = "tcp_retransmits"         -> {10, 500}
          [] f = "tcp_timewait"            -> {10001}
          [] f = "conntrack_usage_pct"     -> {700, 900}
          [] f = "nic_rx_discards"         -> {10}
          [] f = "listen_overflows"        -> {1, 1000}
          [] f = "softnet_dropped"         -> {1}
          [] f = "softnet_time_squeeze"    -> {1}
          [] f = "listen_queue_saturation" -> {699, 900}
          [] f = "tcp_zero_window_drop"    -> {1, 500}
          [] OTHER                         -> {}]

Calm == [f \in Fields |-> IF f \in {"irq_max", "irq_min"} THEN 90 ELSE 0]
MCBases == {Calm}

Stock ==
    [sched_latency_ms |-> 25, swappiness |-> 60, dirty_ratio |-> 30,
     dirty_background_ratio |-> 10, overcommit_memory |-> 0, watermark_scale_factor |-> 10,
     min_free_kbytes |-> 65535, thp |-> Always, numa_balancing |-> 0,
     extfrag_threshold |-> 100, congestion |-> 0, somaxconn |-> 128, tcp_rmem_kb |-> 4095,
     tcp_wmem_kb |-> 4095, tw_reuse |-> 0, syn_backlog |-> 128, conntrack_max |-> 1,
     ring_rx |-> 256, netdev_max_backlog |-> 1000, rmem_max_kb |-> 208,
     wmem_max_kb |-> 208, ports |-> 28231, slow_start_idle |-> 1, fastopen |-> 1,
     netdev_budget |-> 300, arp_thresh3 |-> 1024, tcp_mem_k |-> 256,
     scheduler_ssd |-> 0, scheduler_hdd |-> 0]

Tuned ==
    [Stock EXCEPT !.sched_latency_ms = 24, !.swappiness = 30, !.dirty_ratio = 20,
                  !.overcommit_memory = 1, !.min_free_kbytes = 65536, !.thp = Madvise,
                  !.congestion = Bbr, !.somaxconn = 4096, !.tcp_rmem_kb = 4096,
                  !.tcp_wmem_kb = 32768, !.tw_reuse = 1, !.syn_backlog = 16384,
                  !.ring_rx = 2048, !.netdev_max_backlog = 30000, !.rmem_max_kb = 65536,
                  !.wmem_max_kb = 65536, !.ports = 64511, !.slow_start_idle = 0,
                  !.fastopen = 1027, !.netdev_budget = 1200, !.arp_thresh3 = 16384,
                  !.scheduler_ssd = NoScheduler, !.scheduler_hdd = Bfq]

MCHosts == {Stock, Tuned}
MCSettingLevels == [s \in Settings |-> {Stock[s], Tuned[s]}]
===============================================================================
