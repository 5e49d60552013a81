----------------------------- MODULE MCDiagnosis -----------------------------
(* Every field at the values around its thresholds, on a calm host and on one *)
(* where everything is at its worst.                                          *)
EXTENDS Comparison

RuleLevels(m) ==
    LET r == CHOOSE q \in defaultThresholds : q.metric = m
    IN  {0, r.warning - 1, r.warning, r.critical}

MCLevels ==
    [f \in Fields |->
        CASE f = "io_time"        -> {0, 700, 899, 900, 950, 1200}
          [] f = "io_in_progress" -> {0, 20, 110, 510}
          [] f \in {"errors_eth0", "errors_eth1"} -> {0, 5, 99, 100, 999, 1000, 6000}
          [] f = "irq_max"        -> {90, 100, 449, 2000}
          [] f = "irq_min"        -> {0, 1, 5, 20, 90}
          [] f = "throttled_pct"  -> {0, 850, 950}
          [] f \in {"p99_ssd", "p99_hdd", "p99_other"} -> {0, 50, 250, 500, 2000}
          [] f = "load_average"   -> {0, 12, 19, 20, 40}
          [] f = "tcp_timewait"   -> {0, 20, 510, 50000, 200000}
          [] f = "runqlat_p99"    -> {0, 501, 100000, 500000}
          [] f = "dns_latency_p99" -> {0, 2001}
          [] f = "udp_rcvbuf_errors" -> {0, 1001}
          [] OTHER                -> RuleLevels(f)]

Calm == [f \in Fields |-> IF f \in {"irq_max", "irq_min"} THEN 90 ELSE 0]
Overloaded == [f \in Fields |-> IF f = "irq_min" THEN 0 ELSE Max(MCLevels[f])]

CalmBase == {Calm}
MCBases == {Calm, Overloaded}
=============================================================================
