---------------------------- MODULE MCToolCollect ----------------------------
(* opensnoop, which sees itself, another tool, melisai and other processes,     *)
(* beside cachestat, which prints no PID and whose parser drops the flag, and   *)
(* profile, which prints stacks.  Each can print one line more than is sure to  *)
(* fit.                                                                         *)
EXTENDS ToolCollect, TLC

CONSTANTS opensnoop, cachestat, profile

MCTools == {opensnoop, cachestat, profile}
MCPrints ==
    [t \in Tools |-> IF t = opensnoop THEN Pids \ {NoPid, profile} ELSE {NoPid}]
MCParserMax == opensnoop :> 3 @@ cachestat :> 3 @@ profile :> 0
MCUnflagged == {cachestat}
MCMinFit == MCParserMax
MCMaxTraced == [t \in Tools |-> MCMinFit[t] + 1]
\* Neither tool shows a PID, so that only one of them has to print beside opensnoop.
OneQuiet == traced[cachestat] = << >> \/ traced[profile] = << >>
OneEach == [t \in Tools |-> 1]
=============================================================================
