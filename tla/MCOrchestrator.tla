--------------------------- MODULE MCOrchestrator ---------------------------
(* Small instances of Orchestrator. *)
EXTENDS Orchestrator

CONSTANTS cpu, mem, biolat, tcpre

MCLight == {cpu, mem}
MCBCC == {biolat}
MCNative == {tcpre}
MCCategoryOf == (cpu :> "cpu") @@ (mem :> "cpu") @@ (biolat :> "stacktrace") @@ (tcpre :> "cpu")
MCRank == (cpu :> 2) @@ (mem :> 3) @@ (biolat :> 1) @@ (tcpre :> 0)

Config(profile, focus) == [profile |-> profile, focus |-> focus]

MCConfigs ==
    {Config(Collectors, {}), Config(Collectors, {"stacks"}),
     Config({mem, biolat, tcpre}, {"bogus", "cpu"})}
=============================================================================
