---------------------------- MODULE MCMCPServer ----------------------------
(* Two calls on three hosts: nothing installed, BCC tools only, and BCC tools *)
(* next to native eBPF.                                                       *)
EXTENDS MCPServer

CONSTANTS first, second

MCCalls == {first, second}
Usual == {"biolatency", "profile"}
Host(bcc, native) == [bcc |-> bcc, native |-> native]
MCHosts == {Host({}, FALSE), Host(Usual, FALSE), Host({"biolatency"}, TRUE)}
Request(profile, focus) == [profile |-> profile, focus |-> focus]
MCRequests == {Request("", ""), Request("standard", "stacks"), Request("unknown", "all")}
Flag(profile, focus, duration) == [profile |-> profile, focus |-> focus, duration |-> duration]
MCFlags == {Flag("quick", {}, 0), Flag("quick", {}, 35), Flag("quick", {}, 60),
            Flag("standard", {"stacks", "disk"}, 2), Flag("deep", {"network"}, 0)}

\* Calls that ask for nothing but the quick profile.
QuickRequests == {Request("", "")}
QuickFlags == {Flag("quick", {}, 0)}
=============================================================================
