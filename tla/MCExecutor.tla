----------------------------- MODULE MCExecutor -----------------------------
(* Small instances of Executor: a tool, a descendant in its group and one that *)
(* has left it; any of them may be deaf to SIGINT or silent.                   *)
EXTENDS Executor

CONSTANTS tool, helper, daemon

MCChildren == {helper}
MCEscaped == {daemon}
=============================================================================
