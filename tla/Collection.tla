----------------------------- MODULE Collection -----------------------------
(***************************************************************************)
(* What a collection run promises, whatever its goroutines, locks and      *)
(* channels do: light collectors observe the machine before any heavy one  *)
(* starts, the gate to the heavy ones opens only when nothing is running   *)
(* and nobody has interrupted the run, and the report that is published at *)
(* the end holds what the collectors yielded, all of it and nothing else.  *)
(***************************************************************************)
EXTENDS FiniteSets

CONSTANTS Light, Heavy

VARIABLES
    gate,         \* which collectors may begin: "light", "heavy" or none of them
    begun,        \* the collectors that have begun
    live,         \* those that have not left yet
    yielded,      \* those that delivered a result
    interrupted,  \* the run was told to stop
    report        \* the collectors in the published report, or Unpublished

vars == <<gate, begun, live, yielded, interrupted, report>>

Unpublished == "unpublished"

Init ==
    /\ gate = "light"
    /\ begun = {}
    /\ live = {}
    /\ yielded = {}
    /\ interrupted = FALSE
    /\ report = Unpublished

MayBegin == IF gate = "light" THEN Light ELSE IF gate = "heavy" THEN Heavy ELSE {}

Begin(c) ==
    /\ c \in MayBegin \ begun
    /\ begun' = begun \cup {c}
    /\ live' = live \cup {c}
    /\ UNCHANGED <<gate, yielded, interrupted, report>>

Yield(c) ==
    /\ c \in live \ yielded
    /\ yielded' = yielded \cup {c}
    /\ UNCHANGED <<gate, begun, live, interrupted, report>>

Leave(c) ==
    /\ c \in live
    /\ live' = live \ {c}
    /\ UNCHANGED <<gate, begun, yielded, interrupted, report>>

OpenGate ==
    /\ gate = "light"
    /\ live = {}
    /\ ~interrupted
    /\ gate' = "heavy"
    /\ UNCHANGED <<begun, live, yielded, interrupted, report>>

\* A run that is over tells whatever is left of it to stop.
Publish ==
    /\ gate # "closed"
    /\ live = {}
    /\ gate' = "closed"
    /\ report' = yielded
    /\ interrupted' = TRUE
    /\ UNCHANGED <<begun, live, yielded>>

Interrupt ==
    /\ ~interrupted
    /\ interrupted' = TRUE
    /\ UNCHANGED <<gate, begun, live, yielded, report>>

Next ==
    \/ \E c \in Light \cup Heavy : Begin(c) \/ Yield(c) \/ Leave(c)
    \/ OpenGate
    \/ Publish
    \/ Interrupt

Spec == Init /\ [][Next]_vars
=============================================================================
