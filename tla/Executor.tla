------------------------------ MODULE Executor ------------------------------
(***************************************************************************)
(* One call of BCCExecutor.Run (internal/executor/executor.go): start a    *)
(* tool in a process group of its own, copy its output into a pooled       *)
(* buffer under a cap, and stop it when the context ends with SIGINT, a    *)
(* grace period and SIGKILL.  The goroutines are main (Run itself), wait   *)
(* (cmd.Wait), watch (the signal goroutine) and the copier that os/exec    *)
(* starts for stdout.  Output is counted in units, time in ticks.          *)
(***************************************************************************)
EXTENDS Integers, FiniteSets

CONSTANTS
    Leader,      \* the tool's process, leader of the group
    Children,    \* descendants in the process group
    Escaped,     \* descendants that left the group, as a daemon does
    Grace,       \* gracefulShutdownTimeout in ticks
    FlushTicks,  \* ticks a process may need to flush after SIGINT
    N,           \* maxOutputBytes in units
    MaxOutput    \* bound: units the processes write while they run

Group == {Leader} \cup Children
Procs == Group \cup Escaped

ASSUME ProcsAssumption ==
    /\ Leader \notin Children \cup Escaped
    /\ Children \cap Escaped = {}
    /\ IsFiniteSet(Procs)

ASSUME BoundsAssumption ==
    /\ Grace \in Nat
    /\ FlushTicks \in Nat
    /\ N \in Nat
    /\ MaxOutput \in Nat

VARIABLES
    mainPc,     \* Run: "start", "running" (blocked on done), "returned"
    ret,        \* what Run returned: "none", "raw" or "error"
    raw,        \* units and Truncated flag of the RawOutput
    ctxDone,    \* the tool's context has ended
    proc,       \* per process: "absent", "running", "flushing", "exited"
    waitPc,     \* the goroutine around cmd.Wait
    watchPc,    \* the signal goroutine
    ticks,      \* ticks since SIGINT was sent
    pipe,       \* units written to the pipe and not read yet
    written,    \* units written to the pipe so far
    buffer,     \* the LimitedWriter: written units and Truncated
    cut,        \* processes killed while they were flushing
    silent,     \* processes that do not hold the stdout pipe (fixed)
    deaf        \* processes that do not react to SIGINT (fixed)

kinds == <<silent, deaf>>
vars == <<kinds, mainPc, ret, raw, ctxDone, proc, waitPc, watchPc, ticks,
          pipe, written, buffer, cut>>

Empty == [units |-> 0, truncated |-> FALSE]

Init ==
    /\ mainPc = "start"
    /\ ret = "none"
    /\ raw = Empty
    /\ ctxDone \in BOOLEAN
    /\ proc = [p \in Procs |-> "absent"]
    /\ waitPc = "idle"
    /\ watchPc = "idle"
    /\ ticks = 0
    /\ pipe = 0
    /\ written = 0
    /\ buffer = Empty
    /\ cut = {}
    /\ silent \in SUBSET (Procs \ {Leader})
    /\ deaf \in SUBSET Procs

Holders == Procs \ silent
Started == waitPc # "idle"
Alive(p) == proc[p] \in {"running", "flushing"}

\* No process can write to the pipe any more and the copier has read it all.
Drained == pipe = 0 /\ \A p \in Holders : ~Alive(p)
-----------------------------------------------------------------------------
(* Run, up to <-done. *)

\* ResolveBinary, VerifyBinary or cmd.Start fails.
Fail ==
    /\ mainPc = "start"
    /\ mainPc' = "returned"
    /\ ret' = "error"
    /\ UNCHANGED <<kinds, raw, ctxDone, proc, waitPc, watchPc, ticks, pipe, written, buffer, cut>>

\* cmd.Start succeeds; the two goroutines are started.  The context is not
\* consulted before the tool runs.
Start ==
    /\ mainPc = "start"
    /\ mainPc' = "running"
    /\ proc' = [proc EXCEPT ![Leader] = "running"]
    /\ waitPc' = "waiting"
    /\ watchPc' = "select"
    /\ UNCHANGED <<kinds, ret, raw, ctxDone, ticks, pipe, written, buffer, cut>>

\* waitErr := <-done, then what Run makes of the buffers and of waitErr: an exit
\* status is no error, and neither is anything once the context has ended.
Finish(waitErr) ==
    /\ mainPc = "running"
    /\ waitPc \in {"sent", "closed"}
    /\ IF ctxDone \/ waitErr # "other"
       THEN ret' = "raw" /\ raw' = buffer
       ELSE ret' = "error" /\ UNCHANGED raw
    /\ mainPc' = "returned"
    /\ UNCHANGED <<kinds, ctxDone, proc, waitPc, watchPc, ticks, pipe, written, buffer, cut>>
-----------------------------------------------------------------------------
(* The goroutine around cmd.Wait and the copier. *)

Reap ==
    /\ waitPc = "waiting"
    /\ proc[Leader] = "exited"
    /\ waitPc' = "reaped"
    /\ UNCHANGED <<kinds, mainPc, ret, raw, ctxDone, proc, watchPc, ticks, pipe, written, buffer, cut>>

\* Faulty variant: done is sent when the process has exited, as with output files
\* or with a WaitDelay that expired.
WaitReturnsEarly ==
    /\ waitPc = "reaped"
    /\ waitPc' = "sent"
    /\ UNCHANGED <<kinds, mainPc, ret, raw, ctxDone, proc, watchPc, ticks, pipe, written, buffer, cut>>

\* cmd.Wait returns when the copier has seen the end of the pipe; then done <- err.
WaitReturns ==
    /\ waitPc = "reaped"
    /\ Drained
    /\ waitPc' = "sent"
    /\ UNCHANGED <<kinds, mainPc, ret, raw, ctxDone, proc, watchPc, ticks, pipe, written, buffer, cut>>

\* Faulty variant: exited is never closed.
CloseExitedNever ==
    /\ waitPc = "sent"
    /\ FALSE
    /\ UNCHANGED vars

CloseExited ==
    /\ waitPc = "sent"
    /\ waitPc' = "closed"
    /\ UNCHANGED <<kinds, mainPc, ret, raw, ctxDone, proc, watchPc, ticks, pipe, written, buffer, cut>>

\* Faulty variant: a write that does not fit is dropped as a whole.
WriteAllOrNothing(b, k) ==
    IF b.units >= N THEN [b EXCEPT !.truncated = TRUE]
    ELSE IF k > N - b.units THEN [b EXCEPT !.truncated = TRUE]
    ELSE [b EXCEPT !.units = @ + k]

\* LimitedWriter.Write of k units: discard, cut, or keep.
Write(b, k) ==
    IF b.units >= N THEN [b EXCEPT !.truncated = TRUE]
    ELSE IF k > N - b.units THEN [units |-> N, truncated |-> TRUE]
    ELSE [b EXCEPT !.units = @ + k]

Copy(k) ==
    /\ k <= pipe
    /\ pipe' = pipe - k
    /\ buffer' = Write(buffer, k)
    /\ UNCHANGED <<kinds, mainPc, ret, raw, ctxDone, proc, waitPc, watchPc, ticks, written, cut>>
-----------------------------------------------------------------------------
(* The signal goroutine. *)

\* kill(-pgid, SIGINT): the processes of the group that handle it start to flush.
Interrupt ==
    /\ watchPc = "select"
    /\ ctxDone
    /\ proc' = [p \in Procs |->
                   IF p \in Group \ deaf /\ proc[p] = "running"
                   THEN "flushing" ELSE proc[p]]
    /\ watchPc' = "grace"
    /\ UNCHANGED <<kinds, mainPc, ret, raw, ctxDone, waitPc, ticks, pipe, written, buffer, cut>>

\* The inner or the outer select sees exited closed.
SeeExited ==
    /\ watchPc \in {"select", "grace"}
    /\ waitPc = "closed"
    /\ watchPc' = "ended"
    /\ UNCHANGED <<kinds, mainPc, ret, raw, ctxDone, proc, waitPc, ticks, pipe, written, buffer, cut>>

\* Faulty variant: SIGKILL does not wait for the timer.
KillAtOnce ==
    /\ watchPc = "grace"
    /\ cut' = cut \cup {p \in Group : proc[p] = "flushing"}
    /\ proc' = [p \in Procs |->
                   IF p \in Group /\ Alive(p) THEN "exited" ELSE proc[p]]
    /\ watchPc' = "ended"
    /\ UNCHANGED <<kinds, mainPc, ret, raw, ctxDone, waitPc, ticks, pipe, written, buffer>>

\* Faulty variant: SIGKILL goes to the tool's process and not to its group.
KillLeaderOnly ==
    /\ watchPc = "grace"
    /\ ticks = Grace
    /\ cut' = cut \cup {p \in {Leader} : proc[p] = "flushing"}
    /\ proc' = [proc EXCEPT ![Leader] = "exited"]
    /\ watchPc' = "ended"
    /\ UNCHANGED <<kinds, mainPc, ret, raw, ctxDone, waitPc, ticks, pipe, written, buffer>>

\* time.After fires: SIGKILL to the group.
Kill ==
    /\ watchPc = "grace"
    /\ ticks = Grace
    /\ cut' = cut \cup {p \in Group : proc[p] = "flushing"}
    /\ proc' = [p \in Procs |->
                   IF p \in Group /\ Alive(p) THEN "exited" ELSE proc[p]]
    /\ watchPc' = "ended"
    /\ UNCHANGED <<kinds, mainPc, ret, raw, ctxDone, waitPc, ticks, pipe, written, buffer>>
-----------------------------------------------------------------------------
(* The processes and the environment. *)

\* A living process of the group starts a descendant; unless it is silent it
\* inherits the pipe, which its parent then must hold.
Fork(p) ==
    /\ p \in Procs \ {Leader}
    /\ proc[p] = "absent"
    /\ \E q \in Group : proc[q] = "running" /\ (p \in Holders => q \in Holders)
    /\ proc' = [proc EXCEPT ![p] = "running"]
    /\ UNCHANGED <<kinds, mainPc, ret, raw, ctxDone, waitPc, watchPc, ticks, pipe, written, buffer, cut>>

Output(p) ==
    /\ proc[p] = "running"
    /\ p \in Holders
    /\ written < MaxOutput
    /\ written' = written + 1
    /\ pipe' = pipe + 1
    /\ UNCHANGED <<kinds, mainPc, ret, raw, ctxDone, proc, waitPc, watchPc, ticks, buffer, cut>>

\* A process ends by itself, with nothing left to write.
Exit(p) ==
    /\ proc[p] = "running"
    /\ proc' = [proc EXCEPT ![p] = "exited"]
    /\ UNCHANGED <<kinds, mainPc, ret, raw, ctxDone, waitPc, watchPc, ticks, pipe, written, buffer, cut>>

\* A process that was interrupted writes what it had buffered and ends.
Flush(p) ==
    /\ proc[p] = "flushing"
    /\ proc' = [proc EXCEPT ![p] = "exited"]
    /\ IF p \in Holders
       THEN written' = written + 1 /\ pipe' = pipe + 1
       ELSE UNCHANGED <<written, pipe>>
    /\ UNCHANGED <<kinds, mainPc, ret, raw, ctxDone, waitPc, watchPc, ticks, buffer, cut>>

\* The tool's deadline (duration + 5s) or the cancellation of the run.
ContextEnds ==
    /\ ~ctxDone
    /\ ctxDone' = TRUE
    /\ UNCHANGED <<kinds, mainPc, ret, raw, proc, waitPc, watchPc, ticks, pipe, written, buffer, cut>>

\* Time passes; a process that flushes is done after FlushTicks.
Tick ==
    /\ watchPc = "grace"
    /\ ticks < Grace
    /\ ticks >= FlushTicks => \A p \in Procs : proc[p] # "flushing"
    /\ ticks' = ticks + 1
    /\ UNCHANGED <<kinds, mainPc, ret, raw, ctxDone, proc, waitPc, watchPc, pipe, written, buffer, cut>>

Finished ==
    /\ mainPc = "returned"
    /\ UNCHANGED vars
-----------------------------------------------------------------------------
WaitErrors == {"nil", "exit", "other"}

MainStep == Fail \/ Start \/ \E e \in WaitErrors : Finish(e)
WaitStep == Reap \/ WaitReturns \/ CloseExited
CopyStep == \E k \in 1..MaxOutput + Cardinality(Procs) : Copy(k)
WatchStep == Interrupt \/ SeeExited \/ Kill

Next ==
    \/ MainStep
    \/ WaitStep
    \/ CopyStep
    \/ WatchStep
    \/ \E p \in Procs : Fork(p) \/ Output(p) \/ Exit(p) \/ Flush(p)
    \/ ContextEnds
    \/ Tick
    \/ Finished

\* The scheduler runs what can run, time passes and an interrupted process ends
\* its flush.  No process has to end by itself: event tracers never do.
Fairness ==
    /\ WF_vars(MainStep)
    /\ WF_vars(WaitStep)
    /\ WF_vars(CopyStep)
    /\ WF_vars(WatchStep)
    /\ \A p \in Procs : WF_vars(Flush(p))
    /\ WF_vars(Tick)

Spec == Init /\ [][Next]_vars /\ Fairness
-----------------------------------------------------------------------------
(* Properties. *)

\* When Run has returned and its deferred Put has given the buffers back to the
\* pool, nothing writes to them any more: the next tool cannot receive output of
\* this one.
BufferQuiet == mainPc = "returned" /\ Started => Drained

\* The RawOutput holds everything the tool and its descendants wrote, up to the
\* cap, and says so exactly when something was cut off.
OutputComplete ==
    ret = "raw" =>
        /\ raw.units = (IF written > N THEN N ELSE written)
        /\ raw.truncated <=> written > N

\* A tool that flushes within the grace period is never killed in the middle of
\* its flush.
FlushKept == FlushTicks < Grace => cut = {}

\* Run outlives the end of its context only while a descendant that left the
\* process group keeps the pipe open.
RunReturns ==
    ctxDone ~> \/ mainPc = "returned"
               \/ [](\E p \in Escaped \cap Holders : Alive(p))

\* No goroutine of a returned Run stays behind.
NoGoroutineLeak ==
    mainPc = "returned" /\ Started ~> waitPc = "closed" /\ watchPc = "ended"
=============================================================================
