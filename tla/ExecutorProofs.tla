--------------------------- MODULE ExecutorProofs ---------------------------
(* Proofs about Executor for any processes, output cap, grace period and     *)
(* amount of output.                                                         *)
EXTENDS Executor, TLAPS

TypeInv ==
    /\ mainPc \in {"start", "running", "returned"}
    /\ ret \in {"none", "raw", "error"}
    /\ ctxDone \in BOOLEAN
    /\ proc \in [Procs -> {"absent", "running", "flushing", "exited"}]
    /\ waitPc \in {"idle", "waiting", "reaped", "sent", "closed"}
    /\ watchPc \in {"idle", "select", "grace", "ended"}
    /\ ticks \in Nat
    /\ pipe \in Nat
    /\ written \in Nat
    /\ silent \subseteq Procs
    /\ buffer \in [units : Nat, truncated : BOOLEAN]

\* Run returns after done was sent, or before anything was started.
MainSound ==
    /\ mainPc = "start" => waitPc = "idle" /\ watchPc = "idle"
    /\ mainPc = "returned" => waitPc \in {"idle", "sent", "closed"}
    /\ ret = "raw" => mainPc = "returned" /\ waitPc \in {"sent", "closed"}

\* cmd.Wait has returned only when nothing can be written any more.
WaitSound == waitPc \in {"sent", "closed"} => Drained

\* The buffer holds what was read from the pipe, up to the cap.
BufferSound ==
    /\ pipe <= written
    /\ buffer.units = (IF written - pipe > N THEN N ELSE written - pipe)
    /\ buffer.truncated <=> written - pipe > N

RawSound == ret = "raw" => raw = buffer

\* SIGINT is sent once, and a process flushes for FlushTicks after it.
GraceSound ==
    /\ watchPc \in {"idle", "select"} => ticks = 0
    /\ watchPc = "grace" /\ ticks > FlushTicks =>
          \A p \in Procs : proc[p] # "flushing"

IInv ==
    /\ TypeInv
    /\ MainSound
    /\ WaitSound
    /\ BufferSound
    /\ RawSound
    /\ GraceSound
    /\ FlushKept
-----------------------------------------------------------------------------
\* Before Run starts the tool nothing is written, read or killed.
LEMMA InitIInv == Init => IInv
<1> SUFFICES ASSUME Init PROVE IInv
  OBVIOUS
<1>1. TypeInv
  BY DEF Init, TypeInv, Empty
<1>2. BufferSound
  BY BoundsAssumption DEF Init, BufferSound, Empty
<1>3. QED
  BY <1>1, <1>2 DEF Init, IInv, MainSound, WaitSound, RawSound, GraceSound, FlushKept

\* LimitedWriter.Write keeps the buffer at what it was given so far, up to the cap.
LEMMA WriteExact ==
    ASSUME NEW b \in [units : Nat, truncated : BOOLEAN], NEW k \in Nat \ {0}, NEW given \in Nat,
           b.units = (IF given > N THEN N ELSE given),
           b.truncated <=> given > N
    PROVE  /\ Write(b, k) \in [units : Nat, truncated : BOOLEAN]
           /\ Write(b, k).units = (IF given + k > N THEN N ELSE given + k)
           /\ Write(b, k).truncated <=> given + k > N
<1>1. N \in Nat
  BY BoundsAssumption
<1>2. CASE b.units >= N
  <2>1. Write(b, k) = [units |-> b.units, truncated |-> TRUE]
    BY <1>2 DEF Write
  <2>2. b.units = N /\ given + k > N
    BY <1>1, <1>2
  <2>3. QED
    BY <1>1, <2>1, <2>2
<1>3. CASE b.units < N /\ k > N - b.units
  BY <1>1, <1>3 DEF Write
<1>4. CASE b.units < N /\ k <= N - b.units
  BY <1>1, <1>4 DEF Write
<1>5. QED
  BY <1>1, <1>2, <1>3, <1>4

\* A step that leaves the pipe, the buffer and the result alone.
LEMMA QuietData ==
    ASSUME IInv, UNCHANGED <<pipe, written, buffer, ret, raw>>
    PROVE  BufferSound' /\ RawSound'
  BY DEF IInv, BufferSound, RawSound

\* The steps of Run: start, fail and finish.
LEMMA MainSteps ==
    ASSUME IInv, MainStep
    PROVE  IInv'
<1> USE DEF IInv, kinds
<1>1. CASE Fail
  <2>1. TypeInv' /\ MainSound' /\ WaitSound'
    BY <1>1 DEF Fail, TypeInv, MainSound, WaitSound, Drained, Holders, Alive
  <2>2. BufferSound' /\ RawSound' /\ GraceSound' /\ FlushKept'
    BY <1>1 DEF Fail, BufferSound, RawSound, GraceSound, FlushKept
  <2>3. QED
    BY <2>1, <2>2
<1>2. CASE Start
  <2>1. TypeInv' /\ MainSound' /\ WaitSound'
    BY <1>2 DEF Start, TypeInv, MainSound, WaitSound, Procs, Group
  <2>2. BufferSound' /\ RawSound' /\ GraceSound' /\ FlushKept'
    BY <1>2, QuietData DEF Start, MainSound, GraceSound, FlushKept
  <2>3. QED
    BY <2>1, <2>2
<1>3. ASSUME NEW e \in WaitErrors, Finish(e)
      PROVE  IInv'
  <2>1. TypeInv' /\ MainSound' /\ WaitSound'
    BY <1>3 DEF Finish, TypeInv, MainSound, WaitSound, Drained, Holders, Alive
  <2>2. BufferSound' /\ GraceSound' /\ FlushKept'
    BY <1>3 DEF Finish, BufferSound, GraceSound, FlushKept
  <2>3. RawSound'
    BY <1>3 DEF Finish, RawSound
  <2>4. QED
    BY <2>1, <2>2, <2>3
<1>4. QED
  BY <1>1, <1>2, <1>3 DEF MainStep

\* The goroutine around cmd.Wait.
LEMMA WaitSteps ==
    ASSUME IInv, WaitStep
    PROVE  IInv'
<1> USE DEF IInv, kinds
<1>1. UNCHANGED <<kinds, mainPc, ret, raw, ctxDone, proc, watchPc, ticks, pipe, written, buffer, cut>>
  BY DEF WaitStep, Reap, WaitReturns, CloseExited
<1>2. TypeInv' /\ MainSound'
  BY <1>1 DEF WaitStep, Reap, WaitReturns, CloseExited, TypeInv, MainSound
<1>3. WaitSound'
  BY <1>1 DEF WaitStep, Reap, WaitReturns, CloseExited, WaitSound, Drained, Holders, Alive
<1>4. BufferSound' /\ RawSound' /\ GraceSound' /\ FlushKept'
  BY <1>1, QuietData DEF GraceSound, FlushKept
<1>5. QED
  BY <1>2, <1>3, <1>4

\* The copier: it has nothing to read once cmd.Wait has returned.
LEMMA CopySteps ==
    ASSUME IInv, NEW k \in Nat \ {0}, Copy(k)
    PROVE  IInv'
<1> USE DEF IInv, kinds
<1>1. /\ pipe' = pipe - k /\ k <= pipe /\ buffer' = Write(buffer, k)
      /\ UNCHANGED <<kinds, mainPc, ret, raw, ctxDone, proc, waitPc, watchPc, ticks, written, cut>>
  BY DEF Copy
<1>2. pipe # 0 /\ waitPc \notin {"sent", "closed"} /\ ret # "raw"
  BY <1>1 DEF WaitSound, Drained, MainSound, TypeInv
<1>3. /\ buffer' \in [units : Nat, truncated : BOOLEAN]
      /\ buffer'.units = (IF written - pipe + k > N THEN N ELSE written - pipe + k)
      /\ buffer'.truncated <=> written - pipe + k > N
  <2>1. written - pipe \in Nat /\ buffer \in [units : Nat, truncated : BOOLEAN]
    BY DEF TypeInv, BufferSound
  <2>2. QED
    BY <1>1, <2>1, WriteExact DEF BufferSound
<1>4. TypeInv'
  BY <1>1, <1>3 DEF TypeInv
<1>5. BufferSound'
  <2>1. written' - pipe' = written - pipe + k /\ pipe' <= written'
    BY <1>1 DEF TypeInv, BufferSound
  <2>2. QED
    BY <1>3, <2>1 DEF BufferSound
<1>6. MainSound' /\ WaitSound' /\ RawSound' /\ GraceSound' /\ FlushKept'
  BY <1>1, <1>2 DEF MainSound, WaitSound, RawSound, GraceSound, FlushKept
<1>7. QED
  BY <1>4, <1>5, <1>6

\* The signal goroutine.  A process that is killed was not flushing: SIGKILL comes
\* after Grace ticks, and a flush is over before.
LEMMA WatchSteps ==
    ASSUME IInv, WatchStep
    PROVE  IInv'
<1> USE DEF IInv, kinds
<1>1. UNCHANGED <<kinds, mainPc, ret, raw, ctxDone, waitPc, ticks, pipe, written, buffer>>
  BY DEF WatchStep, Interrupt, SeeExited, Kill
<1>2. TypeInv' /\ MainSound'
  BY <1>1 DEF WatchStep, Interrupt, SeeExited, Kill, TypeInv, MainSound
<1>3. \A p \in Procs : Alive(p)' => Alive(p)
  BY DEF WatchStep, Interrupt, SeeExited, Kill, TypeInv, Alive
<1>4. WaitSound'
  BY <1>1, <1>3 DEF WaitSound, Drained, Holders
<1>5. BufferSound' /\ RawSound'
  BY <1>1, QuietData
<1>6. GraceSound' /\ FlushKept'
  <2>1. CASE Interrupt
    BY <2>1, BoundsAssumption DEF Interrupt, GraceSound, FlushKept
  <2>2. CASE SeeExited
    BY <2>2 DEF SeeExited, GraceSound, FlushKept
  <2>3. CASE Kill
    <3>1. FlushTicks < Grace => \A p \in Procs : proc[p] # "flushing"
      BY <2>3 DEF Kill, GraceSound
    <3>2. QED
      BY <2>3, <3>1 DEF Kill, GraceSound, FlushKept, Procs
  <2>4. QED
    BY <2>1, <2>2, <2>3 DEF WatchStep
<1>7. QED
  BY <1>2, <1>4, <1>5, <1>6
-----------------------------------------------------------------------------
\* The processes.  Once cmd.Wait has returned no process holds the pipe, and none
\* that does can be forked.
LEMMA ProcessSteps ==
    ASSUME IInv, NEW p \in Procs, Fork(p) \/ Output(p) \/ Exit(p) \/ Flush(p)
    PROVE  IInv'
<1> USE DEF IInv, kinds
<1>1. UNCHANGED <<kinds, mainPc, ret, raw, ctxDone, waitPc, watchPc, ticks, buffer, cut>>
  BY DEF Fork, Output, Exit, Flush
<1>2. TypeInv' /\ MainSound' /\ RawSound' /\ FlushKept'
  BY <1>1 DEF Fork, Output, Exit, Flush, TypeInv, MainSound, RawSound, FlushKept
<1>3. BufferSound'
  <2>1. \/ pipe' = pipe /\ written' = written
        \/ pipe' = pipe + 1 /\ written' = written + 1
    BY DEF Fork, Output, Exit, Flush
  <2>2. written' - pipe' = written - pipe /\ pipe' <= written'
    BY <2>1 DEF TypeInv, BufferSound
  <2>3. QED
    BY <1>1, <2>2 DEF BufferSound
<1>4. WaitSound'
  <2> SUFFICES ASSUME Drained, waitPc \in {"sent", "closed"} PROVE Drained'
    BY <1>1 DEF WaitSound
  <2>1. pipe' = pipe
    BY DEF Fork, Output, Exit, Flush, Drained, Alive
  <2>2. \A q \in Holders : ~Alive(q)'
    BY DEF Fork, Output, Exit, Flush, Drained, Alive, TypeInv, Procs, Holders
  <2>3. QED
    BY <1>1, <2>1, <2>2 DEF Drained, Holders
<1>5. GraceSound'
  BY <1>1 DEF Fork, Output, Exit, Flush, GraceSound, TypeInv
<1>6. QED
  BY <1>2, <1>3, <1>4, <1>5

\* The end of the context, the passage of time, and nothing at all.
LEMMA OtherSteps ==
    ASSUME IInv, ContextEnds \/ Tick \/ Finished \/ UNCHANGED vars
    PROVE  IInv'
<1> USE DEF IInv, kinds
<1>1. UNCHANGED <<kinds, mainPc, ret, raw, proc, waitPc, watchPc, pipe, written, buffer, cut>>
  BY DEF ContextEnds, Tick, Finished, vars
<1>2. TypeInv'
  <2>1. ticks' \in Nat
    BY DEF ContextEnds, Tick, Finished, vars, TypeInv
  <2>2. ctxDone' \in BOOLEAN
    BY DEF ContextEnds, Tick, Finished, vars, TypeInv
  <2>3. QED
    BY <1>1, <2>1, <2>2 DEF TypeInv
<1>3. MainSound' /\ WaitSound' /\ FlushKept'
  BY <1>1 DEF MainSound, WaitSound, FlushKept, Drained, Holders, Alive
<1>4. BufferSound' /\ RawSound'
  BY <1>1, QuietData
<1>5. GraceSound'
  BY <1>1, BoundsAssumption DEF ContextEnds, Tick, Finished, vars, GraceSound, TypeInv
<1>6. QED
  BY <1>2, <1>3, <1>4, <1>5

\* Every step keeps the invariant.
LEMMA StepIInv == IInv /\ [Next]_vars => IInv'
<1> SUFFICES ASSUME IInv, [Next]_vars PROVE IInv'
  OBVIOUS
<1>1. CASE CopyStep
  <2>1. PICK k \in 1..MaxOutput + Cardinality(Procs) : Copy(k)
    BY <1>1 DEF CopyStep
  <2>2. QED
    BY <2>1, CopySteps
<1>2. CASE \E p \in Procs : Fork(p) \/ Output(p) \/ Exit(p) \/ Flush(p)
  BY <1>2, ProcessSteps
<1>3. QED
  BY <1>1, <1>2, MainSteps, WaitSteps, WatchSteps, OtherSteps DEF Next

\* The invariant holds of every reachable state of a call of BCCExecutor.Run.
THEOREM Invariance == Spec => []IInv
<1>1. QED
  BY InitIInv, StepIInv, PTL DEF Spec

\* Nothing writes to the pooled buffers of a call that has returned, whatever its
\* processes fork, survive or ignore.
THEOREM BuffersQuiet == Spec => []BufferQuiet
<1>1. IInv => BufferQuiet
  BY DEF IInv, MainSound, WaitSound, BufferQuiet, Started, TypeInv
<1>2. QED
  BY <1>1, Invariance, PTL

\* RawOutput has all output up to the cap, and Truncated exactly when there was
\* more, for any cap and any way the output is cut into writes.
THEOREM OutputsComplete == Spec => []OutputComplete
<1>1. IInv => OutputComplete
  BY DEF IInv, TypeInv, MainSound, WaitSound, Drained, BufferSound, RawSound, OutputComplete
<1>2. QED
  BY <1>1, Invariance, PTL

\* With a grace period longer than a flush takes no flush is cut off.
THEOREM FlushesKept == Spec => []FlushKept
<1>1. IInv => FlushKept
  BY DEF IInv
<1>2. QED
  BY <1>1, Invariance, PTL
=============================================================================
