-------------------------- MODULE OrchestratorProofs --------------------------
(* Proofs about Orchestrator for any collectors, names and configurations. *)
EXTENDS Orchestrator, FiniteSetTheorems, TLAPS

\* What Available() may answer: a Tier 1 collector always answers 1 and a Tier 2/3
\* collector never does.
AvailSound ==
    /\ \A c \in Light : avail[c] = 1
    /\ \A c \in Heavy : avail[c] # 1

SplitSound ==
    /\ tier1 \subseteq Light
    /\ tier23 \subseteq Heavy

\* Goroutines exist only while runCollectorsParallel runs, each started once.
SpawnSound ==
    /\ runPc # "collect" => Live = {} /\ toSpawn = {}
    /\ runPc \in {"filter", "split", "check"} => phase = 1
    /\ runPc \in {"filter", "split"} => \A c \in Collectors : goroutine[c] = "idle"
    /\ \A c \in toSpawn : goroutine[c] = "idle"

\* Each phase spawns its own tier only.
PhaseSound ==
    /\ phase = 1 => toSpawn \subseteq tier1 /\ \A c \in Heavy : goroutine[c] = "idle"
    /\ phase = 2 => toSpawn \subseteq tier23 /\ \A c \in Light : goroutine[c] \in {"idle", "done"}

\* The WaitGroup counts the goroutines.
Counting == wg = Cardinality(Live)

Discipline ==
    /\ AvailSound
    /\ SplitSound
    /\ SpawnSound
    /\ PhaseSound
    /\ Counting

\* A goroutine that reaches the mutex knows how Collect returned.
OutcomeKnown ==
    \A c \in Collectors :
        goroutine[c] \in {"locking", "appending", "finishing", "done"}
            => outcome[c] # "none"

IInv == TypeOK /\ OutcomeKnown /\ Discipline
-----------------------------------------------------------------------------
\* There are finitely many goroutines: at most one per collector.
LEMMA LiveFinite == IsFiniteSet(Live) /\ Live \subseteq Collectors
<1>1. Live \subseteq Collectors
  BY DEF Live
<1>2. QED
  BY <1>1, TiersAssumption, FS_Subset

\* A fresh result map has the type of a result map.
LEMMA EmptyMapType == EmptyMap \in [Categories -> Seq(Results)]
  BY DEF EmptyMap

\* Run starts in the invariant: no goroutine, nothing split, a counter of zero.
LEMMA InitIInv == Init => IInv
<1> SUFFICES ASSUME Init PROVE IInv
  OBVIOUS
<1>1. Live = {}
  BY DEF Init, Live
<1>2. Counting
  BY <1>1, FS_EmptySet DEF Init, Counting
<1>3. TypeOK
  <2>1. results \in [1..2 -> [Categories -> Seq(Results)]]
    BY EmptyMapType DEF Init
  <2>2. slice \in [Collectors -> Seq(Results)]
    BY DEF Init
  <2>3. cancelled \in BOOLEAN /\ sigDone \in BOOLEAN
    BY DEF Init
  <2>4. DOMAIN report = Categories
    BY DEF Init, EmptyMap
  <2>5. config \in Configs /\ avail \in [Collectors -> 0..3]
    BY DEF Init
  <2>6. /\ goroutine \in [Collectors -> {"idle", "spawned", "collecting",
                            "reading", "locking", "appending", "finishing", "done"}]
        /\ outcome \in [Collectors -> Outcomes \cup {"none"}]
    BY DEF Init
  <2>7. QED
    BY <2>1, <2>2, <2>3, <2>4, <2>5, <2>6 DEF Init, TypeOK
<1>4. AvailSound
  BY TiersAssumption DEF Init, AvailSound, NativeTier, Collectors, Heavy
<1>5. QED
  BY <1>1, <1>2, <1>3, <1>4 DEF Init, IInv, OutcomeKnown, Discipline, SplitSound, SpawnSound, PhaseSound, Collectors, Heavy
-----------------------------------------------------------------------------
(* How the set of goroutines changes. *)

\* A goroutine that moves on inside Collect or around the mutex is still counted.
LEMMA Stays ==
    ASSUME TypeOK, NEW c \in Live,
           NEW x \in {"collecting", "reading", "locking", "appending", "finishing"},
           goroutine' = [goroutine EXCEPT ![c] = x]
    PROVE  Live' = Live
  BY DEF TypeOK, Live

\* The go statement adds one goroutine to the ones the WaitGroup has to count.
LEMMA Enters ==
    ASSUME TypeOK, NEW c \in Collectors, goroutine[c] = "idle",
           goroutine' = [goroutine EXCEPT ![c] = "spawned"]
    PROVE  /\ Live' = Live \cup {c}
           /\ Cardinality(Live') = Cardinality(Live) + 1
<1>1. Live' = Live \cup {c} /\ c \notin Live
  BY DEF TypeOK, Live
<1>2. QED
  BY <1>1, LiveFinite, FS_AddElement

\* The deferred wg.Done() of a goroutine takes exactly that goroutine away.
LEMMA Leaves ==
    ASSUME TypeOK, NEW c \in Live,
           goroutine' = [goroutine EXCEPT ![c] = "done"]
    PROVE  /\ Live' = Live \ {c}
           /\ Cardinality(Live') = Cardinality(Live) - 1
<1>1. Live' = Live \ {c}
  BY DEF TypeOK, Live
<1>2. QED
  BY <1>1, LiveFinite, FS_RemoveElement

\* A step that touches neither the main goroutine nor the collectors' goroutines.
LEMMA OutsideStep ==
    ASSUME IInv, UNCHANGED <<main, avail, wg, goroutine>>
    PROVE  Discipline'
  BY DEF IInv, Discipline, AvailSound, SplitSound, SpawnSound, PhaseSound, Counting, Live, main

\* A collector's goroutine moves on without ending.
LEMMA MiddleStep ==
    ASSUME IInv, NEW c \in Collectors, goroutine[c] \notin {"idle", "done"},
           NEW x \in {"collecting", "reading", "locking", "appending", "finishing"},
           goroutine' = [goroutine EXCEPT ![c] = x],
           UNCHANGED <<main, avail, wg>>
    PROVE  Discipline'
<1> USE DEF IInv, Discipline
<1>1. c \in Live
  BY DEF Live
<1>2. Live' = Live
  BY <1>1, Stays
<1>3. AvailSound' /\ SplitSound' /\ Counting'
  BY <1>2 DEF AvailSound, SplitSound, Counting, main
<1>4. runPc = "collect"
  BY <1>1 DEF SpawnSound
<1>5. SpawnSound'
  BY <1>2, <1>4 DEF SpawnSound, TypeOK, main
<1>6. PhaseSound'
  BY TiersAssumption DEF PhaseSound, TypeOK, main, Collectors, Heavy
<1>7. QED
  BY <1>3, <1>5, <1>6

\* wg.Done() keeps the counter equal to the number of goroutines.
LEMMA DoneStep ==
    ASSUME IInv, NEW c \in Collectors, Done(c)
    PROVE  Discipline'
<1> USE DEF IInv, Discipline
<1>1. c \in Live
  BY DEF Live, Done
<1>2. Live' = Live \ {c} /\ Cardinality(Live') = Cardinality(Live) - 1
  BY <1>1, Leaves DEF Done
<1>3. AvailSound' /\ SplitSound' /\ Counting'
  BY <1>2 DEF AvailSound, SplitSound, Counting, main, Done
<1>4. runPc = "collect"
  BY <1>1 DEF SpawnSound
<1>5. SpawnSound'
  BY <1>2, <1>4 DEF SpawnSound, TypeOK, main, Done
<1>6. PhaseSound'
  BY TiersAssumption DEF PhaseSound, TypeOK, main, Collectors, Heavy, Done
<1>7. QED
  BY <1>3, <1>5, <1>6

\* wg.Add(1) and go keep the counter right and start a collector of this phase.
LEMMA SpawnStep ==
    ASSUME IInv, NEW c \in Collectors, Spawn(c)
    PROVE  Discipline'
<1> USE DEF IInv, Discipline
<1>1. goroutine[c] = "idle"
  BY DEF Spawn, SpawnSound
<1>2. Live' = Live \cup {c} /\ Cardinality(Live') = Cardinality(Live) + 1
  BY <1>1, Enters DEF Spawn
<1>3. AvailSound' /\ SplitSound' /\ Counting'
  BY <1>2 DEF AvailSound, SplitSound, Counting, Spawn
<1>4. SpawnSound'
  BY DEF SpawnSound, TypeOK, Spawn
<1>5. PhaseSound'
  BY TiersAssumption DEF PhaseSound, SplitSound, TypeOK, Collectors, Heavy, Spawn
<1>6. QED
  BY <1>3, <1>4, <1>5

\* The steps of Run that start no goroutine.
LEMMA MainDiscipline ==
    ASSUME IInv,
           filterCollectors \/ SplitTiers \/ WaitReturns \/ CheckInterrupt
             \/ MergeResults \/ Return
    PROVE  Discipline'
<1> USE DEF IInv, Discipline
<1>1. Live' = Live /\ Counting'
  BY DEF Live, Counting, filterCollectors, SplitTiers, WaitReturns, CheckInterrupt,
         MergeResults, Return
<1>2. AvailSound'
  BY DEF AvailSound, filterCollectors, SplitTiers, WaitReturns, CheckInterrupt,
         MergeResults, Return
<1>3. CASE filterCollectors
  BY <1>1, <1>2, <1>3 DEF filterCollectors, SplitSound, SpawnSound, PhaseSound
<1>4. CASE SplitTiers
  <2>1. tier1' \subseteq Light /\ tier23' \subseteq Heavy
    BY <1>4 DEF SplitTiers, AvailSound, TypeOK, Collectors, Heavy
  <2>2. SpawnSound' /\ PhaseSound'
    BY <1>1, <1>4, <2>1 DEF SplitTiers, SpawnSound, PhaseSound, Collectors, Heavy, TypeOK
  <2>3. QED
    BY <1>1, <1>2, <2>1, <2>2 DEF SplitSound
<1>5. CASE WaitReturns
  <2>1. Live = {}
    BY <1>5, LiveFinite, FS_EmptySet DEF WaitReturns, Counting
  <2>2. QED
    BY <1>1, <1>2, <1>5, <2>1 DEF WaitReturns, SplitSound, SpawnSound, PhaseSound
<1>6. CASE CheckInterrupt
  <2>1. \A c \in Collectors : goroutine[c] \in {"idle", "done"}
    BY <1>6 DEF CheckInterrupt, SpawnSound, Live
  <2>2. SpawnSound'
    BY <1>1, <1>6, <2>1 DEF CheckInterrupt, SpawnSound, PhaseSound, SplitSound, Live, TypeOK
  <2>3. PhaseSound'
    BY <1>6, <2>1 DEF CheckInterrupt, PhaseSound, SplitSound, TypeOK, Collectors, Heavy
  <2>4. QED
    BY <1>1, <1>2, <1>6, <2>2, <2>3 DEF CheckInterrupt, SplitSound
<1>7. CASE MergeResults
  BY <1>1, <1>2, <1>7 DEF MergeResults, SplitSound, SpawnSound, PhaseSound
<1>8. CASE Return
  BY <1>1, <1>2, <1>8 DEF Return, SplitSound, SpawnSound, PhaseSound
<1>9. QED
  BY <1>3, <1>4, <1>5, <1>6, <1>7, <1>8
-----------------------------------------------------------------------------
(* Type correctness of a step. *)

\* append of a result under the mutex keeps the type of the maps.
LEMMA AppendType ==
    ASSUME TypeOK, NEW c \in Collectors, AppendAndUnlock(c), goroutine[c] = "appending",
           outcome[c] # "none"
    PROVE  results' \in [1..2 -> [Categories -> Seq(Results)]]
<1>1. CategoryOf[c] \in Categories
  BY DEF Categories
<1>2. CASE outcome[c] = "nil"
  BY <1>2 DEF AppendAndUnlock, TypeOK
<1>3. CASE outcome[c] # "nil"
  <2>1. [collector |-> c, kind |-> outcome[c]] \in Results
    BY <1>3 DEF Results, TypeOK
  <2>2. Append(slice[c], [collector |-> c, kind |-> outcome[c]]) \in Seq(Results)
    BY <2>1 DEF TypeOK
  <2>3. QED
    BY <1>1, <1>3, <2>2 DEF AppendAndUnlock, TypeOK
<1>4. QED
  BY <1>2, <1>3

\* The steps of Run keep the types.
LEMMA MainType ==
    ASSUME IInv, MainStep
    PROVE  TypeOK' /\ OutcomeKnown'
<1> USE DEF IInv
<1>1. CASE filterCollectors
  BY <1>1 DEF TypeOK, OutcomeKnown, filterCollectors
<1>2. CASE SplitTiers
  BY <1>2 DEF TypeOK, OutcomeKnown, SplitTiers
<1>3. ASSUME NEW c \in Collectors, Spawn(c)
      PROVE  TypeOK' /\ OutcomeKnown'
  BY <1>3 DEF TypeOK, OutcomeKnown, Spawn
<1>4. CASE WaitReturns
  BY <1>4 DEF TypeOK, OutcomeKnown, WaitReturns
<1>5. CASE CheckInterrupt
  BY <1>5 DEF TypeOK, OutcomeKnown, CheckInterrupt
<1>6. CASE MergeResults
  <2>1. DOMAIN report' = Categories
    BY <1>6 DEF MergeResults
  <2>2. cancelled' \in BOOLEAN
    BY <1>6 DEF MergeResults
  <2>3. QED
    BY <1>6, <2>1, <2>2 DEF TypeOK, OutcomeKnown, MergeResults
<1>7. CASE Return
  BY <1>7 DEF TypeOK, OutcomeKnown, Return
<1>8. QED
  BY <1>1, <1>2, <1>3, <1>4, <1>5, <1>6, <1>7 DEF MainStep

\* The steps of a collector's goroutine keep the types.
LEMMA CollectorType ==
    ASSUME IInv, NEW c \in Collectors, CollectorStep(c) \/ EventsFull(c)
    PROVE  TypeOK' /\ OutcomeKnown'
<1> USE DEF IInv, main
<1>1. CASE Begin(c)
  BY <1>1 DEF TypeOK, OutcomeKnown, Begin
<1>2. ASSUME NEW how \in Outcomes, CollectReturns(c, how)
      PROVE  TypeOK' /\ OutcomeKnown'
  BY <1>2 DEF TypeOK, OutcomeKnown, CollectReturns, Outcomes
<1>3. CASE StartReading(c)
  BY <1>3 DEF TypeOK, OutcomeKnown, StartReading
<1>4. CASE StopReading(c)
  BY <1>4 DEF TypeOK, OutcomeKnown, StopReading, Outcomes
<1>5. CASE Lock(c)
  <2>1. results[phase][CategoryOf[c]] \in Seq(Results)
    BY DEF TypeOK, Categories
  <2>2. slice' \in [Collectors -> Seq(Results)]
    BY <1>5, <2>1 DEF TypeOK, Lock
  <2>3. QED
    BY <1>5, <2>2 DEF TypeOK, OutcomeKnown, Lock
<1>6. CASE AppendAndUnlock(c)
  <2>1. outcome[c] # "none"
    BY <1>6 DEF AppendAndUnlock, OutcomeKnown
  <2>2. results' \in [1..2 -> [Categories -> Seq(Results)]]
    BY <1>6, <2>1, AppendType DEF AppendAndUnlock
  <2>3. slice' \in [Collectors -> Seq(Results)]
    BY <1>6 DEF TypeOK, AppendAndUnlock
  <2>4. QED
    BY <1>6, <2>2, <2>3 DEF TypeOK, OutcomeKnown, AppendAndUnlock
<1>7. CASE Done(c)
  <2>1. c \in Live
    BY <1>7 DEF Live, Done
  <2>2. wg' \in Nat
    <3>1. Cardinality(Live) # 0
      BY <2>1, LiveFinite, FS_EmptySet
    <3>2. QED
      BY <1>7, <3>1 DEF TypeOK, Discipline, Counting, Done
  <2>3. QED
    BY <1>7, <2>2 DEF TypeOK, OutcomeKnown, Done
<1>8. QED
  BY <1>1, <1>2, <1>3, <1>4, <1>5, <1>6, <1>7 DEF CollectorStep, EventsFull, ReaderClosed

\* Signals, the deadline and the tools on disk.
LEMMA EnvironmentType ==
    ASSUME IInv,
           \/ SignalGoroutine \/ SignalArrives \/ Deadline
           \/ \E c \in Collectors : AvailabilityChanges(c)
           \/ UNCHANGED vars
    PROVE  TypeOK' /\ OutcomeKnown'
<1> USE DEF IInv, main
<1>1. CASE TakeSignal
  BY <1>1 DEF TypeOK, OutcomeKnown, TakeSignal
<1>2. CASE SeeDone
  BY <1>2 DEF TypeOK, OutcomeKnown, SeeDone
<1>3. CASE SignalArrives
  BY <1>3 DEF TypeOK, OutcomeKnown, SignalArrives
<1>4. CASE Deadline
  BY <1>4 DEF TypeOK, OutcomeKnown, Deadline
<1>5. ASSUME NEW c \in Collectors, AvailabilityChanges(c)
      PROVE  TypeOK' /\ OutcomeKnown'
  BY <1>5 DEF TypeOK, OutcomeKnown, AvailabilityChanges, NativeTier
<1>6. CASE UNCHANGED vars
  BY <1>6 DEF TypeOK, OutcomeKnown, vars
<1>7. QED
  BY <1>1, <1>2, <1>3, <1>4, <1>5, <1>6 DEF SignalGoroutine
-----------------------------------------------------------------------------
(* The invariant. *)

\* A tool that appears or vanishes never becomes a Tier 1 collector.
LEMMA AvailabilityStep ==
    ASSUME IInv, NEW c \in Collectors, AvailabilityChanges(c)
    PROVE  Discipline'
<1> USE DEF IInv, Discipline, main
<1>1. AvailSound'
  BY TiersAssumption DEF AvailSound, AvailabilityChanges, NativeTier, TypeOK, Collectors, Heavy
<1>2. QED
  BY <1>1 DEF AvailabilityChanges, SplitSound, SpawnSound, PhaseSound, Counting, Live

\* Every step of Run, of its goroutines and of the environment keeps the invariant.
LEMMA StepIInv == IInv /\ [Next]_vars => IInv'
<1> SUFFICES ASSUME IInv, [Next]_vars PROVE IInv'
  OBVIOUS
<1>1. CASE MainStep
  <2>1. CASE \E c \in Collectors : Spawn(c)
    BY <1>1, <2>1, MainType, SpawnStep DEF IInv
  <2>2. CASE ~ \E c \in Collectors : Spawn(c)
    BY <1>1, <2>2, MainType, MainDiscipline DEF IInv, MainStep
  <2>3. QED
    BY <2>1, <2>2
<1>2. ASSUME NEW c \in Collectors, CollectorStep(c) \/ EventsFull(c)
      PROVE  IInv'
  <2>1. TypeOK' /\ OutcomeKnown'
    BY <1>2, CollectorType
  <2>2. CASE Begin(c)
    BY <2>1, <2>2, MiddleStep DEF Begin, IInv
  <2>3. ASSUME NEW how \in Outcomes, CollectReturns(c, how)
        PROVE  IInv'
    BY <2>1, <2>3, MiddleStep DEF CollectReturns, IInv
  <2>4. CASE StartReading(c)
    BY <2>1, <2>4, MiddleStep DEF StartReading, IInv
  <2>5. CASE StopReading(c)
    BY <2>1, <2>5, MiddleStep DEF StopReading, IInv
  <2>6. CASE Lock(c)
    BY <2>1, <2>6, MiddleStep DEF Lock, IInv
  <2>7. CASE AppendAndUnlock(c)
    BY <2>1, <2>7, MiddleStep DEF AppendAndUnlock, IInv
  <2>8. CASE Done(c)
    BY <2>1, <2>8, DoneStep DEF IInv
  <2>9. QED
    BY <1>2, <2>2, <2>3, <2>4, <2>5, <2>6, <2>7, <2>8
       DEF CollectorStep, EventsFull, ReaderClosed
<1>3. CASE SignalGoroutine \/ SignalArrives \/ Deadline \/ UNCHANGED vars
  <2>1. UNCHANGED <<main, avail, wg, goroutine>>
    BY <1>3 DEF SignalGoroutine, TakeSignal, SeeDone, SignalArrives, Deadline, vars, main
  <2>2. QED
    BY <1>3, <2>1, OutsideStep, EnvironmentType DEF IInv
<1>4. ASSUME NEW c \in Collectors, AvailabilityChanges(c)
      PROVE  IInv'
  BY <1>4, AvailabilityStep, EnvironmentType DEF IInv
<1>5. QED
  BY <1>1, <1>2, <1>3, <1>4 DEF Next, Finished

\* The invariant holds of every reachable state of Run.
THEOREM Invariance == Spec => []IInv
<1>1. QED
  BY InitIInv, StepIInv, PTL DEF Spec

\* Every variable of Run, of its goroutines and of its channels keeps its type; the
\* WaitGroup counter in particular never becomes negative, which would be a panic.
THEOREM TypeCorrect == Spec => []TypeOK
<1>1. IInv => TypeOK
  BY DEF IInv
<1>2. QED
  BY <1>1, Invariance, PTL

\* Phase separation: for any set of collectors, profile, focus and availability, no
\* Tier 2/3 collector has a goroutine while a Tier 1 collector has one.
THEOREM PhaseSeparation == Spec => []NoObserverEffect
<1>1. IInv => NoObserverEffect
  BY DEF IInv, Discipline, PhaseSound, NoObserverEffect, Live, TypeOK
<1>2. QED
  BY <1>1, Invariance, PTL
-----------------------------------------------------------------------------
(* The result maps. *)

\* The goroutine that appends holds the mutex, and the slice it read is current.
MutexSound ==
    \A c \in Collectors : goroutine[c] = "appending" =>
        /\ mu = c
        /\ slice[c] = results[phase][CategoryOf[c]]

RInv == IInv /\ MutexSound /\ ResultsExact

\* A step that leaves the maps and the outcomes alone, and appends nothing, leaves
\* the results exact.
LEMMA ExactStays ==
    ASSUME ResultsExact, results' = results, Appended' = Appended,
           \A c \in Appended : outcome'[c] = outcome[c]
    PROVE  ResultsExact'
<1>1. NoStranger'
  BY DEF ResultsExact, NoStranger
<1>2. NoLoss'
  BY DEF ResultsExact, NoLoss
<1>3. NoDouble'
  BY DEF ResultsExact, NoDouble
<1>4. QED
  BY <1>1, <1>2, <1>3 DEF ResultsExact

\* Before the first collector the maps are empty and the mutex is free.
LEMMA InitRInv == Init => RInv
<1> SUFFICES ASSUME Init PROVE RInv
  OBVIOUS
<1>1. Appended = {}
  BY DEF Init, Appended
<1>2. \A p \in 1..2, cat \in Categories : Len(results[p][cat]) = 0
  BY DEF Init, EmptyMap
<1>3. NoStranger /\ NoLoss /\ NoDouble
  BY <1>1, <1>2 DEF NoStranger, NoLoss, NoDouble
<1>4. MutexSound
  BY DEF Init, MutexSound
<1>5. QED
  BY <1>3, <1>4, InitIInv DEF RInv, ResultsExact

\* Two places of the maps that hold the same collector are the same place.
LEMMA SamePlace ==
    ASSUME NoDouble, NEW p \in 1..2, NEW q \in 1..2, NEW k \in Categories,
           NEW i \in 1..Len(results[p][k]), NEW j \in 1..Len(results[q][k]),
           results[p][k][i].collector = results[q][k][j].collector
    PROVE  p = q /\ i = j
  BY DEF NoDouble

\* The write half of the append under the mutex.
LEMMA AppendStep ==
    ASSUME RInv, NEW c \in Collectors, AppendAndUnlock(c)
    PROVE  ResultsExact'
<1> DEFINE cat == CategoryOf[c]
           r == [collector |-> c, kind |-> outcome[c]]
           old == results[phase][cat]
<1>1. /\ TypeOK /\ OutcomeKnown /\ NoStranger /\ NoLoss /\ NoDouble
      /\ cat \in Categories /\ phase \in 1..2 /\ slice[c] = old
      /\ old \in Seq(Results) /\ goroutine[c] = "appending"
  BY DEF RInv, IInv, ResultsExact, MutexSound, AppendAndUnlock, TypeOK, Categories
<1>2. c \notin Appended
  BY <1>1 DEF Appended
<1>3. CASE outcome[c] = "nil"
  <2>1. Appended' = Appended
    BY <1>1, <1>3 DEF Appended, AppendAndUnlock, TypeOK
  <2>2. QED
    BY <1>3, <2>1, ExactStays DEF AppendAndUnlock, RInv
<1>4. CASE outcome[c] # "nil"
  <2>1. Appended' = Appended \cup {c}
    BY <1>1, <1>4 DEF Appended, AppendAndUnlock, TypeOK
  <2>2. r \in Results
    BY <1>1, <1>4 DEF Results, TypeOK, OutcomeKnown
  <2>3. results'[phase][cat] = Append(old, r)
    BY <1>1, <1>4 DEF AppendAndUnlock, TypeOK
  <2>4. \A p \in 1..2, k \in Categories :
           p # phase \/ k # cat => results'[p][k] = results[p][k]
    BY <1>1, <1>4 DEF AppendAndUnlock, TypeOK
  <2>5. /\ Len(results'[phase][cat]) = Len(old) + 1
        /\ results'[phase][cat][Len(old) + 1] = r
        /\ \A i \in 1..Len(old) : results'[phase][cat][i] = old[i]
        /\ Len(old) \in Nat
    BY <1>1, <2>2, <2>3
  <2>6. outcome' = outcome
    BY DEF AppendAndUnlock
  <2>7. NoStranger'
    <3> SUFFICES ASSUME NEW p \in 1..2, NEW k \in Categories,
                        NEW i \in 1..Len(results'[p][k])
                 PROVE  /\ results'[p][k][i].collector \in Appended'
                        /\ CategoryOf[results'[p][k][i].collector] = k
                        /\ results'[p][k][i].kind = outcome'[results'[p][k][i].collector]
      BY DEF NoStranger
    <3>1. CASE p = phase /\ k = cat /\ i \in 1..Len(old)
      <4>1. results'[p][k][i] = results[p][k][i] /\ i \in 1..Len(results[p][k])
        BY <2>5, <3>1
      <4>2. QED
        BY <1>1, <2>1, <2>6, <4>1 DEF NoStranger
    <3>2. CASE p = phase /\ k = cat /\ i \notin 1..Len(old)
      <4>1. i = Len(old) + 1
        BY <2>5, <3>2
      <4>2. results'[p][k][i] = r
        BY <2>5, <3>2, <4>1
      <4>3. QED
        BY <2>1, <2>6, <3>2, <4>2
    <3>3. CASE p # phase \/ k # cat
      <4>1. results'[p][k] = results[p][k]
        BY <2>4, <3>3
      <4>2. QED
        BY <1>1, <2>1, <2>6, <4>1 DEF NoStranger
    <3>4. QED
      BY <3>1, <3>2, <3>3
  <2>8. NoLoss'
    <3> SUFFICES ASSUME NEW d \in Appended'
                 PROVE  \E p \in 1..2 : \E i \in 1..Len(results'[p][CategoryOf[d]]) :
                           results'[p][CategoryOf[d]][i].collector = d
      BY DEF NoLoss
    <3>1. CASE d = c
      <4>1. Len(old) + 1 \in 1..Len(results'[phase][cat])
        BY <2>5
      <4>2. results'[phase][cat][Len(old) + 1].collector = c
        BY <2>5
      <4>3. QED
        BY <1>1, <3>1, <4>1, <4>2
    <3>2. CASE d # c
      <4>1. PICK p \in 1..2, i \in Nat : /\ i \in 1..Len(results[p][CategoryOf[d]])
                                        /\ results[p][CategoryOf[d]][i].collector = d
        BY <1>1, <2>1, <3>2 DEF NoLoss
      <4>2. CategoryOf[d] \in Categories
        BY <2>1, <3>2 DEF Appended, Categories
      <4>3. CASE p = phase /\ CategoryOf[d] = cat
        <5>1. i \in 1..Len(old) /\ old[i].collector = d
          BY <4>1, <4>3
        <5>2. i \in 1..Len(results'[p][CategoryOf[d]])
          BY <2>5, <4>3, <5>1
        <5>3. results'[p][CategoryOf[d]][i].collector = d
          BY <2>5, <4>3, <5>1
        <5>4. QED
          BY <5>2, <5>3
      <4>4. CASE p # phase \/ CategoryOf[d] # cat
        BY <2>4, <4>1, <4>2, <4>4
      <4>5. QED
        BY <4>3, <4>4
    <3>3. QED
      BY <3>1, <3>2
  <2>9. NoDouble'
    <3> SUFFICES ASSUME NEW p \in 1..2, NEW q \in 1..2, NEW k \in Categories,
                        NEW i \in 1..Len(results'[p][k]), NEW j \in 1..Len(results'[q][k]),
                        results'[p][k][i].collector = results'[q][k][j].collector
                 PROVE  p = q /\ i = j
      BY DEF NoDouble
    <3>1. ASSUME NEW x \in 1..2, NEW y \in 1..Len(results'[x][k]),
                 x # phase \/ k # cat \/ y # Len(old) + 1
          PROVE  /\ y \in 1..Len(results[x][k])
                 /\ results'[x][k][y] = results[x][k][y]
                 /\ results'[x][k][y].collector # c
      <4>1. CASE x # phase \/ k # cat
        <5>1. results'[x][k] = results[x][k]
          BY <2>4, <4>1
        <5>2. results[x][k][y].collector \in Appended
          BY <1>1, <5>1 DEF NoStranger
        <5>3. QED
          BY <1>2, <5>1, <5>2
      <4>2. CASE x = phase /\ k = cat
        <5>1. y \in 1..Len(old)
          <6>1. Len(results'[x][k]) = Len(old) + 1
            BY <2>5, <4>2
          <6>2. y \in 1..Len(old) + 1
            BY <6>1
          <6>3. y # Len(old) + 1
            BY <3>1, <4>2
          <6>4. Len(old) \in Nat
            BY <2>5
          <6>5. QED
            BY <6>2, <6>3, <6>4
        <5>2. results'[x][k][y] = results[x][k][y]
          BY <2>5, <4>2, <5>1
        <5>3. results[x][k][y].collector \in Appended
          BY <1>1, <4>2, <5>1 DEF NoStranger
        <5>4. QED
          BY <1>2, <4>2, <5>1, <5>2, <5>3
      <4>3. QED
        BY <4>1, <4>2
    <3>2. ASSUME NEW x \in 1..2, NEW y \in 1..Len(results'[x][k]),
                 x = phase, k = cat, y = Len(old) + 1
          PROVE  results'[x][k][y].collector = c
      BY <2>5, <3>2
    <3>3. CASE p = phase /\ k = cat /\ i = Len(old) + 1
      BY <3>1, <3>2, <3>3
    <3>4. CASE p # phase \/ k # cat \/ i # Len(old) + 1
      <4>1. q # phase \/ k # cat \/ j # Len(old) + 1
        BY <3>1, <3>2, <3>4
      <4>2. results[p][k][i].collector = results[q][k][j].collector
        BY <3>1, <3>4, <4>1
      <4>3. i \in 1..Len(results[p][k]) /\ j \in 1..Len(results[q][k])
        BY <3>1, <3>4, <4>1
      <4>4. NoDouble
        BY <1>1
      <4>5. QED
        BY <4>2, <4>3, <4>4, SamePlace
    <3>5. QED
      BY <3>3, <3>4
  <2>10. QED
    BY <2>7, <2>8, <2>9 DEF ResultsExact
<1>5. QED
  BY <1>3, <1>4

\* The steps of Run leave the maps, the mutex and what was appended alone.
LEMMA MainMaps ==
    ASSUME RInv, MainStep
    PROVE  MutexSound' /\ ResultsExact'
<1> USE DEF RInv, IInv
<1>1. CASE \E c \in Collectors : Spawn(c)
  <2>1. PICK c \in Collectors : Spawn(c)
    BY <1>1
  <2>2. goroutine[c] = "idle"
    BY <2>1 DEF Discipline, SpawnSound, Spawn
  <2>3. Appended' = Appended
    BY <2>1, <2>2 DEF Appended, Spawn, TypeOK
  <2>4. MutexSound'
    BY <2>1 DEF MutexSound, Spawn, TypeOK
  <2>5. QED
    BY <2>1, <2>3, <2>4, ExactStays DEF Spawn
<1>2. CASE CheckInterrupt
  <2>1. \A c \in Collectors : goroutine[c] # "appending"
    BY <1>2 DEF CheckInterrupt, Discipline, SpawnSound, Live
  <2>2. MutexSound'
    BY <1>2, <2>1 DEF MutexSound, CheckInterrupt
  <2>3. Appended' = Appended
    BY <1>2 DEF Appended, CheckInterrupt
  <2>4. QED
    BY <1>2, <2>2, <2>3, ExactStays DEF CheckInterrupt
<1>3. CASE filterCollectors \/ SplitTiers \/ WaitReturns \/ MergeResults \/ Return
  <2>1. UNCHANGED <<phase, goroutine, outcome, mu, slice, results>>
    BY <1>3 DEF filterCollectors, SplitTiers, WaitReturns, MergeResults, Return
  <2>2. Appended' = Appended /\ MutexSound'
    BY <2>1 DEF Appended, MutexSound
  <2>3. QED
    BY <2>1, <2>2, ExactStays
<1>4. QED
  BY <1>1, <1>2, <1>3 DEF MainStep

\* Two goroutines never append at once: the mutex is free when one locks it, and
\* the one that unlocks it was alone.
LEMMA CollectorMaps ==
    ASSUME RInv, NEW c \in Collectors, CollectorStep(c) \/ EventsFull(c)
    PROVE  MutexSound' /\ ResultsExact'
<1> USE DEF RInv, IInv, main
<1>1. CASE Begin(c)
  <2>1. Appended' = Appended /\ MutexSound'
    BY <1>1 DEF Appended, MutexSound, Begin, TypeOK
  <2>2. QED
    BY <1>1, <2>1, ExactStays DEF Begin
<1>2. ASSUME NEW how \in Outcomes, CollectReturns(c, how)
      PROVE  MutexSound' /\ ResultsExact'
  <2>1. Appended' = Appended /\ c \notin Appended
    BY <1>2 DEF Appended, CollectReturns, TypeOK
  <2>2. MutexSound'
    BY <1>2 DEF MutexSound, CollectReturns, TypeOK
  <2>3. \A d \in Appended : outcome'[d] = outcome[d]
    BY <1>2, <2>1 DEF CollectReturns, TypeOK, Appended
  <2>4. QED
    BY <1>2, <2>1, <2>2, <2>3, ExactStays DEF CollectReturns
<1>3. CASE StartReading(c)
  <2>1. Appended' = Appended /\ MutexSound'
    BY <1>3 DEF Appended, MutexSound, StartReading, TypeOK
  <2>2. QED
    BY <1>3, <2>1, ExactStays DEF StartReading
<1>4. CASE StopReading(c)
  <2>1. Appended' = Appended /\ c \notin Appended
    BY <1>4 DEF Appended, StopReading, TypeOK
  <2>2. MutexSound'
    BY <1>4 DEF MutexSound, StopReading, TypeOK
  <2>3. \A d \in Appended : outcome'[d] = outcome[d]
    BY <1>4, <2>1 DEF StopReading, TypeOK, Appended
  <2>4. QED
    BY <1>4, <2>1, <2>2, <2>3, ExactStays DEF StopReading
<1>5. CASE Lock(c)
  <2>1. \A d \in Collectors : goroutine[d] # "appending"
    BY <1>5, TiersAssumption DEF MutexSound, Lock
  <2>2. MutexSound'
    BY <1>5, <2>1 DEF MutexSound, Lock, TypeOK
  <2>3. Appended' = Appended
    BY <1>5 DEF Appended, Lock, TypeOK
  <2>4. QED
    BY <1>5, <2>2, <2>3, ExactStays DEF Lock
<1>6. CASE AppendAndUnlock(c)
  <2>1. \A d \in Collectors : goroutine[d] = "appending" => d = c
    BY <1>6 DEF MutexSound, AppendAndUnlock
  <2>2. MutexSound'
    BY <1>6, <2>1 DEF MutexSound, AppendAndUnlock, TypeOK
  <2>3. QED
    BY <1>6, <2>2, AppendStep
<1>7. CASE Done(c)
  <2>1. Appended' = Appended /\ MutexSound'
    BY <1>7 DEF Appended, MutexSound, Done, TypeOK
  <2>2. QED
    BY <1>7, <2>1, ExactStays DEF Done
<1>8. QED
  BY <1>1, <1>2, <1>3, <1>4, <1>5, <1>6, <1>7 DEF CollectorStep, EventsFull, ReaderClosed

\* Every step keeps the mutex discipline and, with it, the results exact.
LEMMA StepRInv == RInv /\ [Next]_vars => RInv'
<1> SUFFICES ASSUME RInv, [Next]_vars PROVE RInv'
  OBVIOUS
<1>1. IInv'
  BY StepIInv DEF RInv
<1>2. CASE MainStep
  BY <1>1, <1>2, MainMaps DEF RInv
<1>3. ASSUME NEW c \in Collectors, CollectorStep(c) \/ EventsFull(c)
      PROVE  RInv'
  BY <1>1, <1>3, CollectorMaps DEF RInv
<1>4. CASE \/ SignalGoroutine \/ SignalArrives \/ Deadline \/ UNCHANGED vars
           \/ \E c \in Collectors : AvailabilityChanges(c)
  <2>1. UNCHANGED <<phase, goroutine, outcome, mu, slice, results>>
    BY <1>4 DEF SignalGoroutine, TakeSignal, SeeDone, SignalArrives, Deadline,
                AvailabilityChanges, vars, main
  <2>2. Appended' = Appended /\ MutexSound'
    BY <2>1 DEF Appended, MutexSound, RInv
  <2>3. ResultsExact'
    BY <2>1, <2>2, ExactStays DEF RInv
  <2>4. QED
    BY <1>1, <2>2, <2>3 DEF RInv
<1>5. QED
  BY <1>2, <1>3, <1>4 DEF Next, Finished

\* No interleaving of any number of collectors loses, doubles or misplaces a result
\* in the maps that runCollectorsParallel returns.
THEOREM ResultsNeverLost == Spec => []ResultsExact
<1>1. RInv => ResultsExact
  BY DEF RInv
<1>2. QED
  BY <1>1, InitRInv, StepRInv, PTL DEF Spec
-----------------------------------------------------------------------------
(* The sort of the report. *)

Named(s) == \A i \in 1..Len(s) : Rank[s[i].collector] \in Nat

\* The results a category may hold have collectors, and collectors have names.
LEMMA ResultsNamed ==
    ASSUME NEW s \in Seq(Results)
    PROVE  Named(s)
<1>1. \A i \in 1..Len(s) : s[i] \in Results
  OBVIOUS
<1>2. \A r \in Results : r.collector \in Collectors
  BY DEF Results
<1>3. QED
  BY <1>1, <1>2, NamesAssumption DEF Named

\* Of two places one goes before the other, and so does all that goes before it.
LEMMA BeforeOrdered ==
    ASSUME NEW s, Len(s) \in Nat, Named(s),
           NEW i \in 1..Len(s), NEW j \in 1..Len(s), i # j
    PROVE  /\ i \in Before(s, j) \/ j \in Before(s, i)
           /\ i \in Before(s, j) =>
                 /\ Rank[s[i].collector] <= Rank[s[j].collector]
                 /\ Before(s, i) \subseteq Before(s, j)
           /\ i \notin Before(s, i)
<1> DEFINE rank(k) == Rank[s[k].collector]
<1>1. \A k \in 1..Len(s) : rank(k) \in Nat
  BY DEF Named
<1>2. \A k, l \in 1..Len(s) :
         k \in Before(s, l) <=> rank(k) < rank(l) \/ (rank(k) = rank(l) /\ k < l)
  BY DEF Before
<1>3. \A k : Before(s, k) \subseteq 1..Len(s)
  BY DEF Before
<1> HIDE DEF rank
<1>4. i \in Before(s, j) \/ j \in Before(s, i)
  BY <1>1, <1>2
<1>5. i \in Before(s, j) => rank(i) <= rank(j)
  BY <1>1, <1>2
<1>6. ASSUME i \in Before(s, j), NEW k \in Before(s, i) PROVE k \in Before(s, j)
  <2>1. k \in 1..Len(s)
    BY <1>3
  <2>2. rank(k) < rank(i) \/ (rank(k) = rank(i) /\ k < i)
    BY <1>2, <2>1
  <2>3. rank(i) < rank(j) \/ (rank(i) = rank(j) /\ i < j)
    BY <1>2, <1>6
  <2>4. rank(k) \in Nat /\ rank(i) \in Nat /\ rank(j) \in Nat
    BY <1>1, <2>1
  <2>5. rank(k) < rank(j) \/ (rank(k) = rank(j) /\ k < j)
    BY <2>1, <2>2, <2>3, <2>4
  <2>6. QED
    BY <1>2, <2>1, <2>5
<1>7. i \notin Before(s, i)
  BY <1>1, <1>2
<1>8. QED
  BY <1>4, <1>5, <1>6, <1>7 DEF rank

\* There are n places, whether the first one is 1 or 0.
LEMMA Places ==
    ASSUME NEW n \in Nat
    PROVE  /\ IsFiniteSet(1..n) /\ Cardinality(1..n) = n
           /\ IsFiniteSet(0..(n - 1)) /\ Cardinality(0..(n - 1)) = n
<1>1. 1 \in Int /\ 0 \in Int /\ n \in Int /\ n - 1 \in Int
  OBVIOUS
<1>2. /\ IsFiniteSet(1..n)
      /\ Cardinality(1..n) = IF 1 > n THEN 0 ELSE n - 1 + 1
  BY <1>1, FS_Interval
<1>3. /\ IsFiniteSet(0..(n - 1))
      /\ Cardinality(0..(n - 1)) = IF 0 > n - 1 THEN 0 ELSE (n - 1) - 0 + 1
  BY <1>1, FS_Interval
<1>4. QED
  BY <1>2, <1>3

\* How many places go before a place: fewer than there are.
LEMMA BeforeCount ==
    ASSUME NEW s, Len(s) \in Nat, Named(s), NEW i \in 1..Len(s)
    PROVE  /\ IsFiniteSet(Before(s, i))
           /\ Cardinality(Before(s, i)) \in 0..(Len(s) - 1)
<1>1. IsFiniteSet(1..Len(s)) /\ Cardinality(1..Len(s)) = Len(s)
  BY Places
<1>2. Before(s, i) \subseteq 1..Len(s) /\ i \notin Before(s, i)
  BY DEF Before, Named
<1>3. /\ IsFiniteSet(Before(s, i))
      /\ Cardinality(Before(s, i)) <= Len(s)
      /\ Cardinality(Before(s, i)) # Len(s)
      /\ Cardinality(Before(s, i)) \in Nat
  BY <1>1, <1>2, FS_Subset, FS_CardinalityType
<1>4. QED
  BY <1>3

\* More go before the later one of two places.
LEMMA BeforeGrows ==
    ASSUME NEW s, Len(s) \in Nat, Named(s),
           NEW i \in 1..Len(s), NEW j \in 1..Len(s), i \in Before(s, j)
    PROVE  Cardinality(Before(s, i)) < Cardinality(Before(s, j))
<1>1. j \notin Before(s, j)
  BY DEF Before, Named
<1>2. i # j
  BY <1>1
<1>3. Before(s, i) \subseteq Before(s, j) /\ i \notin Before(s, i)
  BY <1>2, BeforeOrdered
<1>4. IsFiniteSet(Before(s, i)) /\ IsFiniteSet(Before(s, j))
  BY BeforeCount
<1>5. /\ Cardinality(Before(s, i)) <= Cardinality(Before(s, j))
      /\ Cardinality(Before(s, i)) # Cardinality(Before(s, j))
      /\ Cardinality(Before(s, i)) \in Nat /\ Cardinality(Before(s, j)) \in Nat
  BY <1>3, <1>4, FS_Subset, FS_CardinalityType
<1>6. QED
  BY <1>5

\* Every count below the length is the count of one place.
LEMMA BeforeAll ==
    ASSUME NEW s, Len(s) \in Nat, Named(s), NEW k \in 1..Len(s)
    PROVE  \E i \in 1..Len(s) : Cardinality(Before(s, i)) = k - 1
<1> DEFINE n == Len(s)
           count == [i \in 1..n |-> Cardinality(Before(s, i))]
<1>1. count \in [1..n -> 0..(n - 1)]
  BY BeforeCount
<1>2. \A i, j \in 1..n : count[i] = count[j] => i = j
  <2> SUFFICES ASSUME NEW i \in 1..n, NEW j \in 1..n, i # j PROVE count[i] # count[j]
    OBVIOUS
  <2>1. i \in Before(s, j) \/ j \in Before(s, i)
    BY BeforeOrdered
  <2>2. /\ Cardinality(Before(s, i)) \in Nat /\ Cardinality(Before(s, j)) \in Nat
        /\ count[i] = Cardinality(Before(s, i)) /\ count[j] = Cardinality(Before(s, j))
    BY BeforeCount
  <2>3. Cardinality(Before(s, i)) # Cardinality(Before(s, j))
    BY <2>1, <2>2, BeforeGrows
  <2>4. QED
    BY <2>2, <2>3
<1> HIDE DEF count
<1>3. count \in Injection(1..n, 0..(n - 1))
  BY <1>1, <1>2 DEF Injection, IsInjective
<1>4. /\ IsFiniteSet(1..n) /\ Cardinality(1..n) = n
      /\ IsFiniteSet(0..(n - 1)) /\ Cardinality(0..(n - 1)) = n
  BY Places
<1>5. count \in Surjection(1..n, 0..(n - 1))
  BY <1>3, <1>4, FS_Injection
<1>6. k - 1 \in 0..(n - 1)
  OBVIOUS
<1>7. PICK i \in 1..n : count[i] = k - 1
  BY <1>5, <1>6 DEF Surjection
<1>8. QED
  BY <1>7 DEF count

\* What SortByName returns: the elements of s, each once, names in order.
LEMMA SortByNameSorts ==
    ASSUME NEW s, Len(s) \in Nat, Named(s)
    PROVE  /\ Len(SortByName(s)) = Len(s)
           /\ \E p \in [1..Len(s) -> 1..Len(s)] :
                 /\ \A k \in 1..Len(s) : SortByName(s)[k] = s[p[k]]
                 /\ \A i \in 1..Len(s) : \E k \in 1..Len(s) : p[k] = i
                 /\ \A k \in 1..Len(s) - 1 :
                       /\ p[k] # p[k + 1]
                       /\ Rank[s[p[k]].collector] <= Rank[s[p[k + 1]].collector]
<1> DEFINE n == Len(s)
           p == [k \in 1..n |-> CHOOSE i \in 1..n : Cardinality(Before(s, i)) = k - 1]
<1>1. \A k \in 1..n : p[k] \in 1..n /\ Cardinality(Before(s, p[k])) = k - 1
  BY BeforeAll
<1>2. \A k \in 1..n : SortByName(s)[k] = s[p[k]]
  BY DEF SortByName
<1>3. Len(SortByName(s)) = n
  BY DEF SortByName
<1>4. p \in [1..n -> 1..n]
  BY <1>1
<1> HIDE DEF p
<1>5. \A i \in 1..n : \E k \in 1..n : p[k] = i
  <2> SUFFICES ASSUME NEW i \in 1..n PROVE \E k \in 1..n : p[k] = i
    OBVIOUS
  <2> DEFINE k == Cardinality(Before(s, i)) + 1
  <2>1. k \in 1..n /\ Cardinality(Before(s, i)) = k - 1 /\ k - 1 \in Nat
    BY BeforeCount
  <2> HIDE DEF k
  <2>2. p[k] \in 1..n /\ Cardinality(Before(s, p[k])) = Cardinality(Before(s, i))
    BY <1>1, <2>1
  <2>3. ASSUME p[k] # i PROVE FALSE
    <3>1. p[k] \in Before(s, i) \/ i \in Before(s, p[k])
      BY <2>2, <2>3, BeforeOrdered
    <3>2. Cardinality(Before(s, i)) \in Nat
      BY BeforeCount
    <3>3. QED
      BY <2>2, <3>1, <3>2, BeforeGrows
  <2>4. QED
    BY <2>1, <2>3
<1>6. ASSUME NEW k \in 1..n - 1
      PROVE  p[k] # p[k + 1] /\ Rank[s[p[k]].collector] <= Rank[s[p[k + 1]].collector]
  <2>1. k \in 1..n /\ k + 1 \in 1..n /\ (k + 1) - 1 = k
    OBVIOUS
  <2>2. /\ p[k] \in 1..n /\ Cardinality(Before(s, p[k])) = k - 1
        /\ p[k + 1] \in 1..n /\ Cardinality(Before(s, p[k + 1])) = k
    BY <1>1, <2>1
  <2>3. p[k] # p[k + 1]
    BY <2>1, <2>2
  <2>4. p[k + 1] \notin Before(s, p[k])
    <3>1. ASSUME p[k + 1] \in Before(s, p[k]) PROVE k < k - 1
      BY <2>2, <3>1, BeforeGrows
    <3>2. QED
      BY <3>1
  <2>5. p[k] \in Before(s, p[k + 1])
    BY <2>2, <2>3, <2>4, BeforeOrdered
  <2>6. QED
    BY <2>2, <2>3, <2>5, BeforeOrdered
<1>7. QED
  BY <1>2, <1>3, <1>4, <1>5, <1>6

Merged(cat) == results[1][cat] \o results[2][cat]
ResultOf(c) == [collector |-> c, kind |-> outcome[c]]

\* An element of the merged maps is an element of one of the two.
LEMMA MergedPlaces ==
    ASSUME RInv, NEW cat \in Categories
    PROVE  /\ Merged(cat) \in Seq(Results) /\ Len(Merged(cat)) \in Nat
           /\ Len(Merged(cat)) = Len(results[1][cat]) + Len(results[2][cat])
           /\ Len(results[1][cat]) \in Nat /\ Len(results[2][cat]) \in Nat
           /\ \A i \in 1..Len(results[1][cat]) : Merged(cat)[i] = results[1][cat][i]
           /\ \A j \in 1..Len(results[2][cat]) :
                 Merged(cat)[Len(results[1][cat]) + j] = results[2][cat][j]
<1> DEFINE a == results[1][cat]
           b == results[2][cat]
<1>1. a \in Seq(Results) /\ b \in Seq(Results)
  BY DEF RInv, IInv, TypeOK
<1> HIDE DEF a, b
<1>2. /\ a \o b \in Seq(Results) /\ Len(a \o b) \in Nat
      /\ Len(a \o b) = Len(a) + Len(b) /\ Len(a) \in Nat /\ Len(b) \in Nat
      /\ \A i \in 1..Len(a) : (a \o b)[i] = a[i]
      /\ \A j \in 1..Len(b) : (a \o b)[Len(a) + j] = b[j]
  <2>1. /\ a \o b \in Seq(Results) /\ Len(a \o b) \in Nat
        /\ Len(a \o b) = Len(a) + Len(b) /\ Len(a) \in Nat /\ Len(b) \in Nat
    BY <1>1
  <2>2. \A i \in 1..Len(a) : (a \o b)[i] = a[i]
    BY <1>1
  <2>3. ASSUME NEW j \in 1..Len(b) PROVE (a \o b)[Len(a) + j] = b[j]
    BY <1>1
  <2>4. QED
    BY <2>1, <2>2, <2>3
<1>3. QED
  BY <1>2 DEF a, b, Merged

\* Where an element of the merged maps comes from.
LEMMA MergedFrom ==
    ASSUME RInv, NEW cat \in Categories, NEW i \in 1..Len(Merged(cat))
    PROVE  \E q \in 1..2 : \E j \in 1..Len(results[q][cat]) :
              /\ Merged(cat)[i] = results[q][cat][j]
              /\ i = IF q = 1 THEN j ELSE Len(results[1][cat]) + j
<1> DEFINE l == Len(results[1][cat])
           m == Len(results[2][cat])
<1>1. /\ l \in Nat /\ m \in Nat /\ i \in 1..(l + m)
      /\ \A x \in 1..l : Merged(cat)[x] = results[1][cat][x]
      /\ \A x \in 1..m : Merged(cat)[l + x] = results[2][cat][x]
  BY MergedPlaces
<1> HIDE DEF l, m
<1>2. CASE i <= l
  <2>1. i \in 1..l
    BY <1>1, <1>2
  <2>2. i \in 1..Len(results[1][cat]) /\ Merged(cat)[i] = results[1][cat][i] /\ 1 \in 1..2
    BY <1>1, <2>1 DEF l
  <2>3. QED
    BY <2>2
<1>3. CASE ~(i <= l)
  <2>1. i - l \in 1..m /\ l + (i - l) = i
    BY <1>1, <1>3
  <2>2. Merged(cat)[i] = results[2][cat][i - l] /\ 2 \in 1..2 /\ 2 # 1
    BY <1>1, <2>1
  <2>3. QED
    BY <2>1, <2>2 DEF l, m
<1>4. QED
  BY <1>2, <1>3

\* The merged maps hold each collector of the category that had a result, once.
LEMMA MergedExact ==
    ASSUME RInv, NEW cat \in Categories
    PROVE  /\ \A i, j \in 1..Len(Merged(cat)) :
                 Merged(cat)[i].collector = Merged(cat)[j].collector => i = j
           /\ \A i \in 1..Len(Merged(cat)) :
                 /\ Merged(cat)[i].collector \in Appended
                 /\ CategoryOf[Merged(cat)[i].collector] = cat
                 /\ Merged(cat)[i] = ResultOf(Merged(cat)[i].collector)
           /\ \A c \in Appended : CategoryOf[c] = cat =>
                 \E i \in 1..Len(Merged(cat)) : Merged(cat)[i] = ResultOf(c)
<1>1. ResultsExact /\ NoStranger /\ NoLoss /\ NoDouble
  BY DEF RInv, ResultsExact
<1> DEFINE At(p, x) == IF p = 1 THEN x ELSE Len(results[1][cat]) + x
<1>2. ASSUME NEW p \in 1..2, NEW x \in 1..Len(results[p][cat]),
             NEW q \in 1..2, NEW y \in 1..Len(results[q][cat]),
             results[p][cat][x].collector = results[q][cat][y].collector
      PROVE  At(p, x) = At(q, y)
  <2>1. p = q /\ x = y
    BY <1>1, <1>2, SamePlace
  <2>2. QED
    BY <2>1
<1> HIDE DEF At
<1>3. \A i \in 1..Len(Merged(cat)) : \E p \in 1..2 : \E x \in 1..Len(results[p][cat]) :
          Merged(cat)[i] = results[p][cat][x] /\ i = At(p, x)
  BY MergedFrom DEF At
<1>4. ASSUME NEW i \in 1..Len(Merged(cat)), NEW j \in 1..Len(Merged(cat)),
              Merged(cat)[i].collector = Merged(cat)[j].collector
       PROVE  i = j
  <2>1. PICK p \in 1..2 : \E x \in 1..Len(results[p][cat]) :
           Merged(cat)[i] = results[p][cat][x] /\ i = At(p, x)
    BY <1>3
  <2>2. PICK x \in 1..Len(results[p][cat]) :
           Merged(cat)[i] = results[p][cat][x] /\ i = At(p, x)
    BY <2>1
  <2>3. PICK q \in 1..2 : \E y \in 1..Len(results[q][cat]) :
           Merged(cat)[j] = results[q][cat][y] /\ j = At(q, y)
    BY <1>3
  <2>4. PICK y \in 1..Len(results[q][cat]) :
           Merged(cat)[j] = results[q][cat][y] /\ j = At(q, y)
    BY <2>3
  <2>5. results[p][cat][x].collector = results[q][cat][y].collector
    BY <1>4, <2>2, <2>4
  <2>6. At(p, x) = At(q, y)
    BY <1>2, <2>5, Zenon
  <2>7. QED
    BY <2>2, <2>4, <2>6
<1>5. ASSUME NEW p \in 1..2, NEW x \in 1..Len(results[p][cat])
      PROVE  /\ results[p][cat][x].collector \in Appended
             /\ CategoryOf[results[p][cat][x].collector] = cat
             /\ results[p][cat][x] = ResultOf(results[p][cat][x].collector)
  <2> DEFINE r == results[p][cat][x]
  <2>1. results[p][cat] \in Seq(Results)
    BY DEF RInv, IInv, TypeOK
  <2>2. r \in Results
    BY <2>1
  <2>3. r = [collector |-> r.collector, kind |-> r.kind]
    BY <2>2 DEF Results
  <2>4. r.collector \in Appended /\ CategoryOf[r.collector] = cat /\ r.kind = outcome[r.collector]
    BY <1>1 DEF NoStranger
  <2> HIDE DEF r
  <2>5. r = ResultOf(r.collector)
    BY <2>3, <2>4 DEF ResultOf
  <2>6. QED
    BY <2>4, <2>5 DEF r
<1>6. ASSUME NEW i \in 1..Len(Merged(cat))
      PROVE  /\ Merged(cat)[i].collector \in Appended
             /\ CategoryOf[Merged(cat)[i].collector] = cat
             /\ Merged(cat)[i] = ResultOf(Merged(cat)[i].collector)
  <2>1. PICK p \in 1..2 : \E x \in 1..Len(results[p][cat]) :
              Merged(cat)[i] = results[p][cat][x]
    BY MergedFrom
  <2>2. QED
    BY <1>5, <2>1
<1>7. ASSUME NEW c \in Appended, CategoryOf[c] = cat
      PROVE  \E i \in 1..Len(Merged(cat)) : Merged(cat)[i] = ResultOf(c)
  <2>1. PICK p \in 1..2 : \E x \in 1..Len(results[p][cat]) : results[p][cat][x].collector = c
    BY <1>1, <1>7 DEF NoLoss
  <2>2. PICK x \in 1..Len(results[p][cat]) : results[p][cat][x].collector = c
    BY <2>1
  <2>3. results[p][cat][x] = ResultOf(c)
    BY <1>5, <2>2
  <2> DEFINE l == Len(results[1][cat])
             m == Len(results[2][cat])
  <2>4. /\ l \in Nat /\ m \in Nat /\ Len(Merged(cat)) = l + m
        /\ \A y \in 1..l : Merged(cat)[y] = results[1][cat][y]
        /\ \A y \in 1..m : Merged(cat)[l + y] = results[2][cat][y]
    BY MergedPlaces
  <2>5. p = 1 => x \in 1..l
    BY <2>2
  <2>6. p # 1 => x \in 1..m
    BY <2>2
  <2> HIDE DEF l, m
  <2>7. CASE p = 1
    <3>1. x \in 1..(l + m)
      BY <2>4, <2>5, <2>7
    <3>2. QED
      BY <2>3, <2>4, <2>5, <2>7, <3>1
  <2>8. CASE p # 1
    <3>1. l + x \in 1..(l + m) /\ p = 2
      BY <2>4, <2>6, <2>8
    <3>2. QED
      BY <2>3, <2>4, <2>6, <2>8, <3>1
  <2>9. QED
    BY <2>7, <2>8
<1>8. QED
  BY <1>4, <1>6, <1>7
-----------------------------------------------------------------------------
(* The report. *)

\* The report of a category, once it is made.
ReportOf(cat, rep) ==
    /\ \A i \in 1..Len(rep) - 1 : Rank[rep[i].collector] < Rank[rep[i + 1].collector]
    /\ {rep[i] : i \in 1..Len(rep)} =
       {[collector |-> c, kind |-> outcome[c]] : c \in {d \in Appended : CategoryOf[d] = cat}}

\* From the merge on the report is right, and Run does not touch it any more.
ReportMade ==
    runPc \in {"await", "returned"} => \A cat \in Categories : ReportOf(cat, report[cat])

PInv == RInv /\ ReportMade

\* Sorting the merged maps of a category makes its report: no two results have the
\* same name, so the order is strict.
LEMMA SortedReport ==
    ASSUME RInv, NEW cat \in Categories
    PROVE  ReportOf(cat, SortByName(Merged(cat)))
<1> DEFINE s == Merged(cat)
           t == SortByName(s)
           n == Len(s)
<1>1. s \in Seq(Results) /\ n \in Nat
  BY MergedPlaces
<1>2. Named(s)
  BY <1>1, ResultsNamed
<1>3. /\ \A i, j \in 1..n : s[i].collector = s[j].collector => i = j
      /\ \A i \in 1..n : /\ s[i].collector \in Appended
                         /\ CategoryOf[s[i].collector] = cat
                         /\ s[i] = ResultOf(s[i].collector)
      /\ \A c \in Appended : CategoryOf[c] = cat => \E i \in 1..n : s[i] = ResultOf(c)
  BY MergedExact
<1> HIDE DEF s, n
<1>4. Len(t) = n
  BY <1>1, <1>2, SortByNameSorts DEF n
<1>5. PICK p \in [1..n -> 1..n] :
         /\ \A k \in 1..n : t[k] = s[p[k]]
         /\ \A i \in 1..n : \E k \in 1..n : p[k] = i
         /\ \A k \in 1..n - 1 :
               /\ p[k] # p[k + 1]
               /\ Rank[s[p[k]].collector] <= Rank[s[p[k + 1]].collector]
  BY <1>1, <1>2, SortByNameSorts DEF n
<1> HIDE DEF t
<1>6. ASSUME NEW k \in 1..n - 1
      PROVE  Rank[t[k].collector] < Rank[t[k + 1].collector]
  <2>1. k \in 1..n /\ k + 1 \in 1..n
    BY <1>1
  <2>2. p[k] \in 1..n /\ p[k + 1] \in 1..n
    BY <1>5, <2>1
  <2>3. s[p[k]].collector # s[p[k + 1]].collector
    BY <1>3, <1>5, <1>6, <2>2
  <2>4. s[p[k]].collector \in Collectors /\ s[p[k + 1]].collector \in Collectors
    BY <1>3, <2>2 DEF Appended
  <2>5. /\ Rank[s[p[k]].collector] # Rank[s[p[k + 1]].collector]
        /\ Rank[s[p[k]].collector] \in Nat /\ Rank[s[p[k + 1]].collector] \in Nat
    BY <2>3, <2>4, NamesAssumption
  <2>6. Rank[s[p[k]].collector] <= Rank[s[p[k + 1]].collector]
    BY <1>5, <1>6
  <2>7. Rank[s[p[k]].collector] < Rank[s[p[k + 1]].collector]
    BY <2>5, <2>6
  <2>8. t[k] = s[p[k]] /\ t[k + 1] = s[p[k + 1]]
    BY <1>5, <2>1
  <2>9. QED
    BY <2>7, <2>8
<1>7. {t[k] : k \in 1..n} = {s[i] : i \in 1..n}
  <2>1. \A k \in 1..n : p[k] \in 1..n /\ t[k] = s[p[k]]
    BY <1>5
  <2>2. \A i \in 1..n : \E k \in 1..n : t[k] = s[i]
    BY <1>5
  <2>3. {t[k] : k \in 1..n} \subseteq {s[i] : i \in 1..n}
    BY <2>1
  <2>4. {s[i] : i \in 1..n} \subseteq {t[k] : k \in 1..n}
    BY <2>2
  <2>5. QED
    BY <2>3, <2>4
<1>8. {s[i] : i \in 1..n} = {ResultOf(c) : c \in {d \in Appended : CategoryOf[d] = cat}}
  BY <1>3
<1>9. QED
  BY <1>4, <1>6, <1>7, <1>8 DEF ReportOf, ResultOf, s, t

\* Before the merge there is no report.
LEMMA InitPInv == Init => PInv
<1>1. Init => ReportMade
  BY DEF Init, ReportMade
<1>2. QED
  BY <1>1, InitRInv DEF PInv

\* The merge makes the report; nothing that happens later changes it or what it is
\* about, since no collector is left.
LEMMA StepPInv == PInv /\ [Next]_vars => PInv'
<1> SUFFICES ASSUME PInv, [Next]_vars PROVE PInv'
  OBVIOUS
<1>1. RInv /\ RInv' /\ IInv
  BY StepRInv DEF PInv, RInv
<1>2. CASE MergeResults
  <2>1. Appended' = Appended /\ outcome' = outcome
    BY <1>2 DEF MergeResults, Appended
  <2>2. \A cat \in Categories : report'[cat] = SortByName(Merged(cat))
    BY <1>2 DEF MergeResults, Merged
  <2>3. \A cat \in Categories : ReportOf(cat, report'[cat])
    BY <1>1, <2>2, SortedReport
  <2>4. ReportMade'
    BY <2>1, <2>3 DEF ReportMade, ReportOf
  <2>5. QED
    BY <1>1, <2>4 DEF PInv
<1>3. CASE ~MergeResults
  <2>1. CASE runPc' \notin {"await", "returned"}
    BY <1>1, <2>1 DEF PInv, ReportMade
  <2>2. CASE runPc' \in {"await", "returned"}
    <3>1. runPc \in {"await", "returned"} /\ report' = report
      BY <1>3, <2>2 DEF Next, MainStep, filterCollectors, SplitTiers, Spawn, WaitReturns,
            CheckInterrupt, Return, CollectorStep, Begin, CollectReturns, StartReading,
            ReaderClosed, EventsFull, StopReading, Lock, AppendAndUnlock, Done,
            SignalGoroutine, TakeSignal, SeeDone, SignalArrives, Deadline,
            AvailabilityChanges, Finished, vars, main
    <3>2. \A c \in Collectors : goroutine[c] \in {"idle", "done"}
      BY <1>1, <3>1 DEF IInv, Discipline, SpawnSound, Live
    <3>3. goroutine' = goroutine /\ outcome' = outcome
      BY <1>3, <3>1, <3>2
         DEF Next, MainStep, filterCollectors, SplitTiers, Spawn, WaitReturns,
            CheckInterrupt, Return, CollectorStep, Begin, CollectReturns, StartReading,
            ReaderClosed, EventsFull, StopReading, Lock, AppendAndUnlock, Done,
            SignalGoroutine, TakeSignal, SeeDone, SignalArrives, Deadline,
            AvailabilityChanges, Finished, vars, main
    <3>4. Appended' = Appended
      BY <3>3 DEF Appended
    <3>5. ReportMade'
      <4>1. ASSUME NEW cat \in Categories PROVE ReportOf(cat, report[cat])'
        <5>1. ReportOf(cat, report[cat])
          BY <3>1 DEF PInv, ReportMade
        <5>2. QED
          BY <3>1, <3>3, <3>4, <5>1 DEF ReportOf
      <4>2. QED
        BY <4>1 DEF ReportMade
    <3>6. QED
      BY <1>1, <3>5 DEF PInv
  <2>3. QED
    BY <2>1, <2>2
<1>4. QED
  BY <1>2, <1>3

\* In the report that Run returns each category lists its collectors by name, each
\* with the result it had, whatever the order in which they finished.
THEOREM ReportsDeterministic == Spec => []ReportDeterministic
<1>1. PInv => ReportDeterministic
  BY DEF PInv, ReportMade, ReportOf, ReportDeterministic
<1>2. QED
  BY <1>1, InitPInv, StepPInv, PTL DEF Spec
-----------------------------------------------------------------------------
(* Run implements Collection. *)

Over == runPc \in {"await", "returned"}
Gate == IF Over THEN "closed" ELSE IF phase = 1 THEN "light" ELSE "heavy"
Begun == {c \in Collectors : goroutine[c] # "idle"}
Published == IF Over THEN InReport ELSE "unpublished"

\* What is in the maps is what was appended.
LEMMA YieldedIsAppended == ResultsExact => InMaps(results) = Appended
<1> SUFFICES ASSUME ResultsExact PROVE InMaps(results) = Appended
  OBVIOUS
<1>1. \A c \in Collectors : CategoryOf[c] \in Categories
  BY DEF Categories
<1>2. ASSUME NEW c \in InMaps(results) PROVE c \in Appended
  BY <1>1 DEF InMaps, ResultsExact, NoStranger
<1>3. ASSUME NEW c \in Appended PROVE c \in InMaps(results)
  BY DEF InMaps, ResultsExact, NoLoss, Appended
<1>4. QED
  BY <1>2, <1>3

\* What is in the report is what was appended.
LEMMA ReportedIsAppended == PInv /\ Over => InReport = Appended
<1> SUFFICES ASSUME PInv, Over PROVE InReport = Appended
  OBVIOUS
<1>1. ASSUME NEW c \in Collectors PROVE c \in InReport <=> c \in Appended
  <2> DEFINE cat == CategoryOf[c]
             rep == report[cat]
             all == {[collector |-> e, kind |-> outcome[e]] :
                        e \in {d \in Appended : CategoryOf[d] = cat}}
  <2>1. cat \in Categories
    BY DEF Categories
  <2>2. {rep[i] : i \in 1..Len(rep)} = all
    BY <2>1 DEF PInv, ReportMade, ReportOf, Over
  <2>3. c \in InReport <=> \E i \in 1..Len(rep) : rep[i].collector = c
    BY DEF InReport
  <2> HIDE DEF rep
  <2>4. (\E i \in 1..Len(rep) : rep[i].collector = c)
           <=> \E r \in {rep[i] : i \in 1..Len(rep)} : r.collector = c
    OBVIOUS
  <2>5. (\E r \in all : r.collector = c) <=> c \in Appended
    <3>1. ASSUME NEW r \in all, r.collector = c PROVE c \in Appended
      <4>1. PICK e \in Appended : r = [collector |-> e, kind |-> outcome[e]]
        OBVIOUS
      <4>2. QED
        BY <3>1, <4>1
    <3>2. ASSUME c \in Appended PROVE \E r \in all : r.collector = c
      <4>1. [collector |-> c, kind |-> outcome[c]] \in all
        BY <3>2
      <4>2. [collector |-> c, kind |-> outcome[c]].collector = c
        OBVIOUS
      <4>3. QED
        BY <4>1, <4>2
    <3>3. QED
      BY <3>1, <3>2
  <2> HIDE DEF all
  <2>6. QED
    BY <2>2, <2>3, <2>4, <2>5
<1>2. InReport \subseteq Collectors /\ Appended \subseteq Collectors
  BY DEF InReport, Appended
<1>3. QED
  BY <1>1, <1>2

\* Run starts where Collection starts.
LEMMA InitPromise == Init => Promise!Init
<1> SUFFICES ASSUME Init PROVE Promise!Init
  OBVIOUS
<1>1. InMaps(results) = {}
  <2>1. \A p \in 1..2, cat \in Categories : Len(results[p][cat]) = 0
    BY DEF Init, EmptyMap
  <2>2. \A c \in Collectors : CategoryOf[c] \in Categories
    BY DEF Categories
  <2>3. QED
    BY <2>1, <2>2 DEF InMaps
<1>2. Live = {} /\ {c \in Collectors : goroutine[c] # "idle"} = {}
  BY DEF Init, Live
<1>3. QED
  BY <1>1, <1>2 DEF Init, Promise!Init, Promise!Unpublished

\* A step that changes none of what Collection speaks of.
LEMMA Unseen ==
    ASSUME Gate' = Gate, Begun' = Begun, Live' = Live,
           InMaps(results)' = InMaps(results), cancelled' = cancelled,
           Published' = Published
    PROVE  UNCHANGED Promise!vars
  BY DEF Promise!vars, Gate, Begun, Published, Over

\* A go statement is a Begin of a collector the gate lets in.
LEMMA SpawnBegins ==
    ASSUME IInv, NEW c \in Collectors, Spawn(c)
    PROVE  Promise!Begin(c)
<1> USE DEF IInv, Discipline
<1>1. /\ goroutine[c] = "idle" /\ runPc = "collect" /\ ~Over /\ ~Over'
      /\ UNCHANGED <<runPc, phase, results, cancelled, report>>
  BY DEF Spawn, SpawnSound, Over
<1>2. Live' = Live \cup {c}
  BY <1>1, Enters DEF Spawn
<1>3. Begun' = Begun \cup {c} /\ c \notin Begun
  BY <1>1 DEF Begun, Spawn, TypeOK
<1>4. Gate' = Gate /\ Gate = IF phase = 1 THEN "light" ELSE "heavy"
  BY <1>1 DEF Gate
<1>5. Published' = Published
  BY <1>1 DEF Published
<1>6. c \in IF Gate = "light" THEN Light ELSE IF Gate = "heavy" THEN Heavy ELSE {}
  BY <1>4 DEF Spawn, PhaseSound, SplitSound, TypeOK
<1>7. InMaps(results)' = InMaps(results)
  BY <1>1 DEF InMaps
<1>8. QED
  BY <1>1, <1>2, <1>3, <1>4, <1>5, <1>6, <1>7
     DEF Promise!Begin, Promise!MayBegin, Gate, Begun, Published, Over

\* An append under the mutex is a Yield, unless there is nothing to append.
LEMMA AppendYields ==
    ASSUME RInv, RInv', NEW c \in Collectors, AppendAndUnlock(c)
    PROVE  Promise!Yield(c) \/ UNCHANGED Promise!vars
<1> USE DEF RInv, IInv
<1>1. /\ goroutine[c] = "appending"
      /\ UNCHANGED <<runPc, phase, cancelled, report, outcome>>
      /\ goroutine' = [goroutine EXCEPT ![c] = "finishing"]
  BY DEF AppendAndUnlock, main
<1>2. c \in Live /\ Live' = Live /\ Begun' = Begun
  BY <1>1 DEF Live, Begun, TypeOK
<1>3. Gate' = Gate /\ Published' = Published
  BY <1>1 DEF Gate, Published, Over, InReport
<1>4. InMaps(results) = Appended
  BY YieldedIsAppended
<1>5. (InMaps(results) = Appended)'
  BY YieldedIsAppended, PTL
<1>6. c \notin Appended
  BY <1>1 DEF Appended
<1>7. CASE outcome[c] = "nil"
  <2>1. Appended' = Appended
    BY <1>1, <1>7 DEF Appended, TypeOK
  <2>2. QED
    BY <1>1, <1>2, <1>3, <1>4, <1>5, <2>1, Unseen
<1>8. CASE outcome[c] # "nil"
  <2>1. Appended' = Appended \cup {c}
    BY <1>1, <1>8 DEF Appended, TypeOK
  <2>2. InMaps(results)' = InMaps(results) \cup {c} /\ c \notin InMaps(results)
    BY <1>4, <1>5, <1>6, <2>1
  <2>3. QED
    BY <1>1, <1>2, <1>3, <2>2 DEF Promise!Yield, Gate, Begun, Published, Over
<1>9. QED
  BY <1>7, <1>8

\* The end of a goroutine is a Leave.
LEMMA DoneLeaves ==
    ASSUME IInv, NEW c \in Collectors, Done(c)
    PROVE  Promise!Leave(c)
<1> USE DEF IInv
<1>1. /\ goroutine[c] = "finishing"
      /\ UNCHANGED <<runPc, phase, cancelled, report, results>>
      /\ goroutine' = [goroutine EXCEPT ![c] = "done"]
  BY DEF Done, main
<1>2. c \in Live /\ Live' = Live \ {c} /\ Begun' = Begun
  BY <1>1 DEF Live, Begun, TypeOK
<1>3. Gate' = Gate /\ Published' = Published /\ InMaps(results)' = InMaps(results)
  BY <1>1 DEF Gate, Published, Over, InReport, InMaps
<1>4. QED
  BY <1>1, <1>2, <1>3 DEF Promise!Leave, Gate, Begun, Published, Over

\* The check between the phases opens the gate or is not seen.
LEMMA CheckOpens ==
    ASSUME IInv, CheckInterrupt
    PROVE  Promise!OpenGate \/ UNCHANGED Promise!vars
<1> USE DEF IInv
<1>1. /\ runPc = "check" /\ phase = 1 /\ Live = {}
      /\ UNCHANGED <<goroutine, results, cancelled, report>>
      /\ runPc' \in {"collect", "merge"}
      /\ phase' = phase \/ (phase' = 2 /\ ~cancelled)
  BY DEF CheckInterrupt, Discipline, SpawnSound
<1>2. ~Over /\ ~Over' /\ Published' = Published /\ Gate = "light"
  BY <1>1 DEF Over, Published, Gate
<1>3. Live' = Live /\ Begun' = Begun /\ InMaps(results)' = InMaps(results)
  BY <1>1 DEF Live, Begun, InMaps
<1>4. CASE phase' = phase
  <2>1. Gate' = Gate
    BY <1>2, <1>4 DEF Gate
  <2>2. QED
    BY <1>1, <1>2, <1>3, <2>1, Unseen
<1>5. CASE phase' = 2 /\ ~cancelled
  <2>1. Gate' = "heavy"
    BY <1>2, <1>5 DEF Gate
  <2>2. QED
    BY <1>1, <1>2, <1>3, <1>5, <2>1 DEF Promise!OpenGate, Gate, Begun, Published, Over
<1>6. QED
  BY <1>1, <1>4, <1>5

\* The merge publishes all that was yielded and nothing else.
LEMMA MergePublishes ==
    ASSUME PInv, PInv', MergeResults
    PROVE  Promise!Publish
<1> USE DEF PInv, RInv, IInv
<1>1. /\ runPc = "merge" /\ runPc' = "await" /\ Live = {} /\ cancelled' = TRUE
      /\ UNCHANGED <<goroutine, results, outcome, phase>>
  BY DEF MergeResults, Discipline, SpawnSound
<1>2. ~Over /\ Over' /\ Gate # "closed" /\ Gate' = "closed"
  BY <1>1 DEF Over, Gate
<1>3. /\ Live' = Live /\ Begun' = Begun /\ InMaps(results)' = InMaps(results)
      /\ Appended' = Appended
  BY <1>1 DEF Live, Begun, InMaps, Appended
<1>4. InMaps(results) = Appended
  BY YieldedIsAppended
<1>5. (InReport = Appended)'
  BY <1>2, ReportedIsAppended, PTL
<1>6. Published' = InMaps(results)
  BY <1>2, <1>3, <1>4, <1>5 DEF Published
<1>7. QED
  BY <1>1, <1>2, <1>3, <1>6 DEF Promise!Publish, Gate, Begun, Published, Over

\* A cancelled context is an Interrupt, the first time.
LEMMA CancelInterrupts ==
    ASSUME IInv, TakeSignal \/ Deadline
    PROVE  Promise!Interrupt \/ UNCHANGED Promise!vars
<1> USE DEF IInv
<1>1. /\ cancelled' = TRUE /\ cancelled \in BOOLEAN
      /\ UNCHANGED <<runPc, phase, goroutine, results, report>>
  BY DEF TakeSignal, Deadline, main, TypeOK
<1>2. /\ Gate' = Gate /\ Begun' = Begun /\ Live' = Live /\ Published' = Published
      /\ InMaps(results)' = InMaps(results)
  BY <1>1 DEF Gate, Begun, Live, Published, Over, InReport, InMaps
<1>3. CASE cancelled
  <2>1. cancelled' = cancelled
    BY <1>1, <1>3
  <2>2. QED
    BY <1>2, <2>1, Unseen
<1>4. CASE ~cancelled
  BY <1>1, <1>2, <1>4 DEF Promise!Interrupt, Gate, Begun, Published, Over
<1>5. QED
  BY <1>3, <1>4

\* The steps of Run, of the signal goroutine and of the environment that Collection
\* does not speak of.
LEMMA QuietSteps ==
    ASSUME IInv,
           \/ filterCollectors \/ SplitTiers \/ WaitReturns \/ Return
           \/ SeeDone \/ SignalArrives \/ UNCHANGED vars
           \/ \E c \in Collectors : AvailabilityChanges(c)
    PROVE  UNCHANGED Promise!vars
<1>1. /\ UNCHANGED <<phase, goroutine, results, report>>
      /\ cancelled' = cancelled
  BY DEF filterCollectors, SplitTiers, WaitReturns, Return, SeeDone, SignalArrives,
         AvailabilityChanges, vars, main
<1>2. Over' = Over
  BY DEF Over, filterCollectors, SplitTiers, WaitReturns, Return, SeeDone, SignalArrives,
         AvailabilityChanges, vars, main
<1>3. /\ Gate' = Gate /\ Begun' = Begun /\ Live' = Live /\ Published' = Published
      /\ InMaps(results)' = InMaps(results)
  BY <1>1, <1>2 DEF Gate, Begun, Live, Published, InReport, InMaps
<1>4. QED
  BY <1>1, <1>3, Unseen

\* A goroutine between its go statement and its append.
LEMMA QuietCollector ==
    ASSUME IInv, NEW c \in Collectors,
           \/ Begin(c) \/ (\E how \in Outcomes : CollectReturns(c, how))
           \/ StartReading(c) \/ StopReading(c) \/ Lock(c)
    PROVE  UNCHANGED Promise!vars
<1> USE DEF IInv
<1>1. /\ UNCHANGED <<runPc, phase, results, report>>
      /\ cancelled' = cancelled
  BY DEF Begin, CollectReturns, StartReading, StopReading, Lock, main
<1>2. /\ c \in Live
      /\ \E x \in {"collecting", "reading", "locking", "appending", "finishing"} :
            goroutine' = [goroutine EXCEPT ![c] = x]
  BY DEF Begin, CollectReturns, StartReading, StopReading, Lock, Live
<1>3. Live' = Live /\ Begun' = Begun
  BY <1>2 DEF Live, Begun, TypeOK
<1>4. /\ Gate' = Gate /\ Published' = Published
      /\ InMaps(results)' = InMaps(results)
  BY <1>1 DEF Gate, Published, Over, InReport, InMaps
<1>5. QED
  BY <1>1, <1>3, <1>4, Unseen

\* Every step is a step of Collection or is not seen there.
LEMMA StepPromise == PInv /\ PInv' /\ [Next]_vars => [Promise!Next]_(Promise!vars)
<1> SUFFICES ASSUME PInv, PInv', [Next]_vars
             PROVE  Promise!Next \/ UNCHANGED Promise!vars
  OBVIOUS
<1>1. IInv /\ RInv /\ RInv' /\ Collectors = Light \cup Heavy
  BY DEF PInv, RInv, Collectors, Heavy
<1>2. ASSUME NEW c \in Collectors, Spawn(c) PROVE Promise!Next
  BY <1>1, <1>2, SpawnBegins DEF Promise!Next
<1>3. CASE CheckInterrupt
  BY <1>1, <1>3, CheckOpens DEF Promise!Next
<1>4. CASE MergeResults
  BY <1>4, MergePublishes DEF Promise!Next
<1>5. ASSUME NEW c \in Collectors, AppendAndUnlock(c)
      PROVE  Promise!Next \/ UNCHANGED Promise!vars
  BY <1>1, <1>5, AppendYields DEF Promise!Next
<1>6. ASSUME NEW c \in Collectors, Done(c) PROVE Promise!Next
  BY <1>1, <1>6, DoneLeaves DEF Promise!Next
<1>7. CASE TakeSignal \/ Deadline
  BY <1>1, <1>7, CancelInterrupts DEF Promise!Next
<1>8. CASE \/ filterCollectors \/ SplitTiers \/ WaitReturns \/ Return
           \/ SeeDone \/ SignalArrives \/ UNCHANGED vars
           \/ \E c \in Collectors : AvailabilityChanges(c)
  BY <1>1, <1>8, QuietSteps
<1>9. ASSUME NEW c \in Collectors,
             \/ Begin(c) \/ (\E how \in Outcomes : CollectReturns(c, how))
             \/ StartReading(c) \/ StopReading(c) \/ Lock(c)
      PROVE  UNCHANGED Promise!vars
  BY <1>1, <1>9, QuietCollector
<1>10. QED
  BY <1>2, <1>3, <1>4, <1>5, <1>6, <1>7, <1>8, <1>9
     DEF Next, MainStep, CollectorStep, ReaderClosed, EventsFull, SignalGoroutine, Finished

\* A run of Orchestrator.Run keeps the promise of Collection, for any collectors,
\* configurations, signals and schedules: light before heavy, no gate opened after an
\* interrupt, and a report of exactly what was yielded.
THEOREM KeepsPromise == Spec => ImplementsCollection
<1>1. Init => Promise!Init
  BY InitPromise
<1>2. Spec => []PInv
  BY InitPInv, StepPInv, PTL DEF Spec
<1>3. PInv /\ PInv' /\ [Next]_vars => [Promise!Next]_(Promise!vars)
  BY StepPromise
<1>4. QED
  BY <1>1, <1>2, <1>3, PTL DEF Spec, ImplementsCollection, Promise!Spec
=============================================================================
