-------------------------- MODULE ToolCollectProofs --------------------------
(* Proofs about ToolCollect for any tools, events and limits. *)
EXTENDS ToolCollect, TLAPS

TypeInv ==
    /\ pc \in [Tools -> {"idle", "running", "exited", "tracked", "filtering",
                         "returned", "failed"}]
    /\ traced \in [Tools -> Seq(Pids)]
    /\ capped \in [Tools -> BOOLEAN]
    /\ todo \in [Tools -> Seq(Pids)]
    /\ events \in [Tools -> Seq(Pids)]
    /\ truncated \in [Tools -> BOOLEAN]

\* The tracker knows a child exactly between Add and the return of its Collect.
Tracked == children = {t \in Tools : pc[t] \in {"tracked", "filtering"}}

\* No event that was kept is of melisai or of the tool itself.
NoOwnEvent == \A t \in Tools : \A i \in 1..Len(events[t]) : events[t][i] \notin {Self, t}

\* Collect holds the whole output, or as much of it as always fits.
RawOutput ==
    \A t \in Tools :
        /\ pc[t] \in {"idle", "running"} => ~capped[t]
        /\ pc[t] \in {"exited", "tracked"} =>
              IF capped[t] THEN Len(todo[t]) >= MinFit[t] /\ Len(traced[t]) > MinFit[t]
              ELSE todo[t] = traced[t]

\* Unless something was cut, what the filter loop has left is the end of the trace, and
\* what it has kept is complete for the part it has seen.
Progress(where, cut, in, left, kept) ==
    /\ where \in {"idle", "running", "exited", "tracked"} => kept = << >>
    /\ where = "filtering" /\ ~cut =>
          /\ Len(in) - Len(left) \in Nat
          /\ \A j \in 1..Len(left) : left[j] = in[Len(in) - Len(left) + j]
          /\ LeftOf(kept, in, Len(in) - Len(left))

Cut(t) == truncated[t] \/ FlagLost(t)

FilterProgress ==
    \A t \in Tools : Progress(pc[t], Cut(t), traced[t], todo[t], events[t])

IInv ==
    /\ TypeInv
    /\ Tracked
    /\ NoOwnEvent
    /\ RawOutput
    /\ FilterProgress
    /\ UntruncatedIsComplete
-----------------------------------------------------------------------------
\* Nothing traced, nothing tracked.
LEMMA InitIInv == Init => IInv
<1> SUFFICES ASSUME Init PROVE IInv
  OBVIOUS
<1>1. TypeInv
  BY DEF Init, TypeInv
<1>2. Tracked /\ NoOwnEvent
  BY DEF Init, Tracked, NoOwnEvent
<1>3. RawOutput /\ FilterProgress /\ UntruncatedIsComplete
  BY DEF Init, RawOutput, FilterProgress, Progress, UntruncatedIsComplete
<1>4. QED
  BY <1>1, <1>2, <1>3 DEF IInv

\* Nothing is kept of nothing.
LEMMA LeftOfNothing == ASSUME NEW s PROVE LeftOf(<< >>, s, 0)
<1>1. Len(<< >>) = 0 /\ 1..0 = {}
  OBVIOUS
<1>2. [i \in {} |-> 1] \in [{} -> {}]
  OBVIOUS
<1>3. QED
  BY <1>1, <1>2, Zenon DEF LeftOf

\* A function that places what is kept shows that it is left.
LEMMA LeftOfIntro ==
    ASSUME NEW kept, NEW s, NEW n, NEW len, Len(kept) = len,
           NEW place \in [1..len -> 1..n],
           \A i, j \in 1..len : i < j => place[i] < place[j],
           \A i \in 1..len : kept[i] = s[place[i]],
           \A m \in 1..n : IsOther(s[m]) => \E i \in 1..len : place[i] = m
    PROVE  LeftOf(kept, s, n)
  BY DEF LeftOf

\* The filter keeps the next event.
LEMMA KeepsNext ==
    ASSUME NEW kept \in Seq(Pids), NEW s \in Seq(Pids), NEW n \in Nat, LeftOf(kept, s, n),
           NEW e \in Pids, e = s[n + 1]
    PROVE  LeftOf(Append(kept, e), s, n + 1)
<1> DEFINE k == Len(kept)
           new == Append(kept, e)
<1>1. k \in Nat /\ Len(new) = k + 1 /\ new[k + 1] = e /\ \A i \in 1..k : new[i] = kept[i]
  OBVIOUS
<1>2. PICK place \in [1..k -> 1..n] :
        /\ \A i, j \in 1..k : i < j => place[i] < place[j]
        /\ \A i \in 1..k : kept[i] = s[place[i]]
        /\ \A m \in 1..n : IsOther(s[m]) => \E i \in 1..k : place[i] = m
  BY DEF LeftOf
<1> DEFINE q == [i \in 1..(k + 1) |-> IF i = k + 1 THEN n + 1 ELSE place[i]]
<1> HIDE DEF k, new
<1>3. \A i \in 1..k : q[i] = place[i] /\ i \in 1..(k + 1) /\ place[i] \in 1..n
  BY <1>1
<1>4. q[k + 1] = n + 1 /\ k + 1 \in 1..(k + 1)
  BY <1>1
<1>5. \A i \in 1..(k + 1) : i \in 1..k \/ i = k + 1
  BY <1>1
<1>6. q \in [1..(k + 1) -> 1..(n + 1)]
  BY <1>1
<1> HIDE DEF q
<1>7. \A i, j \in 1..(k + 1) : i < j => q[i] < q[j]
  <2> SUFFICES ASSUME NEW i \in 1..(k + 1), NEW j \in 1..(k + 1), i < j PROVE q[i] < q[j]
    OBVIOUS
  <2>1. i \in 1..k /\ q[i] = place[i] /\ place[i] \in 1..n
    BY <1>1, <1>3
  <2>2. CASE j = k + 1
    BY <1>4, <2>1, <2>2
  <2>3. CASE j \in 1..k
    <3>1. place[i] < place[j] /\ q[j] = place[j]
      BY <1>2, <1>3, <2>1, <2>3
    <3>2. QED
      BY <2>1, <3>1
  <2>4. QED
    BY <1>5, <2>2, <2>3
<1>8. \A i \in 1..(k + 1) : new[i] = s[q[i]]
  BY <1>1, <1>2, <1>3, <1>4, <1>5
<1>9. \A m \in 1..(n + 1) : IsOther(s[m]) => \E i \in 1..(k + 1) : q[i] = m
  <2> SUFFICES ASSUME NEW m \in 1..(n + 1), IsOther(s[m]) PROVE \E i \in 1..(k + 1) : q[i] = m
    OBVIOUS
  <2>1. CASE m = n + 1
    BY <1>4, <2>1
  <2>2. CASE m \in 1..n
    BY <1>2, <1>3, <2>2
  <2>3. QED
    BY <2>1, <2>2
<1>10. LeftOf(new, s, n + 1)
  BY <1>1, <1>6, <1>7, <1>8, <1>9, LeftOfIntro
<1>11. QED
  BY <1>10 DEF new

\* The filter drops the next event, which is not of another process.
LEMMA DropsNext ==
    ASSUME NEW kept \in Seq(Pids), NEW s \in Seq(Pids), NEW n \in Nat, LeftOf(kept, s, n),
           ~IsOther(s[n + 1])
    PROVE  LeftOf(kept, s, n + 1)
<1>1. PICK place \in [1..Len(kept) -> 1..n] :
        /\ \A i, j \in 1..Len(kept) : i < j => place[i] < place[j]
        /\ \A i \in 1..Len(kept) : kept[i] = s[place[i]]
        /\ \A m \in 1..n : IsOther(s[m]) => \E i \in 1..Len(kept) : place[i] = m
  BY DEF LeftOf
<1>2. place \in [1..Len(kept) -> 1..(n + 1)]
  OBVIOUS
<1>3. \A m \in 1..(n + 1) : IsOther(s[m]) => \E i \in 1..Len(kept) : place[i] = m
  <2>1. \A m \in 1..(n + 1) : m \in 1..n \/ m = n + 1
    OBVIOUS
  <2>2. QED
    BY <1>1, <2>1
<1>4. QED
  BY <1>1, <1>2, <1>3 DEF LeftOf
-----------------------------------------------------------------------------
\* A step that moves one tool on, keeps what was traced and kept, and does not reach
\* or leave the filter loop, leaves the progress of every loop as it was.
LEMMA OutsideLoop ==
    ASSUME IInv, NEW t \in Tools, UNCHANGED <<traced, events, truncated>>,
           pc[t] \notin {"filtering", "returned"},
           NEW x \in {"running", "exited", "tracked", "failed"}, pc' = [pc EXCEPT ![t] = x],
           x # "failed" => events[t] = << >>,
           \A u \in Tools \ {t} : capped'[u] = capped[u] /\ todo'[u] = todo[u]
    PROVE  FilterProgress' /\ UntruncatedIsComplete' /\ NoOwnEvent'
<1>1. /\ pc'[t] = x /\ x \notin {"filtering", "returned", "idle"}
      /\ \A u \in Tools \ {t} : pc'[u] = pc[u]
  BY DEF IInv, TypeInv
<1>2. \A u \in Tools \ {t} : (FlagLost(u)' <=> FlagLost(u)) /\ (Cut(u)' = Cut(u))
  BY DEF FlagLost, Cut
<1>3. NoOwnEvent'
  BY DEF IInv, NoOwnEvent
<1>4. ASSUME NEW u \in Tools PROVE Progress(pc[u], Cut(u), traced[u], todo[u], events[u])'
  <2>1. CASE u = t
    BY <1>1, <2>1 DEF Progress
  <2>2. CASE u # t
    <3>1. Progress(pc[u], Cut(u), traced[u], todo[u], events[u])
      BY DEF IInv, FilterProgress
    <3>2. /\ pc'[u] = pc[u] /\ Cut(u)' = Cut(u) /\ traced'[u] = traced[u]
          /\ todo'[u] = todo[u] /\ events'[u] = events[u]
      BY <1>1, <1>2, <2>2
    <3>3. QED
      BY <3>1, <3>2 DEF Progress
  <2>3. QED
    BY <2>1, <2>2
<1>5. UntruncatedIsComplete'
  BY <1>1, <1>2 DEF UntruncatedIsComplete, IInv, Complete
<1>6. QED
  BY <1>3, <1>4, <1>5 DEF FilterProgress

\* The steps before the filter loop that touch no output, and the ones that fail.
LEMMA EarlySteps ==
    ASSUME IInv, NEW t \in Tools,
           \/ Start(t) \/ RunFails(t) \/ Add(t) \/ ParseFails(t)
    PROVE  IInv'
<1> USE DEF IInv
<1>1. UNCHANGED <<traced, capped, todo, events, truncated>>
  BY DEF Start, RunFails, Add, ParseFails
<1>2. PICK x \in {"running", "exited", "tracked", "failed"} : pc' = [pc EXCEPT ![t] = x]
  BY DEF Start, RunFails, Add, ParseFails
<1>3. TypeInv'
  BY <1>1, <1>2 DEF TypeInv
<1>4. Tracked'
  BY DEF Start, RunFails, Add, ParseFails, Tracked, TypeInv
<1>5. RawOutput'
  BY <1>1 DEF Start, RunFails, Add, ParseFails, RawOutput, TypeInv
<1>6. pc[t] \in {"idle", "running", "exited", "tracked"} /\ events[t] = << >>
  BY DEF Start, RunFails, Add, ParseFails, FilterProgress, Progress
<1>7. FilterProgress' /\ UntruncatedIsComplete' /\ NoOwnEvent'
  BY <1>1, <1>2, <1>6, OutsideLoop
<1>8. QED
  BY <1>3, <1>4, <1>5, <1>7

\* What is left of an output that the executor capped.
LEMMA CutOutput ==
    ASSUME NEW t \in Tools, TypeInv, NEW n \in Nat, n < Len(traced[t]), NEW out \in CutAfter(t, n)
    PROVE  out \in Seq(Pids) /\ Len(out) >= n
<1>1. traced[t] \in Seq(Pids) /\ Len(traced[t]) \in Nat
  BY DEF TypeInv
<1>2. SubSeq(traced[t], 1, n) \in Seq(Pids) /\ Len(SubSeq(traced[t], 1, n)) = n
  BY <1>1
<1>3. PICK rest \in {<< >>} \cup {<<pid>> : pid \in Prints[t] \cup {NoPid}} :
        out = SubSeq(traced[t], 1, n) \o rest
  BY DEF CutAfter
<1>4. rest \in Seq(Pids)
  <2>1. Prints[t] \cup {NoPid} \subseteq Pids
    BY PidsAssumption DEF Pids
  <2>2. CASE rest = << >>
    BY <2>2
  <2>3. ASSUME NEW pid \in Pids, rest = <<pid>> PROVE rest \in Seq(Pids)
    BY <2>3
  <2>4. QED
    BY <1>3, <2>1, <2>2, <2>3
<1>5. QED
  BY <1>2, <1>3, <1>4

\* The executor returns: all of the output, or what fitted.
LEMMA ReturnStep ==
    ASSUME IInv, NEW t \in Tools, RunReturns(t)
    PROVE  IInv'
<1> USE DEF IInv
<1>1. /\ UNCHANGED <<traced, events, truncated, children>>
      /\ pc[t] = "running" /\ pc' = [pc EXCEPT ![t] = "exited"]
  BY DEF RunReturns
<1>2. traced[t] \in Seq(Pids) /\ Len(traced[t]) \in Nat /\ MinFit[t] \in Nat
  BY CapsAssumption DEF TypeInv
<1>3. /\ todo' = [todo EXCEPT ![t] = todo'[t]] /\ todo'[t] \in Seq(Pids)
      /\ capped' = [capped EXCEPT ![t] = capped'[t]] /\ capped'[t] \in BOOLEAN
      /\ IF capped'[t] THEN Len(todo'[t]) >= MinFit[t] /\ Len(traced[t]) > MinFit[t]
         ELSE todo'[t] = traced[t]
  <2>1. CASE todo' = [todo EXCEPT ![t] = traced[t]] /\ UNCHANGED capped
    <3>1. ~capped[t]
      BY <1>1 DEF RawOutput
    <3>2. QED
      BY <1>2, <2>1, <3>1 DEF TypeInv
  <2>2. ASSUME NEW n \in MinFit[t]..(Len(traced[t]) - 1), NEW out \in CutAfter(t, n),
               todo' = [todo EXCEPT ![t] = out], capped' = [capped EXCEPT ![t] = TRUE]
        PROVE  <1>3
    <3>1. n \in Nat /\ n >= MinFit[t] /\ n < Len(traced[t])
      BY <1>2
    <3>2. out \in Seq(Pids) /\ Len(out) >= n /\ Len(out) \in Nat
      BY <3>1, CutOutput
    <3>3. todo'[t] = out /\ capped'[t] = TRUE
      BY <2>2 DEF TypeInv
    <3>4. QED
      <4>1. Len(out) >= MinFit[t] /\ Len(traced[t]) > MinFit[t]
        BY <1>2, <3>1, <3>2
      <4>2. QED
        BY <2>2, <3>2, <3>3, <4>1
  <2>3. QED
    BY <2>1, <2>2 DEF RunReturns
<1>4. TypeInv'
  BY <1>1, <1>3 DEF TypeInv
<1>5. Tracked'
  BY <1>1 DEF Tracked, TypeInv
<1>6. \A u \in Tools \ {t} : pc'[u] = pc[u] /\ capped'[u] = capped[u] /\ todo'[u] = todo[u]
  BY <1>1, <1>3 DEF TypeInv
<1>7. RawOutput'
  BY <1>1, <1>3, <1>6 DEF RawOutput, TypeInv
<1>8. events[t] = << >>
  BY <1>1 DEF FilterProgress, Progress
<1>9. FilterProgress' /\ UntruncatedIsComplete' /\ NoOwnEvent'
  BY <1>1, <1>6, <1>8, OutsideLoop
<1>10. QED
  BY <1>4, <1>5, <1>7, <1>9

\* An event is traced while the tool runs: its Collect has not looked yet.
LEMMA TraceStep ==
    ASSUME IInv, NEW t \in Tools, NEW pid \in Pids, Trace(t, pid)
    PROVE  IInv'
<1> USE DEF IInv
<1>1. /\ UNCHANGED <<pc, capped, todo, events, truncated, children>>
      /\ traced' = [traced EXCEPT ![t] = Append(traced[t], pid)]
      /\ pc[t] = "running"
  BY DEF Trace, ChildAlive
<1>2. TypeInv'
  BY <1>1 DEF TypeInv
<1>3. \A u \in Tools : pc[u] # "running" => traced'[u] = traced[u]
  BY <1>1 DEF TypeInv
<1>4. \A u \in Tools : pc[u] # "running" => (FlagLost(u)' <=> FlagLost(u)) /\ (Cut(u)' = Cut(u))
  BY <1>1, <1>3 DEF FlagLost, Cut
<1>5. Tracked' /\ NoOwnEvent' /\ RawOutput'
  BY <1>1, <1>3 DEF Tracked, NoOwnEvent, RawOutput
<1>6. FilterProgress' /\ UntruncatedIsComplete'
  BY <1>1, <1>3, <1>4 DEF FilterProgress, Progress, UntruncatedIsComplete, Complete
<1>7. QED
  BY <1>2, <1>5, <1>6

\* The parser: unless it or the executor cut the output, it is taken as a whole.
LEMMA ParsesAll ==
    ASSUME IInv, NEW t \in Tools, pc[t] = "tracked", ~FlagLost(t),
           ~(LimitMet(t) /\ t \notin Unflagged)
    PROVE  Parsed(t) = traced[t]
<1>1. /\ traced[t] \in Seq(Pids) /\ todo[t] \in Seq(Pids) /\ capped[t] \in BOOLEAN
      /\ Len(traced[t]) \in Nat /\ Len(todo[t]) \in Nat
  BY DEF IInv, TypeInv
<1>2. ParserMax[t] \in Nat /\ MinFit[t] \in Nat /\ ParserMax[t] <= MinFit[t]
  BY CapsAssumption
<1>3. IF capped[t] THEN Len(todo[t]) >= MinFit[t] /\ Len(traced[t]) > MinFit[t]
      ELSE todo[t] = traced[t]
  BY DEF IInv, RawOutput
<1>4. ~capped[t]
  <2> SUFFICES ASSUME capped[t] PROVE FALSE
    OBVIOUS
  <2>1. ParserMax[t] > 0 /\ LimitMet(t)
    BY <1>1, <1>2, <1>3 DEF FlagLost, LimitMet
  <2>2. t \in Unflagged /\ Len(traced[t]) > ParserMax[t]
    BY <1>1, <1>2, <1>3, <2>1
  <2>3. QED
    BY <2>2 DEF FlagLost
<1>5. CASE ~LimitMet(t)
  BY <1>3, <1>4, <1>5 DEF Parsed
<1>6. CASE LimitMet(t)
  <2>1. Len(traced[t]) = ParserMax[t]
    BY <1>1, <1>2, <1>3, <1>4, <1>6 DEF LimitMet, FlagLost
  <2>2. SubSeq(traced[t], 1, ParserMax[t]) = traced[t]
    BY <1>1, <2>1
  <2>3. QED
    BY <1>3, <1>4, <1>6, <2>2 DEF Parsed
<1>7. QED
  BY <1>5, <1>6

\* What the parser makes of the output is a sequence of events.
LEMMA ParsedType ==
    ASSUME IInv, NEW t \in Tools
    PROVE  Parsed(t) \in Seq(Pids)
<1>1. todo[t] \in Seq(Pids) /\ Len(todo[t]) \in Nat /\ ParserMax[t] \in Nat
  BY CapsAssumption DEF IInv, TypeInv
<1>2. LimitMet(t) => SubSeq(todo[t], 1, ParserMax[t]) \in Seq(Pids)
  BY <1>1 DEF LimitMet
<1>3. QED
  BY <1>1, <1>2 DEF Parsed

\* The parser's step.
LEMMA ParseStep ==
    ASSUME IInv, NEW t \in Tools, Parse(t)
    PROVE  IInv'
<1> USE DEF IInv
<1>1. /\ UNCHANGED <<traced, capped, events, children>>
      /\ pc[t] = "tracked" /\ pc' = [pc EXCEPT ![t] = "filtering"]
      /\ todo' = [todo EXCEPT ![t] = Parsed(t)]
      /\ truncated' = [truncated EXCEPT ![t] = LimitMet(t) /\ t \notin Unflagged]
  BY DEF Parse
<1>2. traced[t] \in Seq(Pids) /\ Len(traced[t]) \in Nat
  BY DEF TypeInv
<1>3. (LimitMet(t) /\ t \notin Unflagged) \in BOOLEAN
  BY DEF LimitMet
<1>4. TypeInv'
  BY <1>1, <1>3, ParsedType DEF TypeInv
<1>5. Tracked' /\ NoOwnEvent' /\ RawOutput'
  BY <1>1 DEF Tracked, NoOwnEvent, RawOutput, TypeInv
<1>6. /\ \A u \in Tools \ {t} : pc'[u] = pc[u] /\ todo'[u] = todo[u] /\ truncated'[u] = truncated[u]
      /\ pc'[t] = "filtering" /\ todo'[t] = Parsed(t)
      /\ truncated'[t] <=> LimitMet(t) /\ t \notin Unflagged
  BY <1>1 DEF TypeInv
<1>7. \A u \in Tools : FlagLost(u)' <=> FlagLost(u)
  BY <1>1 DEF FlagLost
<1>8. ~Cut(t)' => todo'[t] = traced[t]
  BY <1>1, <1>6, <1>7, ParsesAll DEF Cut
<1>9. FilterProgress'
  <2>1. events[t] = << >> /\ LeftOf(events[t], traced[t], 0)
    BY <1>1, LeftOfNothing DEF FilterProgress, Progress
  <2>2. Progress(pc'[t], Cut(t)', traced[t], todo'[t], events[t])
    <3>1. CASE Cut(t)'
      BY <1>6, <3>1 DEF Progress
    <3>2. CASE ~Cut(t)'
      <4> DEFINE n == Len(traced[t])
      <4>1. n - n = 0 /\ \A j \in 1..n : traced[t][j] = traced[t][n - n + j]
        BY <1>2
      <4>2. LeftOf(events[t], traced[t], n - n)
        BY <2>1, <4>1
      <4>3. n - n \in Nat
        BY <4>1
      <4>4. todo'[t] = traced[t]
        BY <1>8, <3>2
      <4> HIDE DEF n
      <4>5. Len(todo'[t]) = n /\ Len(traced[t]) = n
        BY <4>4 DEF n
      <4>6. QED
        BY <1>6, <2>1, <4>1, <4>2, <4>3, <4>4, <4>5 DEF Progress
    <3>3. QED
      BY <3>1, <3>2
  <2>3. \A u \in Tools \ {t} : Cut(u)' = Cut(u)
    BY <1>6, <1>7 DEF Cut
  <2>4. QED
    BY <1>1, <1>6, <2>2, <2>3 DEF FilterProgress
<1>10. UntruncatedIsComplete'
  BY <1>1, <1>6, <1>7 DEF UntruncatedIsComplete, Complete
<1>11. QED
  BY <1>4, <1>5, <1>9, <1>10

\* One turn of the filter loop.
LEMMA FilterStep ==
    ASSUME IInv, NEW t \in Tools, FilterEvent(t)
    PROVE  IInv'
<1> USE DEF IInv
<1> DEFINE pid == Head(todo[t])
           drop == pid # NoPid /\ IsOwnPID(pid)
<1>1. /\ UNCHANGED <<pc, traced, capped, truncated, children>>
      /\ pc[t] = "filtering" /\ todo[t] # << >>
      /\ todo' = [todo EXCEPT ![t] = Tail(todo[t])]
      /\ events' = [events EXCEPT ![t] = IF drop THEN events[t] ELSE Append(events[t], pid)]
  BY DEF FilterEvent
<1>2. /\ todo[t] \in Seq(Pids) /\ events[t] \in Seq(Pids) /\ traced[t] \in Seq(Pids)
      /\ Len(todo[t]) \in Nat \ {0} /\ pid \in Pids /\ pid = todo[t][1]
      /\ Tail(todo[t]) \in Seq(Pids) /\ Len(Tail(todo[t])) = Len(todo[t]) - 1
      /\ \A j \in 1..Len(Tail(todo[t])) : Tail(todo[t])[j] = todo[t][j + 1]
  BY <1>1 DEF TypeInv
<1>3. TypeInv'
  BY <1>1, <1>2 DEF TypeInv
<1>4. Tracked'
  BY <1>1 DEF Tracked
<1>5. t \in children /\ t # NoPid /\ Self # NoPid
  BY <1>1, PidsAssumption DEF Tracked
<1>6. pid \in {Self, t} => drop
  BY <1>5 DEF IsOwnPID
<1>7. drop => ~IsOther(pid)
  BY PidsAssumption DEF IsOwnPID, IsOther, Tracked
<1> HIDE DEF drop, pid
<1>8. NoOwnEvent'
  <2> SUFFICES ASSUME NEW u \in Tools, NEW i \in 1..Len(events'[u])
               PROVE  events'[u][i] \notin {Self, u}
    BY DEF NoOwnEvent
  <2>1. CASE u # t \/ drop
    <3>1. events'[u] = events[u]
      BY <1>1, <2>1 DEF TypeInv
    <3>2. QED
      BY <3>1 DEF NoOwnEvent
  <2>2. CASE u = t /\ ~drop
    <3>1. events'[u] = Append(events[t], pid)
      BY <1>1, <2>2 DEF TypeInv
    <3>2. i \in 1..Len(events[t]) \/ events'[u][i] = pid
      BY <1>2, <3>1
    <3>3. i \in 1..Len(events[t]) => events'[u][i] = events[t][i]
      BY <1>2, <3>1
    <3>4. QED
      BY <1>6, <2>2, <3>2, <3>3 DEF NoOwnEvent
  <2>3. QED
    BY <2>1, <2>2
<1>9. FilterProgress'
  <2> DEFINE all == Len(traced[t])
             left == Len(todo[t])
             seen == all - left
  <2>0. all \in Nat /\ left \in Nat \ {0}
    BY <1>2
  <2>1. ASSUME ~Cut(t)
        PROVE  /\ Len(traced'[t]) - Len(todo'[t]) = seen + 1
               /\ seen \in Nat
               /\ \A j \in 1..Len(todo'[t]) : todo'[t][j] = traced'[t][seen + 1 + j]
               /\ LeftOf(events'[t], traced'[t], seen + 1)
    <3>1. /\ seen \in Nat
          /\ \A j \in 1..Len(todo[t]) : todo[t][j] = traced[t][seen + j]
          /\ LeftOf(events[t], traced[t], seen)
      BY <1>1, <2>1 DEF FilterProgress, Progress
    <3>2. traced' = traced /\ todo'[t] = Tail(todo[t])
      BY <1>1 DEF TypeInv
    <3>3. Len(traced'[t]) = all /\ Len(todo'[t]) = left - 1
      BY <1>2, <3>2
    <3> HIDE DEF all, left
    <3>4. Len(traced'[t]) - Len(todo'[t]) = seen + 1
      BY <2>0, <3>3
    <3>5. pid = traced[t][seen + 1]
      <4>1. 1 \in 1..left
        BY <2>0
      <4>2. QED
        BY <1>2, <3>1, <4>1 DEF left
    <3>6. \A j \in 1..Len(todo'[t]) : todo'[t][j] = traced'[t][seen + 1 + j]
      <4> SUFFICES ASSUME NEW j \in 1..(left - 1) PROVE todo[t][j + 1] = traced[t][seen + 1 + j]
        BY <1>2, <3>2, <3>3
      <4>1. j + 1 \in 1..left /\ seen + (j + 1) = seen + 1 + j
        BY <2>0, <3>1
      <4>2. QED
        BY <3>1, <4>1 DEF left
    <3> HIDE DEF seen
    <3>7. CASE drop
      <4>1. events'[t] = events[t]
        BY <1>1, <3>7 DEF TypeInv
      <4>2. LeftOf(events[t], traced[t], seen + 1)
        BY <1>2, <1>7, <3>1, <3>5, <3>7, DropsNext
      <4>3. QED
        BY <3>1, <3>2, <3>4, <3>6, <4>1, <4>2
    <3>8. CASE ~drop
      <4>1. events'[t] = Append(events[t], pid)
        BY <1>1, <3>8 DEF TypeInv
      <4>2. LeftOf(Append(events[t], pid), traced[t], seen + 1)
        BY <1>2, <3>1, <3>5, KeepsNext
      <4>3. QED
        BY <3>1, <3>2, <3>4, <3>6, <4>1, <4>2
    <3>9. QED
      BY <3>7, <3>8
  <2>2. \A u \in Tools \ {t} : todo'[u] = todo[u] /\ events'[u] = events[u]
    BY <1>1 DEF TypeInv
  <2> HIDE DEF seen, all, left
  <2>4. seen \in Nat => seen + 1 \in Nat
    OBVIOUS
  <2>5. \A u \in Tools : Cut(u)' = Cut(u)
    BY <1>1 DEF Cut, FlagLost
  <2>6. Progress(pc'[t], Cut(t)', traced'[t], todo'[t], events'[t])
    BY <1>1, <2>1, <2>4, <2>5 DEF Progress
  <2>7. QED
    BY <1>1, <2>2, <2>5, <2>6 DEF FilterProgress
<1>10. UntruncatedIsComplete'
  <2>1. \A u \in Tools : pc[u] = "returned" => events'[u] = events[u]
    BY <1>1 DEF TypeInv
  <2>2. QED
    BY <1>1, <2>1 DEF UntruncatedIsComplete, Complete, FlagLost
<1>11. RawOutput'
  BY <1>1 DEF RawOutput, TypeInv
<1>12. QED
  BY <1>3, <1>4, <1>8, <1>9, <1>10, <1>11

\* The cap: what is cut off is said, and a result that is not cut is what the loop kept.
LEMMA CapStep ==
    ASSUME IInv, NEW t \in Tools, CapAndReturn(t)
    PROVE  IInv'
<1> USE DEF IInv
<1>1. /\ UNCHANGED <<traced, capped, todo>>
      /\ pc[t] = "filtering" /\ todo[t] = << >>
      /\ pc' = [pc EXCEPT ![t] = "returned"]
      /\ children' = children \ {t}
  BY DEF CapAndReturn
<1>2. events[t] \in Seq(Pids) /\ traced[t] \in Seq(Pids) /\ Len(traced[t]) \in Nat
  BY DEF TypeInv
<1>3. \/ /\ Len(events[t]) > CfgMax
         /\ events' = [events EXCEPT ![t] = SubSeq(events[t], 1, CfgMax)]
         /\ truncated' = [truncated EXCEPT ![t] = TRUE]
      \/ UNCHANGED events /\ UNCHANGED truncated
  BY DEF CapAndReturn, OverCfgMax
<1>4. /\ \A u \in Tools \ {t} : /\ pc'[u] = pc[u] /\ events'[u] = events[u]
                               /\ truncated'[u] = truncated[u]
      /\ pc'[t] = "returned"
      /\ ~truncated'[t] => events'[t] = events[t] /\ ~truncated[t]
  BY <1>1, <1>3 DEF TypeInv
<1>5. Len(events[t]) > CfgMax =>
         /\ SubSeq(events[t], 1, CfgMax) \in Seq(Pids)
         /\ Len(SubSeq(events[t], 1, CfgMax)) = CfgMax
         /\ \A i \in 1..CfgMax : /\ SubSeq(events[t], 1, CfgMax)[i] = events[t][i]
                                 /\ i \in 1..Len(events[t])
  BY <1>2, CapsAssumption
<1>6. TypeInv'
  BY <1>1, <1>3, <1>5 DEF TypeInv
<1>7. Tracked'
  BY <1>1, <1>4 DEF Tracked
<1>8. NoOwnEvent'
  <2>1. \A i \in 1..Len(events'[t]) : events'[t][i] \notin {Self, t}
    BY <1>3, <1>5 DEF NoOwnEvent, TypeInv
  <2>2. QED
    BY <1>4, <2>1 DEF NoOwnEvent
<1>9. FilterProgress'
  <2>1. Progress(pc'[t], Cut(t)', traced[t], todo[t], events'[t])
    BY <1>4 DEF Progress
  <2>2. \A u \in Tools \ {t} : Cut(u)' = Cut(u)
    BY <1>1, <1>4 DEF Cut, FlagLost
  <2>3. QED
    BY <1>1, <1>4, <2>1, <2>2 DEF FilterProgress, Progress
<1>10. UntruncatedIsComplete'
  <2>1. ASSUME ~Cut(t)
        PROVE  LeftOf(events[t], traced[t], Len(traced[t]))
    <3>1. LeftOf(events[t], traced[t], Len(traced[t]) - Len(todo[t]))
      BY <1>1, <2>1 DEF FilterProgress, Progress
    <3>2. Len(traced[t]) - Len(todo[t]) = Len(traced[t])
      BY <1>1, <1>2
    <3>3. QED
      BY <3>1, <3>2
  <2>2. \A u \in Tools : FlagLost(u)' <=> FlagLost(u)
    BY <1>1 DEF FlagLost
  <2>3. QED
    BY <1>1, <1>4, <2>1, <2>2 DEF UntruncatedIsComplete, Complete, Cut
<1>11. RawOutput'
  BY <1>1 DEF RawOutput, TypeInv
<1>12. QED
  BY <1>6, <1>7, <1>8, <1>9, <1>10, <1>11

\* IInv is inductive.
LEMMA StepIInv == IInv /\ [Next]_vars => IInv'
<1> SUFFICES ASSUME IInv, [Next]_vars PROVE IInv'
  OBVIOUS
<1>1. CASE UNCHANGED vars \/ SnapshotAfter \/ Finished
  <2>1. UNCHANGED <<pc, traced, capped, todo, events, truncated, children>>
    BY <1>1 DEF SnapshotAfter, Finished, vars
  <2>2. QED
    BY <2>1 DEF IInv, TypeInv, Tracked, NoOwnEvent, RawOutput, FilterProgress, Progress,
                Cut, FlagLost, UntruncatedIsComplete, Complete
<1>2. ASSUME NEW t \in Tools, NEW pid \in Pids, Trace(t, pid) PROVE IInv'
  BY <1>2, TraceStep
<1>3. ASSUME NEW t \in Tools, Parse(t) PROVE IInv'
  BY <1>3, ParseStep
<1>4. ASSUME NEW t \in Tools, FilterEvent(t) PROVE IInv'
  BY <1>4, FilterStep
<1>5. ASSUME NEW t \in Tools, CapAndReturn(t) PROVE IInv'
  BY <1>5, CapStep
<1>6. ASSUME NEW t \in Tools,
             Start(t) \/ RunFails(t) \/ Add(t) \/ ParseFails(t)
      PROVE  IInv'
  BY <1>6, EarlySteps
<1>7. ASSUME NEW t \in Tools, RunReturns(t) PROVE IInv'
  BY <1>7, ReturnStep
<1>8. QED
  BY <1>1, <1>2, <1>3, <1>4, <1>5, <1>6, <1>7 DEF Next
-----------------------------------------------------------------------------
\* The types, the tracker and the progress of every filter loop, in every run.
THEOREM Invariance == Spec => []IInv
<1>1. Init => IInv
  BY InitIInv
<1>2. IInv /\ [Next]_vars => IInv'
  BY StepIInv
<1>3. QED
  BY <1>1, <1>2, PTL DEF Spec

\* A result never holds an event of melisai or of its own tool: the child is in the
\* tracker for as long as its filter loop runs.
THEOREM OwnEventsOut == Spec => []OwnEventsExcluded
<1>1. IInv => OwnEventsExcluded
  BY DEF IInv, NoOwnEvent, OwnEventsExcluded, Events
<1>2. QED
  BY <1>1, Invariance, PTL

\* A result that does not say Truncated has every event of every other process in order,
\* however the executor's cap, the parser's limit and the limit of the configuration meet,
\* except stacks that the cap cut and events of a parser that drops its flag.
THEOREM ResultsComplete == Spec => []UntruncatedIsComplete
<1>1. IInv => UntruncatedIsComplete
  BY DEF IInv
<1>2. QED
  BY <1>1, Invariance, PTL

\* Every return path of Collect takes its child out of the tracker.
THEOREM NoChildLeft == Spec => []TrackerDrained
<1>1. IInv => TrackerDrained
  BY DEF IInv, Tracked, TrackerDrained, AllReturned
<1>2. QED
  BY <1>1, Invariance, PTL
=============================================================================
