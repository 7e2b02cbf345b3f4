---------------------------- MODULE RegionProofs ----------------------------
(***************************************************************************)
(* The start gate and the publication of results, for any number of        *)
(* workers: no wake is lost (if futex_wake wakes all), nothing is worked   *)
(* on behind a closed gate, what is counted can be read, and the verdict   *)
(* of results_ok is right.                                                 *)
(***************************************************************************)
EXTENDS Region, FiniteSetTheorems, TLAPS

-----------------------------------------------------------------------------
(* The inductive invariant, in parts. *)

\* launch_job: workers are forked in order, and the gate is opened when there is no more to fork.
ForkInv ==
    /\ \E k \in 0..nchunks : Born = 1..k
    /\ parent = "fork" => gate = 0 /\ ~aborting /\ Born # Workers
    /\ parent \notin {"fork", "crashed"} \/ gate = 1 => aborting \/ Born = Workers

\* Only a worker that has seen the gate open works, or has anything good to publish.
GateInv == \A w \in Workers : at[w] = "work" \/ good[w] => gate = 1

\* How far a worker is with its slot, and what its exit code says of it.
SlotInv ==
    \A w \in Workers :
        /\ at[w] \in {"unborn", "limits", "load", "wait", "asleep", "work"} => made[w] = 0
        /\ at[w] = "fill" => made[w] < Stores
        /\ at[w] \in {"publish", "notify", "exit"} => made[w] = Stores
        /\ at[w] = "gone" <=> code[w] # "none"
        /\ code[w] = "exited:0" => good[w]
        /\ code[w] \in {"exited:0", "exited:1"} => made[w] = Stores

\* The controller has a verdict when it has reaped every worker, or has given up.
EndInv ==
    /\ parent = "kill" => aborting
    /\ parent = "loop" => ~aborting
    /\ result # "none" => parent = "ended"
    /\ parent = "ended" /\ ~aborting => reaped = Workers
    /\ ~aborting => \A w \in reaped : visible[w] = made[w]

\* chunks_done lies between the slots that were published for certain and the slots that are
\* whole and visible.
Published == {w \in Workers : at[w] \in {"notify", "exit"} \/ code[w] \in {"exited:0", "exited:1"}}
Whole     == {w \in Workers : visible[w] = Stores /\ at[w] # "publish"}
CountInv  == Cardinality(Published) <= done /\ done <= Cardinality(Whole)

RegionInv == TypeOK /\ ForkInv /\ GateInv /\ SlotInv /\ EndInv /\ CountInv /\ VerdictIsRight

LEMMA WorkersFinite == IsFiniteSet(Workers) /\ Cardinality(Workers) = nchunks
BY RegionAssumption, FS_Interval DEF Workers

LEMMA InitOK == Init => RegionInv
<1>. SUFFICES ASSUME Init PROVE RegionInv
  OBVIOUS
<1>1. TypeOK
  <2>1. at \in [Workers -> {"unborn", "limits", "load", "wait", "asleep", "work", "fill",
                           "publish", "notify", "exit", "gone"}]
    BY DEF Init
  <2>2. spurious \in [Workers -> 0..MaxSpurious]
    BY RegionAssumption DEF Init
  <2>3. made \in [Workers -> 0..Stores] /\ visible \in [Workers -> 0..Stores]
    BY RegionAssumption DEF Init
  <2>4. good \in [Workers -> BOOLEAN]
    BY DEF Init
  <2>5. code \in [Workers -> {"none", "exited:0", "exited:1", "killed"}]
    BY DEF Init
  <2>6. \A w \in Workers : visible[w] <= made[w]
    BY DEF Init
  <2>7. gate \in 0..1 /\ done \in Nat /\ event \in Nat /\ seen \in 0..done
    BY DEF Init
  <2>8. aborting \in BOOLEAN
    BY Zenon DEF Init
  <2>9. /\ parent \in {"fork", "store", "wake", "kill", "loop", "ended", "crashed"}
        /\ result \in {"none", "ok", "failed"}
        /\ reaped \subseteq {w \in Workers : at[w] = "gone"}
    BY DEF Init
  <2>. QED  BY <2>1, <2>2, <2>3, <2>4, <2>5, <2>6, <2>7, <2>8, <2>9 DEF TypeOK
<1>0. GateInv /\ SlotInv /\ EndInv /\ VerdictIsRight
  BY RegionAssumption DEF Init, GateInv, SlotInv, EndInv, VerdictIsRight
<1>2. ForkInv
  <2>1. Born = {}
    BY DEF Init, Born
  <2>2. 1..0 = {} /\ 0 \in 0..nchunks /\ 1 \in Workers
    BY RegionAssumption DEF Workers
  <2>. QED  BY <2>1, <2>2, RegionAssumption DEF Init, ForkInv
<1>3. CountInv
  <2>1. Published = {} /\ Whole = {}
    BY RegionAssumption DEF Init, Published, Whole
  <2>. QED  BY <2>1, FS_EmptySet DEF Init, CountInv
<1>. QED  BY <1>0, <1>1, <1>2, <1>3 DEF RegionInv

-----------------------------------------------------------------------------
(* Types. *)

\* The next worker to fork is one that is not born yet.
LEMMA NextBorn ==
    ASSUME ForkInv, parent = "fork"
    PROVE  /\ Cardinality(Born) \in 0..(nchunks - 1)
           /\ Born = 1..Cardinality(Born)
<1>1. PICK k \in 0..nchunks : Born = 1..k
  BY DEF ForkInv
<1>2. Cardinality(Born) = k
  BY <1>1, FS_Interval
<1>3. k # nchunks
  BY <1>1 DEF ForkInv, Workers
<1>. QED  BY <1>1, <1>2, <1>3, RegionAssumption

LEMMA TypeStep == TypeOK /\ ForkInv /\ SlotInv /\ [Next]_vars => TypeOK'
<1>. SUFFICES ASSUME TypeOK, ForkInv, SlotInv, [Next]_vars PROVE TypeOK'
  OBVIOUS
<1>. USE RegionAssumption DEF TypeOK
<1>1. CASE UNCHANGED vars
  BY <1>1 DEF vars, gateVars, slotVars, parentVars
<1>2. CASE Fork
  <2>1. Cardinality(Born) + 1 \in Workers /\ Cardinality(Born) + 1 \notin reaped
    <3>. DEFINE n == Cardinality(Born)
    <3>1. n \in 0..(nchunks - 1) /\ Born = 1..n
      BY <1>2, NextBorn DEF Fork
    <3>2. n + 1 \in Workers /\ n + 1 \notin Born
      BY <3>1 DEF Workers
    <3>. QED  BY <3>2 DEF Born
  <2>. QED  BY <1>2, <2>1 DEF Fork, slotVars
<1>3. CASE ForkFails \/ StoreGate \/ Crash
  <2>1. CASE ForkFails
    BY <2>1 DEF ForkFails, gateVars, slotVars
  <2>2. CASE StoreGate
    BY <2>2 DEF StoreGate, slotVars
  <2>3. CASE Crash
    BY <2>3 DEF Crash, gateVars, slotVars
  <2>. QED  BY <1>3, <2>1, <2>2, <2>3
<1>4. CASE Wake
  <2>1. PICK S \in Woken : at' = [w \in Workers |-> IF w \in S THEN "load" ELSE at[w]]
    BY <1>4 DEF Wake
  <2>2. S \subseteq Asleep
    BY DEF Woken
  <2>. QED  BY <1>4, <2>1, <2>2 DEF Wake, Asleep, slotVars
<1>5. CASE Abort
  BY <1>5 DEF Abort, slotVars, Born, Alive
<1>6. CASE OnEvent \/ Finalize
  BY <1>6 DEF OnEvent, Finalize, gateVars, slotVars
<1>7. ASSUME NEW w \in Workers, Reap(w) PROVE TypeOK'
  BY <1>7 DEF Reap, gateVars, slotVars
<1>8. ASSUME NEW w \in Workers, Runs(w) \/ Spurious(w) \/ Killed(w) PROVE TypeOK'
  <2>1. CASE Limits(w) \/ Timeout(w) \/ Work(w)
    BY <2>1, ZenonT(30) DEF Limits, Timeout, Work, Fills, Goes, slotVars, parentVars
  <2>6. CASE Load(w) \/ Sleep(w) \/ Spurious(w)
    BY <2>6 DEF Load, Sleep, Spurious, Goes, slotVars, parentVars
  <2>2. CASE Publish(w) \/ Notify(w)
    BY <2>2 DEF Publish, Notify, Goes, slotVars, parentVars
  <2>3. CASE Store(w)
    BY <2>3 DEF Store, Goes, parentVars, SlotInv
  <2>4. CASE Propagate(w)
    BY <2>4 DEF Propagate, gateVars, parentVars
  <2>5. CASE Exit(w) \/ Killed(w)
    BY <2>5 DEF Exit, Killed, Ends, Goes, Alive, Born, slotVars, parentVars
  <2>. QED  BY <1>8, <2>1, <2>2, <2>3, <2>4, <2>5, <2>6 DEF Runs
<1>. QED  BY <1>1, <1>2, <1>3, <1>4, <1>5, <1>6, <1>7, <1>8 DEF Next, Launches, Loops

-----------------------------------------------------------------------------
(* The gate. *)

\* A step of one worker leaves the others, the gate and the controller alone.
LEMMA OneWorker ==
    ASSUME TypeOK, NEW w \in Workers, Runs(w) \/ Spurious(w) \/ Killed(w)
    PROVE  /\ \A v \in Workers \ {w} : at'[v] = at[v] /\ good'[v] = good[v]
           /\ UNCHANGED <<gate, parent, aborting, seen, reaped, result>>
           /\ at[w] # "unborn" => at'[w] # "unborn"
           /\ at[w] = "unborn" => at'[w] = "unborn"
           /\ at'[w] = "work" => gate = 1 \/ at[w] = "work"
           /\ good'[w] => good[w] \/ at[w] = "work"
           /\ at'[w] = "asleep" => gate = 0 \/ at[w] = "asleep"
<1>. USE DEF TypeOK, Goes, slotVars, parentVars
<1>1. CASE Limits(w) \/ Timeout(w) \/ Work(w)
  BY <1>1 DEF Limits, Timeout, Work, Fills
<1>2. CASE Load(w) \/ Sleep(w) \/ Spurious(w)
  BY <1>2 DEF Load, Sleep, Spurious
<1>3. CASE Store(w) \/ Publish(w) \/ Notify(w)
  BY <1>3 DEF Store, Publish, Notify
<1>4. CASE Propagate(w)
  BY <1>4 DEF Propagate, gateVars
<1>5. CASE Exit(w) \/ Killed(w)
  BY <1>5 DEF Exit, Killed, Ends, Alive, Born
<1>. QED  BY <1>1, <1>2, <1>3, <1>4, <1>5 DEF Runs

\* Only Fork makes a worker.
LEMMA BornStays ==
    ASSUME TypeOK, [Next]_vars, ~Fork
    PROVE  Born' = Born
<1>1. CASE UNCHANGED vars
  BY <1>1 DEF vars, gateVars, Born
<1>2. CASE ForkFails \/ StoreGate \/ Crash \/ OnEvent \/ Finalize \/ \E w \in Workers : Reap(w)
  BY <1>2 DEF ForkFails, StoreGate, Crash, OnEvent, Finalize, Reap, gateVars, Born
<1>3. CASE Wake
  BY <1>3 DEF Wake, Woken, Asleep, Born
<1>4. CASE Abort
  BY <1>4 DEF Abort, Born
<1>5. ASSUME NEW w \in Workers, Runs(w) \/ Spurious(w) \/ Killed(w) PROVE Born' = Born
  BY <1>5, OneWorker DEF Born
<1>. QED  BY <1>1, <1>2, <1>3, <1>4, <1>5 DEF Next, Launches, Loops

LEMMA ForkStep == TypeOK /\ ForkInv /\ [Next]_vars => ForkInv'
<1>. SUFFICES ASSUME TypeOK, ForkInv, [Next]_vars PROVE ForkInv'
  OBVIOUS
<1>. USE RegionAssumption
<1>1. CASE Fork
  <2>. DEFINE n == Cardinality(Born)
  <2>1. n \in 0..(nchunks - 1) /\ Born = 1..n
    BY <1>1, NextBorn DEF Fork
  <2>2. Born' = 1..(n + 1)
    <3>1. at' = [at EXCEPT ![n + 1] = "limits"] /\ n + 1 \in Workers
      BY <1>1, <2>1 DEF Fork, Workers
    <3>2. Born' = Born \cup {n + 1}
      BY <3>1 DEF Born, TypeOK
    <3>. QED  BY <2>1, <3>2
  <2>3. gate' = 0 /\ ~aborting' /\ parent' = IF n + 1 = nchunks THEN "store" ELSE "fork"
    BY <1>1 DEF Fork, ForkInv
  <2>4. n + 1 # nchunks => nchunks \in Workers /\ nchunks \notin Born'
    BY <2>1, <2>2 DEF Workers
  <2>5. n + 1 = nchunks => Born' = Workers
    BY <2>2 DEF Workers
  <2>6. n + 1 \in 0..nchunks
    BY <2>1
  <2>. QED  BY <2>2, <2>3, <2>4, <2>5, <2>6 DEF ForkInv, Workers
<1>2. CASE ~Fork
  <2>1. Born' = Born
    BY <1>2, BornStays
  <2>2. Workers' = Workers
    BY DEF Workers
  <2>3. CASE UNCHANGED <<parent, aborting, gate>>
    BY <2>1, <2>2, <2>3 DEF ForkInv
  <2>4. CASE ForkFails
    BY <2>1, <2>2, <2>4 DEF ForkFails, ForkInv, gateVars
  <2>5. CASE StoreGate
    BY <2>1, <2>2, <2>5 DEF StoreGate, ForkInv
  <2>6. CASE Wake \/ Abort \/ Finalize \/ Crash
    BY <2>1, <2>2, <2>6 DEF Wake, Abort, Finalize, Crash, ForkInv, gateVars
  <2>7. CASE UNCHANGED vars \/ OnEvent \/ \E w \in Workers : Reap(w)
    BY <2>3, <2>7 DEF OnEvent, Reap, vars, gateVars, parentVars
  <2>8. ASSUME NEW w \in Workers, Runs(w) \/ Spurious(w) \/ Killed(w)
        PROVE  UNCHANGED <<parent, aborting, gate>>
    BY <2>8, OneWorker
  <2>. QED  BY <1>2, <2>3, <2>4, <2>5, <2>6, <2>7, <2>8 DEF Next, Launches, Loops
<1>. QED  BY <1>1, <1>2

LEMMA GateStep == TypeOK /\ GateInv /\ ForkInv /\ [Next]_vars => GateInv'
<1>. SUFFICES ASSUME TypeOK, GateInv, ForkInv, [Next]_vars PROVE GateInv'
  OBVIOUS
<1>. USE DEF GateInv
<1>1. CASE UNCHANGED vars \/ ForkFails \/ Crash \/ OnEvent \/ Finalize \/ \E w \in Workers : Reap(w)
  BY <1>1 DEF vars, ForkFails, Crash, OnEvent, Finalize, Reap, gateVars, slotVars
<1>2. CASE Fork
  BY <1>2 DEF Fork, slotVars, TypeOK
<1>3. CASE StoreGate
  BY <1>3 DEF StoreGate
<1>4. CASE Wake
  BY <1>4 DEF Wake, slotVars, TypeOK
<1>5. CASE Abort
  BY <1>5 DEF Abort, slotVars, TypeOK
<1>6. ASSUME NEW w \in Workers, Runs(w) \/ Spurious(w) \/ Killed(w) PROVE GateInv'
  BY <1>6, OneWorker
<1>. QED  BY <1>1, <1>2, <1>3, <1>4, <1>5, <1>6 DEF Next, Launches, Loops

LEMMA WakeStep == WakesAll /\ TypeOK /\ NoLostWake /\ [Next]_vars => NoLostWake'
<1>. SUFFICES ASSUME WakesAll, TypeOK, NoLostWake, [Next]_vars PROVE NoLostWake'
  OBVIOUS
<1>. USE DEF NoLostWake, Asleep
<1>1. CASE UNCHANGED vars \/ ForkFails \/ Crash \/ OnEvent \/ Finalize \/ \E w \in Workers : Reap(w)
  BY <1>1 DEF vars, ForkFails, Crash, OnEvent, Finalize, Reap, gateVars, parentVars
<1>2. CASE Fork
  BY <1>2 DEF Fork, TypeOK
<1>3. CASE StoreGate
  BY <1>3 DEF StoreGate
<1>4. CASE Wake
  BY <1>4 DEF Wake, Woken, TypeOK
<1>5. CASE Abort
  BY <1>5 DEF Abort, Born, TypeOK
<1>6. ASSUME NEW w \in Workers, Runs(w) \/ Spurious(w) \/ Killed(w) PROVE NoLostWake'
  BY <1>6, OneWorker DEF TypeOK
<1>. QED  BY <1>1, <1>2, <1>3, <1>4, <1>5, <1>6 DEF Next, Launches, Loops

-----------------------------------------------------------------------------
(* Slots and exit codes. *)

LEMMA SlotStep == TypeOK /\ SlotInv /\ ForkInv /\ [Next]_vars => SlotInv'
<1>. SUFFICES ASSUME TypeOK, SlotInv, ForkInv, [Next]_vars PROVE SlotInv'
  OBVIOUS
<1>. USE RegionAssumption DEF TypeOK, SlotInv
<1>1. CASE UNCHANGED vars \/ ForkFails \/ StoreGate \/ Crash \/ OnEvent \/ Finalize
           \/ \E w \in Workers : Reap(w)
  BY <1>1 DEF vars, ForkFails, StoreGate, Crash, OnEvent, Finalize, Reap, gateVars, slotVars
<1>2. CASE Fork
  <2>. DEFINE n == Cardinality(Born)
  <2>1. n + 1 \in Workers /\ n + 1 \notin Born
    BY <1>2, NextBorn, SMTT(20) DEF Fork, Workers
  <2>2. at' = [at EXCEPT ![n + 1] = "limits"] /\ UNCHANGED <<good, made, code>>
    BY <1>2 DEF Fork, slotVars
  <2>. QED  BY <2>1, <2>2 DEF Born
<1>3. CASE Wake
  <2>1. PICK S \in Woken : at' = [w \in Workers |-> IF w \in S THEN "load" ELSE at[w]]
    BY <1>3 DEF Wake
  <2>2. S \subseteq Asleep /\ UNCHANGED <<good, made, code>>
    BY <1>3 DEF Woken, Wake, slotVars
  <2>. QED  BY <2>1, <2>2 DEF Asleep
<1>4. CASE Abort
  BY <1>4 DEF Abort, Born, Alive, slotVars
<1>5. ASSUME NEW w \in Workers, Runs(w) \/ Spurious(w) \/ Killed(w) PROVE SlotInv'
  <2>1. CASE Limits(w) \/ Timeout(w) \/ Work(w)
    BY <2>1 DEF Limits, Timeout, Work, Fills, Goes, slotVars
  <2>2. CASE Load(w) \/ Sleep(w) \/ Spurious(w)
    BY <2>2 DEF Load, Sleep, Spurious, Goes, slotVars
  <2>3. CASE Store(w)
    BY <2>3 DEF Store, Goes
  <2>4. CASE Publish(w) \/ Notify(w)
    BY <2>4 DEF Publish, Notify, Goes, slotVars
  <2>5. CASE Propagate(w)
    BY <2>5 DEF Propagate, gateVars
  <2>6. CASE Exit(w) \/ Killed(w)
    BY <2>6 DEF Exit, Killed, Ends, Goes, slotVars
  <2>. QED  BY <1>5, <2>1, <2>2, <2>3, <2>4, <2>5, <2>6 DEF Runs
<1>. QED  BY <1>1, <1>2, <1>3, <1>4, <1>5 DEF Next, Launches, Loops

\* What a worker has done stays as it is once it has ended.
LEMMA GoneStays ==
    ASSUME TypeOK, [Next]_vars, ~Fork, NEW w \in Workers, at[w] = "gone"
    PROVE  /\ at'[w] = "gone" /\ good'[w] = good[w] /\ made'[w] = made[w] /\ code'[w] = code[w]
           /\ visible[w] = made[w] => visible'[w] = visible[w]
<1>. USE DEF TypeOK
<1>1. CASE UNCHANGED vars \/ ForkFails \/ StoreGate \/ Crash \/ OnEvent \/ Finalize
           \/ \E v \in Workers : Reap(v)
  BY <1>1 DEF vars, ForkFails, StoreGate, Crash, OnEvent, Finalize, Reap, gateVars, slotVars
<1>2. CASE Wake
  BY <1>2 DEF Wake, Woken, Asleep, slotVars
<1>3. CASE Abort
  BY <1>3 DEF Abort, Born, Alive, slotVars
<1>4. ASSUME NEW v \in Workers, Runs(v) \/ Spurious(v) \/ Killed(v)
      PROVE  /\ at'[w] = "gone" /\ good'[w] = good[w] /\ made'[w] = made[w] /\ code'[w] = code[w]
             /\ visible[w] = made[w] => visible'[w] = visible[w]
  <2>1. CASE Limits(v) \/ Timeout(v) \/ Work(v)
    BY <2>1 DEF Limits, Timeout, Work, Fills, Goes, slotVars
  <2>2. CASE Load(v) \/ Sleep(v) \/ Spurious(v)
    BY <2>2 DEF Load, Sleep, Spurious, Goes, slotVars
  <2>3. CASE Store(v) \/ Publish(v) \/ Notify(v)
    BY <2>3 DEF Store, Publish, Notify, Goes, slotVars
  <2>4. CASE Propagate(v)
    BY <2>4 DEF Propagate, gateVars
  <2>5. CASE Exit(v) \/ Killed(v)
    BY <2>5 DEF Exit, Killed, Ends, Goes, Alive, slotVars
  <2>. QED  BY <1>4, <2>1, <2>2, <2>3, <2>4, <2>5 DEF Runs
<1>. QED  BY <1>1, <1>2, <1>3, <1>4 DEF Next, Launches, Loops

\* Fork leaves alone what has ended, too.
LEMMA ForkLeaves ==
    ASSUME TypeOK, ForkInv, Fork, NEW w \in Workers, at[w] = "gone"
    PROVE  at'[w] = "gone" /\ UNCHANGED <<good, made, visible, code>>
<1>1. Cardinality(Born) + 1 # w
  BY NextBorn DEF Fork, Born, Workers
<1>. QED  BY <1>1 DEF Fork, TypeOK, slotVars

LEMMA EndStep == TypeOK /\ EndInv /\ ForkInv /\ [Next]_vars => EndInv'
<1>. SUFFICES ASSUME TypeOK, EndInv, ForkInv, [Next]_vars PROVE EndInv'
  OBVIOUS
<1>. DEFINE SlotsIn == ~aborting => \A w \in reaped : visible[w] = made[w]
            Phases  == /\ parent = "kill" => aborting
                       /\ parent = "loop" => ~aborting
                       /\ result # "none" => parent = "ended"
                       /\ parent = "ended" /\ ~aborting => reaped = Workers
<1>1. Phases'
  <2>. USE DEF EndInv
  <2>1. CASE UNCHANGED parentVars
    BY <2>1 DEF parentVars, Workers
  <2>2. CASE Fork \/ ForkFails \/ StoreGate \/ Wake \/ Crash
    BY <2>2 DEF Fork, ForkFails, StoreGate, Wake, Crash, ForkInv
  <2>3. CASE Abort
    <3>1. aborting' /\ parent' = "ended"
      BY <2>3 DEF Abort
    <3>. QED  BY <3>1
  <2>4. CASE OnEvent \/ Finalize \/ \E w \in Workers : Reap(w)
    BY <2>4 DEF OnEvent, Finalize, Reap, Workers
  <2>5. ASSUME NEW w \in Workers, Runs(w) \/ Spurious(w) \/ Killed(w) PROVE UNCHANGED parentVars
    BY <2>5, OneWorker DEF parentVars
  <2>6. CASE UNCHANGED vars
    BY <2>1, <2>6 DEF vars
  <2>. QED  BY <2>1, <2>2, <2>3, <2>4, <2>5, <2>6 DEF Next, Launches, Loops
<1>2. SlotsIn'
  <2>1. CASE Abort
    BY <2>1 DEF Abort, EndInv
  <2>2. ASSUME ~Abort, ~aborting' PROVE ~aborting
    <3>1. CASE Fork \/ ForkFails \/ StoreGate \/ Wake \/ Crash
      BY <2>2, <3>1 DEF Fork, ForkFails, StoreGate, Wake, Crash
    <3>2. CASE OnEvent \/ Finalize \/ \E w \in Workers : Reap(w)
      BY <2>2, <3>2 DEF OnEvent, Finalize, Reap
    <3>3. CASE UNCHANGED vars \/ \E w \in Workers : Runs(w) \/ Spurious(w) \/ Killed(w)
      BY <2>2, <3>3, OneWorker DEF vars, parentVars
    <3>. QED  BY <2>2, <3>1, <3>2, <3>3 DEF Next, Launches, Loops
  <2>3. ASSUME ~Abort, ~aborting', NEW w \in reaped PROVE visible'[w] = made'[w]
    <3>1. w \in Workers /\ at[w] = "gone" /\ visible[w] = made[w]
      BY <2>2, <2>3 DEF EndInv, TypeOK
    <3>. QED  BY <3>1, GoneStays, ForkLeaves
  <2>4. CASE \E w \in Workers : Reap(w)
    BY <2>2, <2>3, <2>4 DEF Reap, slotVars, Abort
  <2>5. CASE ~(Abort \/ \E w \in Workers : Reap(w))
    <3>1. reaped' = reaped
      <4>1. CASE Fork \/ ForkFails \/ StoreGate \/ Wake \/ Crash \/ OnEvent \/ Finalize
        BY <4>1 DEF Fork, ForkFails, StoreGate, Wake, Crash, OnEvent, Finalize
      <4>2. CASE UNCHANGED vars \/ \E w \in Workers : Runs(w) \/ Spurious(w) \/ Killed(w)
        BY <4>2, OneWorker DEF vars, parentVars
      <4>. QED  BY <2>5, <4>1, <4>2 DEF Next, Launches, Loops
    <3>. QED  BY <2>3, <2>5, <3>1
  <2>. QED  BY <2>1, <2>4, <2>5
<1>. QED  BY <1>1, <1>2 DEF EndInv

-----------------------------------------------------------------------------
(* The count. *)

\* Nothing but a publication changes the count or adds to it; no slot gets lost.
LEMMA CountStays ==
    ASSUME TypeOK, SlotInv, ForkInv, [Next]_vars, \A w \in Workers : ~Publish(w)
    PROVE  done' = done /\ Published' \subseteq Published /\ Whole \subseteq Whole'
<1>. USE RegionAssumption DEF TypeOK, SlotInv, Published, Whole
<1>1. CASE UNCHANGED vars \/ ForkFails \/ StoreGate \/ Crash \/ OnEvent \/ Finalize
           \/ \E w \in Workers : Reap(w)
  BY <1>1 DEF vars, ForkFails, StoreGate, Crash, OnEvent, Finalize, Reap, gateVars, slotVars
<1>2. CASE Fork
  BY <1>2 DEF Fork, slotVars
<1>3. CASE Wake
  BY <1>3 DEF Wake, slotVars
<1>4. CASE Abort
  BY <1>4 DEF Abort, Born, Alive, slotVars
<1>5. ASSUME NEW w \in Workers, Runs(w) \/ Spurious(w) \/ Killed(w)
      PROVE  done' = done /\ Published' \subseteq Published /\ Whole \subseteq Whole'
  <2>1. CASE Limits(w) \/ Timeout(w) \/ Work(w)
    BY <2>1 DEF Limits, Timeout, Work, Fills, Goes, slotVars
  <2>2. CASE Load(w) \/ Sleep(w) \/ Spurious(w)
    BY <2>2 DEF Load, Sleep, Spurious, Goes, slotVars
  <2>3. CASE Store(w)
    BY <2>3 DEF Store, Goes
  <2>4. CASE Notify(w)
    BY <2>4 DEF Notify, Goes, slotVars
  <2>5. CASE Propagate(w)
    BY <2>5 DEF Propagate, gateVars
  <2>6. CASE Exit(w) \/ Killed(w)
    BY <2>6 DEF Exit, Killed, Ends, Goes, slotVars
  <2>. QED  BY <1>5, <2>1, <2>2, <2>3, <2>4, <2>5, <2>6 DEF Runs
<1>. QED  BY <1>1, <1>2, <1>3, <1>4, <1>5 DEF Next, Launches, Loops

LEMMA CountStep == TypeOK /\ SlotInv /\ ForkInv /\ CountInv /\ [Next]_vars => CountInv'
<1>. SUFFICES ASSUME TypeOK, SlotInv, ForkInv, CountInv, [Next]_vars PROVE CountInv'
  OBVIOUS
<1>1. /\ Published \subseteq Workers /\ Published' \subseteq Workers
      /\ Whole \subseteq Workers /\ Whole' \subseteq Workers
  BY DEF Published, Whole, Workers
<1>2. /\ IsFiniteSet(Published) /\ IsFiniteSet(Published') /\ IsFiniteSet(Whole)
      /\ IsFiniteSet(Whole')
  BY <1>1, WorkersFinite, FS_Subset
<1>3. /\ Cardinality(Published) \in Nat /\ Cardinality(Published') \in Nat
      /\ Cardinality(Whole) \in Nat /\ Cardinality(Whole') \in Nat
  BY <1>2, FS_CardinalityType
<1>4. CASE \A w \in Workers : ~Publish(w)
  <2>1. done' = done /\ Published' \subseteq Published /\ Whole \subseteq Whole'
    BY <1>4, CountStays
  <2>2. Cardinality(Published') <= Cardinality(Published)
    BY <1>2, <2>1, FS_Subset
  <2>3. Cardinality(Whole) <= Cardinality(Whole')
    BY <1>2, <2>1, FS_Subset
  <2>. QED  BY <1>3, <2>1, <2>2, <2>3 DEF CountInv, TypeOK
<1>5. ASSUME NEW w \in Workers, Publish(w) PROVE CountInv'
  <2>1. done' = done + 1
    BY <1>5 DEF Publish
  <2>2. Published' \subseteq Published \cup {w} /\ Whole' = Whole \cup {w} /\ w \notin Whole
    BY <1>5 DEF Publish, Goes, slotVars, Published, Whole, TypeOK, SlotInv
  <2>3. /\ Cardinality(Published \cup {w}) <= Cardinality(Published) + 1
        /\ IsFiniteSet(Published \cup {w})
    <3>1. /\ IsFiniteSet(Published \cup {w})
          /\ Cardinality(Published \cup {w}) =
                IF w \in Published THEN Cardinality(Published) ELSE Cardinality(Published) + 1
      BY <1>2, FS_AddElement
    <3>. QED  BY <1>3, <3>1
  <2>4. Cardinality(Published') <= Cardinality(Published \cup {w})
    BY <2>2, <2>3, FS_Subset
  <2>5. Cardinality(Whole') = Cardinality(Whole) + 1
    BY <1>2, <2>2, FS_AddElement
  <2>6. Cardinality(Published \cup {w}) \in Nat
    BY <2>3, FS_CardinalityType
  <2>. QED  BY <1>3, <2>1, <2>3, <2>4, <2>5, <2>6 DEF CountInv, TypeOK
<1>. QED  BY <1>4, <1>5

\* As many slots as are counted are whole and visible.
LEMMA CountedAreWhole == RegionInv => CountedSlotsAreVisible
<1>. SUFFICES ASSUME RegionInv PROVE CountedSlotsAreVisible
  OBVIOUS
<1>. DEFINE Seen == {w \in Workers : visible[w] = Stores}
<1>1. IsFiniteSet(Seen)
  BY WorkersFinite, FS_Subset
<1>2. Cardinality(Whole) <= Cardinality(Seen)
  BY <1>1, FS_Subset DEF Whole
<1>3. Cardinality(Whole) \in Nat /\ Cardinality(Seen) \in Nat
  BY <1>1, WorkersFinite, FS_Subset, FS_CardinalityType DEF Whole
<1>4. seen <= done /\ done <= Cardinality(Whole) /\ seen \in Nat /\ done \in Nat
  BY DEF RegionInv, TypeOK, CountInv
<1>. QED  BY <1>2, <1>3, <1>4 DEF CountedSlotsAreVisible

-----------------------------------------------------------------------------
(* The verdict. *)

\* When every worker is reaped, results_ok is that all of them have exited with 0.
LEMMA AllExited ==
    ASSUME TypeOK, SlotInv, EndInv, CountInv, ~aborting, reaped = Workers,
           \A w \in Workers : code[w] = "exited:0"
    PROVE  results_ok
<1>1. Published = Workers
  BY DEF Published
<1>2. done >= nchunks
  BY <1>1, WorkersFinite, RegionAssumption DEF CountInv, TypeOK
<1>3. \A w \in Workers : SlotOk(w)
  BY DEF SlotOk, SlotInv, EndInv
<1>. QED  BY <1>2, <1>3 DEF results_ok

LEMMA VerdictStep == RegionInv /\ [Next]_vars => VerdictIsRight'
<1>. SUFFICES ASSUME RegionInv, [Next]_vars PROVE VerdictIsRight'
  OBVIOUS
<1>. USE DEF RegionInv
<1>1. CASE Finalize
  <2>1. /\ reaped = Workers /\ ~aborting
        /\ result' = IF results_ok THEN "ok" ELSE "failed"
        /\ UNCHANGED <<at, good, visible, code, aborting>>
    BY <1>1 DEF Finalize, EndInv, gateVars, slotVars
  <2>2. \A w \in Workers : at[w] = "gone"
    BY <2>1 DEF TypeOK
  <2>3. CASE results_ok
    BY <2>1, <2>2, <2>3 DEF results_ok, VerdictIsRight, SlotOk
  <2>4. CASE ~results_ok
    <3>1. \E w \in Workers : code[w] # "exited:0"
      BY <2>1, <2>4, AllExited
    <3>. QED  BY <2>1, <2>4, <3>1 DEF VerdictIsRight, Workers
  <2>. QED  BY <2>3, <2>4
<1>2. CASE Abort
  BY <1>2 DEF Abort, EndInv, VerdictIsRight
<1>3. CASE ~Finalize /\ ~Abort
  <2>1. result' = result
    <3>1. CASE Fork \/ ForkFails \/ StoreGate \/ Wake \/ Crash \/ OnEvent \/ \E w \in Workers : Reap(w)
      BY <3>1 DEF Fork, ForkFails, StoreGate, Wake, Crash, OnEvent, Reap
    <3>2. CASE UNCHANGED vars \/ \E w \in Workers : Runs(w) \/ Spurious(w) \/ Killed(w)
      BY <3>2, OneWorker DEF vars, parentVars
    <3>. QED  BY <1>3, <3>1, <3>2 DEF Next, Launches, Loops
  <2>2. SUFFICES ASSUME result # "none" PROVE VerdictIsRight'
    BY <2>1 DEF VerdictIsRight
  <2>3. parent = "ended" /\ ~Fork /\ ~ForkFails
    BY <2>2 DEF EndInv, Fork, ForkFails
  <2>4. aborting' = aborting
    <3>1. CASE StoreGate \/ Wake \/ Crash \/ OnEvent \/ \E w \in Workers : Reap(w)
      BY <3>1 DEF StoreGate, Wake, Crash, OnEvent, Reap
    <3>2. CASE UNCHANGED vars \/ \E w \in Workers : Runs(w) \/ Spurious(w) \/ Killed(w)
      BY <3>2, OneWorker DEF vars, parentVars
    <3>. QED  BY <1>3, <2>3, <3>1, <3>2 DEF Next, Launches, Loops
  <2>5. CASE result = "ok"
    <3>1. ASSUME NEW w \in Workers
          PROVE  visible'[w] = Stores /\ good'[w] /\ code'[w] = "exited:0" /\ at'[w] = "gone"
      <4>1. visible[w] = Stores /\ good[w] /\ code[w] = "exited:0" /\ at[w] = "gone"
        BY <2>5 DEF VerdictIsRight, SlotOk
      <4>2. visible[w] = made[w]
        BY <4>1, RegionAssumption DEF TypeOK
      <4>. QED  BY <2>3, <4>1, <4>2, GoneStays
    <3>. QED  BY <2>1, <2>5, <3>1 DEF VerdictIsRight, SlotOk, Workers
  <2>6. CASE result = "failed"
    <3>1. CASE aborting
      BY <2>1, <2>4, <2>6, <3>1 DEF VerdictIsRight
    <3>2. CASE ~aborting
      <4>1. PICK w \in Workers : code[w] # "exited:0"
        BY <2>6, <3>2 DEF VerdictIsRight
      <4>2. at[w] = "gone"
        BY <2>3, <3>2 DEF EndInv, TypeOK
      <4>3. code'[w] # "exited:0"
        BY <2>3, <4>1, <4>2, GoneStays
      <4>. QED  BY <2>1, <2>6, <4>3 DEF VerdictIsRight, Workers
    <3>. QED  BY <3>1, <3>2
  <2>. QED  BY <2>2, <2>5, <2>6 DEF TypeOK
<1>. QED  BY <1>1, <1>2, <1>3

-----------------------------------------------------------------------------
(* The theorems. *)

LEMMA RegionInvariant == Spec => []RegionInv
<1>1. RegionInv /\ [Next]_vars => RegionInv'
  BY TypeStep, ForkStep, GateStep, SlotStep, EndStep, CountStep, VerdictStep DEF RegionInv
<1>. QED  BY InitOK, <1>1, PTL DEF Spec

\* With a futex_wake that wakes every waiter, no worker sleeps in front of an open gate once
\* open_start_gate has returned, however many workers there are and however they interleave.
THEOREM NoWakeIsLost == WakesAll => (Spec => []NoLostWake)
<1>. SUFFICES ASSUME WakesAll PROVE Spec => []NoLostWake
  OBVIOUS
<1>1. Init => NoLostWake
  BY DEF Init, NoLostWake
<1>2. TypeOK /\ NoLostWake /\ [Next]_vars => NoLostWake'
  BY WakeStep
<1>3. RegionInv => TypeOK
  BY DEF RegionInv
<1>. QED  BY RegionInvariant, <1>1, <1>2, <1>3, PTL DEF Spec

\* No worker works, or publishes anything good, before launch_job has forked all of them or has
\* given the job up.
THEOREM WorkWaitsForTheGate == Spec => []GateHoldsWork
<1>1. RegionInv => GateHoldsWork
  BY WorkersFinite DEF RegionInv, GateInv, ForkInv, GateHoldsWork
<1>. QED  BY RegionInvariant, <1>1, PTL

\* on_event never counts more slots than it can read.
THEOREM CountedSlotsCanBeRead == Spec => []CountedSlotsAreVisible
BY RegionInvariant, CountedAreWhole, PTL

\* results_ok says "ok" exactly when every worker has ended by itself with a good result in a
\* whole slot: the count, the exits and the slots never contradict each other.
THEOREM VerdictsAreRight == Spec => []VerdictIsRight
<1>1. RegionInv => VerdictIsRight
  BY DEF RegionInv
<1>. QED  BY RegionInvariant, <1>1, PTL
=============================================================================
