------------------------------- MODULE Region -------------------------------
(***************************************************************************)
(* The shared mapping of one job: the start gate its workers sleep on, the *)
(* slot each of them fills, the count of published slots, the event that   *)
(* wakes the controller, and the verdict the controller reads out of it    *)
(* once every worker is reaped (forge.hpp, worker.cpp, launch_job,         *)
(* on_event, results_ok). A store to a slot becomes visible to the other   *)
(* processes some time after it was made.                                  *)
(***************************************************************************)
EXTENDS Naturals, FiniteSets

CONSTANTS
    nchunks,        \* slices, and workers
    Stores,         \* stores it takes to fill a slot
    MaxSpurious,    \* bound: EINTR and spurious wakes per worker
    WakesAll        \* futex_wake: TRUE on Linux, FALSE on macOS

ASSUME RegionAssumption ==
    /\ nchunks \in Nat \ {0} /\ Stores \in Nat \ {0} /\ MaxSpurious \in Nat
    /\ WakesAll \in BOOLEAN

Workers == 1..nchunks

VARIABLES
    parent,     \* the controller's next call: fork, store, wake, loop; or where it ended
    aborting,   \* did a fork fail?
    gate,       \* start_gate
    at,         \* at[w]: the next call of worker w
    spurious,   \* spurious[w]: wakes without reason so far
    good,       \* good[w]: the ok it puts in its slot
    made,       \* made[w]: stores to slot w that worker w has made,
    visible,    \* and those the controller can see
    done,       \* chunks_done
    event,      \* the eventfd's counter, or the bytes in the pipe
    seen,       \* chunks_done as on_event read it last
    code,       \* code[w]: how the worker ended
    reaped,     \* the workers waitid has returned
    result      \* results_ok

gateVars   == <<gate, at, spurious>>
slotVars   == <<good, made, visible>>
parentVars == <<parent, aborting, seen, reaped, result>>
vars       == <<gateVars, slotVars, parentVars, done, event, code>>

Init ==
    /\ parent = "fork" /\ aborting = FALSE
    /\ gate = 0
    /\ at = [w \in Workers |-> "unborn"] /\ spurious = [w \in Workers |-> 0]
    /\ good = [w \in Workers |-> FALSE]
    /\ made = [w \in Workers |-> 0] /\ visible = [w \in Workers |-> 0]
    /\ done = 0 /\ event = 0 /\ seen = 0
    /\ code = [w \in Workers |-> "none"] /\ reaped = {}
    /\ result = "none"

Born  == {w \in Workers : at[w] # "unborn"}
Alive == {w \in Born : at[w] # "gone"}

-----------------------------------------------------------------------------
(* The controller: launch_job. *)

Fork ==
    /\ parent = "fork"
    /\ LET w == Cardinality(Born) + 1 IN
          /\ at' = [at EXCEPT ![w] = "limits"]
          /\ parent' = IF w = nchunks THEN "store" ELSE "fork"
    /\ UNCHANGED <<gate, spurious, slotVars, aborting, seen, reaped, result, done, event, code>>

ForkFails ==
    /\ parent = "fork"
    /\ parent' = "store" /\ aborting' = TRUE
    /\ UNCHANGED <<gateVars, slotVars, seen, reaped, result, done, event, code>>

\* open_start_gate: the store, then the wake.
StoreGate ==
    /\ parent = "store"
    /\ gate' = 1 /\ parent' = "wake"
    /\ UNCHANGED <<at, spurious, slotVars, aborting, seen, reaped, result, done, event, code>>

Asleep == {w \in Workers : at[w] = "asleep"}
Woken  == IF WakesAll \/ Asleep = {} THEN {Asleep} ELSE {{w} : w \in Asleep}
Wake ==
    /\ parent = "wake"
    /\ \E S \in Woken : at' = [w \in Workers |-> IF w \in S THEN "load" ELSE at[w]]
    /\ parent' = IF aborting THEN "kill" ELSE "loop"
    /\ UNCHANGED <<gate, spurious, slotVars, aborting, seen, reaped, result, done, event, code>>

\* A fork failed: SIGKILL to the workers there are, and waitid for each.
Abort ==
    /\ parent = "kill"
    /\ at' = [w \in Workers |-> IF w \in Born THEN "gone" ELSE at[w]]
    /\ code' = [w \in Workers |-> IF w \in Alive THEN "killed" ELSE code[w]]
    /\ reaped' = Born /\ parent' = "ended" /\ result' = "failed"
    /\ UNCHANGED <<gate, spurious, slotVars, aborting, seen, done, event>>

-----------------------------------------------------------------------------
(* The controller: its loop. *)

\* on_event drains the counter, then loads chunks_done.
OnEvent ==
    /\ parent = "loop" /\ event > 0
    /\ event' = 0 /\ seen' = done
    /\ UNCHANGED <<gateVars, slotVars, parent, aborting, reaped, result, done, code>>

\* reap. The end of a process makes its stores visible.
Reap(w) ==
    /\ parent = "loop" /\ at[w] = "gone" /\ w \notin reaped
    /\ visible[w] = made[w]
    /\ reaped' = reaped \cup {w}
    /\ UNCHANGED <<gateVars, slotVars, parent, aborting, seen, result, done, event, code>>

\* results_ok: the count, the exits, the slots (a slot nobody has filled is all zeroes).
SlotOk(w) == visible[w] = Stores /\ good[w]
CountOnly == done >= nchunks
results_ok ==
    /\ done >= nchunks
    /\ \A w \in Workers : code[w] = "exited:0"
    /\ \A w \in Workers : SlotOk(w)

AwaitsSlots ==
    /\ parent = "loop" /\ reaped = Workers /\ seen = nchunks
    /\ parent' = "ended" /\ result' = IF results_ok THEN "ok" ELSE "failed"
    /\ UNCHANGED <<gateVars, slotVars, aborting, seen, reaped, done, event, code>>

Finalize ==
    /\ parent = "loop" /\ reaped = Workers
    /\ parent' = "ended" /\ result' = IF results_ok THEN "ok" ELSE "failed"
    /\ UNCHANGED <<gateVars, slotVars, aborting, seen, reaped, done, event, code>>

Crash ==
    /\ parent \notin {"ended", "crashed"}
    /\ parent' = "crashed"
    /\ UNCHANGED <<gateVars, slotVars, aborting, seen, reaped, result, done, event, code>>

-----------------------------------------------------------------------------
(* A worker: worker_entry. *)

Goes(w, label) ==
    /\ at' = [at EXCEPT ![w] = label]
    /\ UNCHANGED <<gate, parentVars>>

\* The chunk it is going to publish: fail_chunk's, or the result.
Fills(w, ok) ==
    /\ good' = [good EXCEPT ![w] = ok]
    /\ Goes(w, "fill")
    /\ UNCHANGED <<made, visible>>

\* apply_resource_limits, apply_scheduler_hints; a failure is published, gate or no gate.
Limits(w) ==
    /\ at[w] = "limits"
    /\ \/ Goes(w, "load") /\ UNCHANGED slotVars
       \/ Fills(w, FALSE)
    /\ UNCHANGED <<spurious, done, event, code>>

\* wait_for_start_gate: the load,
Load(w) ==
    /\ at[w] = "load"
    /\ Goes(w, IF gate = 1 THEN "work" ELSE "wait")
    /\ UNCHANGED <<spurious, slotVars, done, event, code>>

SleepBlindly(w) ==
    /\ at[w] = "wait"
    /\ Goes(w, "asleep")
    /\ UNCHANGED <<spurious, slotVars, done, event, code>>

\* and futex_wait, which sleeps only if the word is still 0 (EAGAIN otherwise).
Sleep(w) ==
    /\ at[w] = "wait"
    /\ Goes(w, IF gate = 0 THEN "asleep" ELSE "load")
    /\ UNCHANGED <<spurious, slotVars, done, event, code>>

\* EINTR, or a wake without reason: load again.
Spurious(w) ==
    /\ at[w] = "asleep" /\ spurious[w] < MaxSpurious
    /\ spurious' = [spurious EXCEPT ![w] = @ + 1]
    /\ Goes(w, "load")
    /\ UNCHANGED <<slotVars, done, event, code>>

TimeoutGoesOn(w) ==
    /\ at[w] = "asleep"
    /\ Goes(w, "work")
    /\ UNCHANGED <<spurious, slotVars, done, event, code>>

SleepsOn(w) == FALSE /\ UNCHANGED vars

\* ETIMEDOUT after 30 seconds: fail_chunk.
Timeout(w) ==
    /\ at[w] = "asleep"
    /\ Fills(w, FALSE)
    /\ UNCHANGED <<spurious, done, event, code>>

\* The slice is read, or cannot be.
Work(w) ==
    /\ at[w] = "work"
    /\ \E ok \in BOOLEAN : Fills(w, ok)
    /\ UNCHANGED <<spurious, done, event, code>>

\* publish_chunk: the stores to the slot,
Store(w) ==
    /\ at[w] = "fill"
    /\ made' = [made EXCEPT ![w] = @ + 1]
    /\ Goes(w, IF made[w] + 1 = Stores THEN "publish" ELSE "fill")
    /\ UNCHANGED <<spurious, good, visible, done, event, code>>

Propagate(w) ==
    /\ visible[w] < made[w]
    /\ visible' = [visible EXCEPT ![w] = @ + 1]
    /\ UNCHANGED <<gateVars, good, made, parentVars, done, event, code>>

PublishRelaxed(w) ==
    /\ at[w] = "publish"
    /\ done' = done + 1
    /\ Goes(w, "notify")
    /\ UNCHANGED <<spurious, slotVars, event, code>>

\* the release increment, which is not seen before them,
Publish(w) ==
    /\ at[w] = "publish" /\ visible[w] = made[w]
    /\ done' = done + 1
    /\ Goes(w, "notify")
    /\ UNCHANGED <<spurious, slotVars, event, code>>

\* and the event.
Notify(w) ==
    /\ at[w] = "notify"
    /\ event' = event + 1
    /\ Goes(w, "exit")
    /\ UNCHANGED <<spurious, slotVars, done, code>>

Ends(w, how) ==
    /\ Goes(w, "gone")
    /\ code' = [code EXCEPT ![w] = how]
    /\ UNCHANGED <<spurious, slotVars, done, event>>

Exit(w) == at[w] = "exit" /\ Ends(w, IF good[w] THEN "exited:0" ELSE "exited:1")

\* Cancelled, past its deadline, out of memory, or shot by its owner.
Killed(w) == w \in Alive /\ Ends(w, "killed")

Runs(w) ==
    \/ Limits(w) \/ Load(w) \/ Sleep(w) \/ Timeout(w) \/ Work(w) \/ Store(w) \/ Publish(w)
    \/ Notify(w) \/ Exit(w) \/ Propagate(w)

Launches == Fork \/ StoreGate \/ Wake \/ Abort
Loops    == OnEvent \/ Finalize \/ \E w \in Workers : Reap(w)

Next ==
    \/ Launches \/ ForkFails \/ Loops \/ Crash
    \/ \E w \in Workers : Runs(w) \/ Spurious(w) \/ Killed(w)

Spec == Init /\ [][Next]_vars

\* The controller runs as long as it has not crashed. A worker runs, a sleep ends after 30
\* seconds at the latest, and a store is not held back for ever.
FairSpec ==
    /\ Spec
    /\ WF_vars(Launches) /\ WF_vars(Loops)
    /\ \A w \in Workers : WF_vars(Runs(w))
-----------------------------------------------------------------------------
\* The types; what bounds the counters is CountedSlotsAreVisible.
TypeOK ==
    /\ parent \in {"fork", "store", "wake", "kill", "loop", "ended", "crashed"}
    /\ aborting \in BOOLEAN /\ gate \in 0..1
    /\ at \in [Workers -> {"unborn", "limits", "load", "wait", "asleep", "work", "fill",
                           "publish", "notify", "exit", "gone"}]
    /\ spurious \in [Workers -> 0..MaxSpurious]
    /\ good \in [Workers -> BOOLEAN]
    /\ made \in [Workers -> 0..Stores] /\ visible \in [Workers -> 0..Stores]
    /\ \A w \in Workers : visible[w] <= made[w]
    /\ done \in Nat /\ event \in Nat /\ seen \in 0..done
    /\ code \in [Workers -> {"none", "exited:0", "exited:1", "killed"}]
    /\ reaped \subseteq {w \in Workers : at[w] = "gone"}
    /\ result \in {"none", "ok", "failed"}

\* GUIDE.md:90, "FUTEX_WAKE(INT_MAX)  wake, load again, see 1", and :93, on the parent that
\* stores 1 before the child sleeps: once the gate is open and the wake is made, no worker is
\* asleep in front of it, whatever the order of its load, its futex_wait, the store and the wake.
NoLostWake == gate = 1 /\ parent # "wake" /\ parent # "crashed" => Asleep = {}

\* No work is done, and no good slot is published, before every worker is forked (or a fork
\* has failed): a worker that got past the gate in another way can only report its failure.
GateHoldsWork ==
    \A w \in Workers : at[w] = "work" \/ good[w] =>
        gate = 1 /\ (aborting \/ Cardinality(Born) = nchunks)

\* GUIDE.md:123, "`eventfd` means "the slot is visible"": as many slots as on_event has counted
\* can be read whole.
CountedSlotsAreVisible == seen <= Cardinality({w \in Workers : visible[w] = Stores})

\* The verdict says what happened: "ok" only if every worker ended by itself with a whole, good
\* slot; "failed" only if a fork failed or one worker did not.
VerdictIsRight ==
    /\ result = "ok" =>
          \A w \in Workers : SlotOk(w) /\ code[w] = "exited:0" /\ at[w] = "gone"
    /\ result = "failed" => aborting \/ \E w \in Workers : code[w] # "exited:0"

\* GUIDE.md:93, "The 30s timeout exists so a crashed parent does not leave workers asleep until
\* reboot": every worker that is forked ends.
WorkersEnd == \A w \in Workers : at[w] # "unborn" ~> at[w] = "gone"

\* The controller comes to a verdict, unless it crashes: neither the gate nor the event nor a
\* worker that dies in the middle of its publication can hold the job up.
JobIsDecided == <>(parent \in {"ended", "crashed"})
=============================================================================
