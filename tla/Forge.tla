------------------------------- MODULE Forge -------------------------------
(***************************************************************************)
(* The forge controller, the worker processes it forks, the CLI processes  *)
(* that submit and cancel jobs, and the record of each job on disk.        *)
(*                                                                         *)
(* The controller is one thread, so a handler is one action unless a crash *)
(* or another process can tell its effects apart: launching (save          *)
(* "starting", fork each worker, open the gate, save "running") and        *)
(* finishing (save "persisting", write the output, save the outcome) are   *)
(* split at every such effect, and pc says where the controller stands.    *)
(* Between two of its steps workers run, exit and are killed, the CLI      *)
(* writes, and the controller may itself be killed.                        *)
(***************************************************************************)
EXTENDS Integers, Sequences, FiniteSets

CONSTANTS
    Jobs,           \* job ids, positive numbers
    Op,             \* Op[j]: "count" (also stands for the two hashes), "copy", "exec"
    Fan,            \* Fan[j]: how many workers the job is split over
    Priority,       \* Priority[j]: --priority, larger runs first
    Deadline,       \* the jobs submitted with --deadline
    Cancels,        \* bound: the jobs somebody may run `forge cancel` for
    Malformed,      \* the jobs whose record does not pass validate_meta
    slots_max,      \* --slots
    kMaxSlots,      \* the largest --slots cmd_run accepts (256)
    Procs,          \* processes that may ever be born, numbered in birth order
    Pids,           \* process ids of the kernel
    ReusePids,      \* may the kernel give a dead process's id to a new one?
    FifoSize,       \* capacity of the control fifo, in lines
    MaxStarts,      \* bound: how often the controller is started
    Scarcity,       \* may save_meta fail (full disk), or a timer (no descriptors left)?
    AllowShutdown   \* may a SIGTERM, SIGINT or SHUTDOWN line arrive?

Ops == {"count", "copy", "exec"}

ASSUME ConstantsAssumption ==
    /\ Jobs \subseteq Nat \ {0} /\ IsFiniteSet(Jobs)
    /\ Op \in [Jobs -> Ops]
    /\ Fan \in [Jobs -> Nat \ {0}]
    /\ \A j \in Jobs : Op[j] # "count" => Fan[j] = 1
    /\ Priority \in [Jobs -> Int]
    /\ Deadline \cup Cancels \cup Malformed \subseteq Jobs
    /\ kMaxSlots \in Nat /\ slots_max \in 1..kMaxSlots
    /\ Procs \subseteq Nat /\ Pids \subseteq Nat \ {0}
    /\ FifoSize \in Nat /\ MaxStarts \in Nat
    /\ {ReusePids, Scarcity, AllowShutdown} \subseteq BOOLEAN

VARIABLES
    (* jobs/<id>/ on disk *)
    record,         \* the state= line of jobs/<id>/meta, "none" if there is no file
    meta_procs,     \* the procs= line: pid@starttime, hence processes and not pids
    output,         \* does jobs/<id>/output exist?
    (* the CLI *)
    sent,           \* jobs whose SUBMIT line the CLI has tried to write
    asked,          \* jobs somebody ran `forge cancel` for
    fifo,           \* lines in control.fifo
    (* the kernel *)
    proc,           \* every process, with what it published in shared memory
    (* the controller's memory *)
    pc, cur, todo, outcome, starts,
    live,           \* LiveJob of every job, Absent for a job not in c.live
    how,            \* ProcRef::how of every worker, "" until it is reaped
    queue, slots_used, shutting_down,
    pid_owner       \* job owning a pid, 0 for none

disk  == <<record, meta_procs, output>>
cli   == <<sent, asked, fifo>>
table == <<live, how, queue, slots_used, shutting_down, pid_owner>>
walk  == <<pc, cur, todo, outcome, starts>>
vars  == <<disk, cli, proc, table, walk>>

-----------------------------------------------------------------------------
Terminal   == {"completed", "failed", "timed_out", "cancelled"}
InProgress == {"starting", "running", "persisting"}
Waiting    == {"submitted", "queued"}
States     == {"submitted", "queued"} \cup InProgress \cup Terminal

Absent == [state |-> "absent", procs |-> {}, stop_reason |-> "", uses_slot |-> FALSE,
           deadline_id |-> FALSE, kill_escalated |-> FALSE]

Live == {j \in Jobs : live[j].state # "absent"}

Unborn == [phase |-> "unborn", pid |-> 0, job |-> 0, child |-> FALSE,
           sig |-> "none", exit |-> "none", chunk |-> "empty", gate |-> FALSE]

Alive(p)  == proc[p].phase \in {"gate", "work", "wrote", "published"}
HasPid(p) == Alive(p) \/ proc[p].phase = "zombie"
Zombies   == {p \in Procs : proc[p].phase = "zombie"}

Init ==
    /\ record = [j \in Jobs |-> "none"]
    /\ meta_procs = [j \in Jobs |-> {}]
    /\ output = [j \in Jobs |-> FALSE]
    /\ sent = {} /\ asked = {} /\ fifo = <<>>
    /\ proc = [p \in Procs |-> Unborn]
    /\ pc = "down" /\ cur = 0 /\ todo = {} /\ outcome = "" /\ starts = 0
    /\ live = [j \in Jobs |-> Absent]
    /\ how = [p \in Procs |-> ""]
    /\ queue = {} /\ slots_used = 0 /\ shutting_down = FALSE
    /\ pid_owner = [x \in Pids |-> 0]

-----------------------------------------------------------------------------
(* Helpers shared by the handlers. *)

\* save_meta: the whole record is replaced, or (full disk) nothing is. No
\* caller in the controller acts on the result.
Save(j, state, procs) ==
    /\ UNCHANGED output
    /\ \/ /\ record' = [record EXCEPT ![j] = state]
          /\ meta_procs' = [meta_procs EXCEPT ![j] = procs]
       \/ Scarcity /\ UNCHANGED <<record, meta_procs>>

\* kill(2) reaches whatever process holds the pid now.
Kill(S, s) ==
    [p \in Procs |->
        IF Alive(p) /\ proc[p].sig # "KILL" /\ \E q \in S : proc[q].pid = proc[p].pid
        THEN [proc[p] EXCEPT !.sig = s] ELSE proc[p]]

Unreaped(j) == {p \in live[j].procs : how[p] = ""}

\* request_stop for the jobs of S: the first reason wins, and signal_job(SIGTERM)
\* goes to the workers not reaped yet.
Stopping(S) == {j \in S : live[j].stop_reason = ""}

WithReason(S, reason) ==
    [j \in Jobs |-> IF j \in Stopping(S) THEN [live[j] EXCEPT !.stop_reason = reason]
                    ELSE live[j]]

Terminated(S) == Kill(UNION {Unreaped(j) : j \in Stopping(S)}, "TERM")

\* The kernel counts pids up; after a wrap-around it returns to the free ones.
FreePids ==
    LET taken == {proc[p].pid : p \in {q \in Procs : ReusePids => HasPid(q)}}
    IN {x \in Pids \ taken : ReusePids \/ \A y \in Pids \ taken : x <= y}

NextBorn(p) ==
    /\ proc[p].phase = "unborn"
    /\ \A q \in Procs : proc[q].phase = "unborn" => p <= q

-----------------------------------------------------------------------------
(* The CLI. *)

\* cmd_submit up to the saved record; ids were allocated before.
Submit(j) ==
    /\ record[j] = "none"
    /\ record' = [record EXCEPT ![j] = "submitted"]
    /\ UNCHANGED <<meta_procs, output, cli, proc, table, walk>>

\* send_fifo: lost if no controller holds the fifo open, or if it is full.
SendFifo(cmd, j) ==
    fifo' = IF pc # "down" /\ Len(fifo) < FifoSize
            THEN Append(fifo, [cmd |-> cmd, job |-> j]) ELSE fifo

\* The rest of cmd_submit.
SendSubmit(j) ==
    /\ record[j] # "none" /\ j \notin sent
    /\ sent' = sent \cup {j}
    /\ SendFifo("SUBMIT", j)
    /\ UNCHANGED <<disk, asked, proc, table, walk>>

\* cmd_cancel, once per job (a bound).
CancelCommand(j) ==
    /\ j \in Cancels \ asked
    /\ asked' = asked \cup {j}
    /\ SendFifo("CANCEL", j)
    /\ UNCHANGED <<disk, sent, proc, table, walk>>

CLI == \E j \in Jobs : Submit(j) \/ SendSubmit(j) \/ CancelCommand(j)

-----------------------------------------------------------------------------
(* Starting, recovering and dying. *)

\* setup, and the directory listing recover starts from.
Start ==
    /\ pc = "down" /\ starts < MaxStarts
    /\ pc' = "boot" /\ starts' = starts + 1
    /\ todo' = {j \in Jobs : record[j] # "none"}
    /\ UNCHANGED <<disk, cli, proc, table, cur, outcome>>

\* A process that ends leaves its memory behind; its children become orphans,
\* the zombies among them are reaped by init, and the fifo loses its lines.
Forget ==
    /\ pc' = "down" /\ cur' = 0 /\ todo' = {} /\ outcome' = ""
    /\ live' = [j \in Jobs |-> Absent]
    /\ how' = [p \in Procs |-> ""]
    /\ queue' = {} /\ slots_used' = 0 /\ shutting_down' = FALSE
    /\ pid_owner' = [x \in Pids |-> 0]
    /\ proc' = [p \in Procs |->
                  [proc[p] EXCEPT !.child = FALSE,
                                  !.phase = IF @ = "zombie" THEN "gone" ELSE @]]
    /\ fifo' = <<>>
    /\ UNCHANGED <<disk, sent, asked, starts>>

\* kill -9, a bug, the OOM killer. After the last start (a bound) it stays up.
Crash == pc # "down" /\ starts < MaxStarts /\ Forget

\* loop's break: shutting_down && idle.
Exit == pc = "loop" /\ shutting_down /\ Live = {} /\ queue = {} /\ Forget

NextToRecover(j) == j \in todo /\ \A k \in todo : j <= k

\* The processes of the procs= line whose start time still matches.
LeftoversByPid(j) == meta_procs[j]
FirstLeftover(j)  == {p \in meta_procs[j] : HasPid(p) /\ \A q \in meta_procs[j] : p <= q}
Leftovers(j)      == {p \in meta_procs[j] : HasPid(p)}

\* recover, a job that was in progress: kill what is left of it, by pid and
\* start time, and fail it.
RecoverInProgress(j) ==
    /\ pc = "boot" /\ NextToRecover(j) /\ record[j] \in InProgress
    /\ todo' = todo \ {j}
    /\ proc' = Kill(Leftovers(j), "KILL")
    /\ Save(j, "failed", meta_procs[j])
    /\ UNCHANGED <<cli, table, pc, cur, outcome, starts>>

\* enqueue of a valid or a malformed job that is not live and not terminal.
Enqueue(j) ==
    /\ IF j \in Malformed
       THEN /\ Save(j, "failed", meta_procs[j])
            /\ UNCHANGED <<live, queue>>
       ELSE /\ Save(j, "queued", meta_procs[j])
            /\ live' = [live EXCEPT ![j] = [Absent EXCEPT !.state = "queued"]]
            /\ queue' = queue \cup {j}
    /\ UNCHANGED <<how, slots_used, shutting_down, pid_owner>>

RecoverWaiting(j) ==
    /\ pc = "boot" /\ NextToRecover(j) /\ record[j] \in Waiting
    /\ todo' = todo \ {j} /\ pc' = "schedule"
    /\ Enqueue(j)
    /\ UNCHANGED <<cli, proc, cur, outcome, starts>>

RecoverSettled(j) ==
    /\ pc = "boot" /\ NextToRecover(j) /\ record[j] \in Terminal
    /\ todo' = todo \ {j}
    /\ UNCHANGED <<disk, cli, proc, table, pc, cur, outcome, starts>>

RecoverDone ==
    /\ pc = "boot" /\ todo = {}
    /\ pc' = "loop"
    /\ UNCHANGED <<disk, cli, proc, table, cur, todo, outcome, starts>>

Lifecycle ==
    \/ Start \/ Crash \/ Exit \/ RecoverDone
    \/ \E j \in Jobs : RecoverInProgress(j) \/ RecoverWaiting(j) \/ RecoverSettled(j)

-----------------------------------------------------------------------------
(* schedule and launch_job. *)

Queued == {j \in queue : live[j].state = "queued"}

\* pick_next: the highest priority, then the smallest id.
Picked(j) ==
    /\ j \in Queued
    /\ \A k \in Queued : Priority[k] < Priority[j] \/ (Priority[k] = Priority[j] /\ j <= k)

FreeSlot == slots_used < slots_max

Schedules(j) ==
    /\ pc = "schedule" /\ ~shutting_down /\ FreeSlot
    /\ Picked(j)

ScheduleDone ==
    /\ pc = "schedule"
    /\ ~\E j \in Jobs : Schedules(j)
    /\ pc' = IF todo = {} THEN "loop" ELSE "boot"
    /\ UNCHANGED <<disk, cli, proc, table, cur, todo, outcome, starts>>

\* launch_job's early returns: no readable input, no log, no shared memory.
LaunchFails(j) ==
    /\ Schedules(j)
    /\ Save(j, "failed", meta_procs[j])
    /\ queue' = queue \ {j}
    /\ live' = [live EXCEPT ![j] = Absent]
    /\ UNCHANGED <<cli, proc, how, slots_used, shutting_down, pid_owner, walk>>

LaunchStarts(j) ==
    /\ Schedules(j)
    /\ Save(j, "starting", meta_procs[j])
    /\ queue' = queue \ {j}
    /\ live' = [live EXCEPT ![j].state = "starting"]
    /\ pc' = "fork" /\ cur' = j
    /\ UNCHANGED <<cli, proc, how, slots_used, shutting_down, pid_owner, todo, outcome, starts>>

\* The vector `spawned`, a local of launch_job.
Spawned == {p \in Procs : proc[p].child /\ proc[p].job = cur /\ HasPid(p)}

\* Is there a slice without a worker?
OneForkMore == Cardinality(Spawned) <= Fan[cur]
SliceLeft   == Cardinality(Spawned) < Fan[cur]

\* Has the gate been opened with slices left, because a fork failed?
GaveUp == \E p \in Spawned : proc[p].gate

Fork(p, x) ==
    /\ pc = "fork" /\ SliceLeft /\ ~GaveUp
    /\ NextBorn(p) /\ x \in FreePids
    /\ proc' = [proc EXCEPT ![p] = [Unborn EXCEPT
                    !.phase = IF Op[cur] = "exec" THEN "work" ELSE "gate",
                    !.pid = x, !.job = cur, !.child = TRUE]]
    /\ UNCHANGED <<disk, cli, table, walk>>

\* fork fails: the gate is opened for the children spawned so far, which may pass it,
GiveUp ==
    /\ pc = "fork" /\ SliceLeft /\ ~GaveUp
    /\ Spawned # {}
    /\ proc' = [p \in Procs |-> IF p \in Spawned THEN [proc[p] EXCEPT !.gate = TRUE]
                                ELSE proc[p]]
    /\ UNCHANGED <<disk, cli, table, walk>>

\* and every one of them is killed and waited for.
ForkFails ==
    /\ pc = "fork" /\ SliceLeft
    /\ Spawned = {} \/ GaveUp
    /\ proc' = [p \in Procs |-> IF p \in Spawned THEN [proc[p] EXCEPT !.phase = "gone"]
                                ELSE proc[p]]
    /\ Save(cur, "failed", meta_procs[cur])
    /\ live' = [live EXCEPT ![cur] = Absent]
    /\ pc' = "schedule" /\ cur' = 0
    /\ UNCHANGED <<cli, how, queue, slots_used, shutting_down, pid_owner, todo, outcome, starts>>

\* The children become the job's, and may pass the gate. A timer that cannot be
\* created is only logged.
OpenGate ==
    /\ pc = "fork" /\ Cardinality(Spawned) = Fan[cur]
    /\ proc' = [p \in Procs |-> IF p \in Spawned THEN [proc[p] EXCEPT !.gate = TRUE]
                                ELSE proc[p]]
    /\ \E timer \in BOOLEAN :
        /\ timer => cur \in Deadline
        /\ cur \in Deadline /\ ~timer => Scarcity
        /\ live' = [live EXCEPT ![cur].procs = Spawned, ![cur].uses_slot = TRUE,
                                ![cur].deadline_id = timer]
    /\ pid_owner' = [x \in Pids |-> IF \E p \in Spawned : proc[p].pid = x THEN cur
                                    ELSE pid_owner[x]]
    /\ slots_used' = slots_used + 1
    /\ pc' = "launched"
    /\ UNCHANGED <<disk, cli, how, queue, shutting_down, cur, todo, outcome, starts>>

RunningUnnoted ==
    /\ pc = "launched"
    /\ Save(cur, "running", live[cur].procs)
    /\ pc' = "schedule" /\ cur' = 0
    /\ UNCHANGED <<cli, proc, table, todo, outcome, starts>>

SaveRunning ==
    /\ pc = "launched"
    /\ live' = [live EXCEPT ![cur].state = "running"]
    /\ Save(cur, "running", live[cur].procs)
    /\ pc' = "schedule" /\ cur' = 0
    /\ UNCHANGED <<cli, proc, how, queue, slots_used, shutting_down, pid_owner, todo, outcome,
                   starts>>

Launching ==
    \/ ScheduleDone \/ GiveUp \/ ForkFails \/ OpenGate \/ SaveRunning
    \/ \E j \in Jobs : LaunchFails(j) \/ LaunchStarts(j)
    \/ \E p \in Procs, x \in Pids : Fork(p, x)

-----------------------------------------------------------------------------
(* SIGCHLD: reap, note_reap and finalize, then schedule. *)

BeginReap ==
    /\ pc = "loop" /\ \E z \in Zombies : proc[z].child
    /\ pc' = "reap"
    /\ UNCHANGED <<disk, cli, proc, table, cur, todo, outcome, starts>>

ReapForgetsSchedule ==
    /\ pc = "reap" /\ ~\E z \in Zombies : proc[z].child
    /\ pc' = "loop"
    /\ UNCHANGED <<disk, cli, proc, table, cur, todo, outcome, starts>>

ReapDone ==
    /\ pc = "reap" /\ ~\E z \in Zombies : proc[z].child
    /\ pc' = "schedule"
    /\ UNCHANGED <<disk, cli, proc, table, cur, todo, outcome, starts>>

ChunksOk(j, ended) == \A p \in live[j].procs : proc[p].chunk = "ok"

\* results_ok, once every worker is reaped. chunk is the worker's slot of the
\* shared region; chunks_done >= nchunks says that none is empty.
ResultsOk(j, ended) ==
    /\ \A p \in live[j].procs : ended[p] = "exited:0"
    /\ Op[j] # "exec" => \A p \in live[j].procs : proc[p].chunk = "ok"
    /\ Op[j] = "copy" => output[j]

\* Is there a body for finalize to write? copy and exec have none.
NoBody(j)  == FALSE
HasBody(j) == Op[j] = "count"

\* The outcome finalize reports for a job that did not end well.
StopReason(j)      == live[j].stop_reason
CancelledUnless(j) == IF live[j].stop_reason = "timed_out" THEN "timed_out" ELSE "cancelled"
StoppedAs(j) ==
    CASE live[j].stop_reason = "timed_out" -> "timed_out"
      [] live[j].stop_reason \in {"cancelled", "shutdown"} -> "cancelled"
      [] OTHER -> "failed"

\* note_reap for a pid nobody owns, or whose owner is gone.
ReapUnknown(z) ==
    /\ pc = "reap" /\ proc[z].phase = "zombie" /\ proc[z].child
    /\ pid_owner[proc[z].pid] \notin Live
    /\ proc' = [proc EXCEPT ![z].phase = "gone"]
    /\ UNCHANGED <<disk, cli, table, walk>>

\* The workers of j still to be reaped, given the endings known.
NoneLeft(j, ended) == {}
Left(j, ended)     == {p \in live[j].procs : ended[p] = ""}

\* The endings known once z is reaped, and what they mean for its job j: the first
\* bad one stops the other workers; the last one finalizes the job.
Endings(z, j) ==
    [p \in Procs |-> IF p \in live[j].procs /\ proc[p].pid = proc[z].pid
                     THEN proc[z].exit ELSE how[p]]

FirstBad(j, ended) ==
    live[j].stop_reason = "" /\ \E p \in live[j].procs : ended[p] \notin {"", "exited:0"}

Ok(j, ended)   == Left(j, ended) = {} /\ ResultsOk(j, ended)
Body(j, ended) == Ok(j, ended) /\ HasBody(j)

\* note_reap, and the beginning of finalize: the "persisting" record, if there is a
\* body to write.
NoteReap(z, j, ended) ==
    /\ how' = ended
    /\ live' = [live EXCEPT ![j].stop_reason = IF FirstBad(j, ended) THEN "failed" ELSE @,
                            ![j].state = IF Body(j, ended) THEN "persisting" ELSE @]
    /\ proc' = [(IF FirstBad(j, ended) THEN Kill(Left(j, ended), "TERM") ELSE proc)
                    EXCEPT ![z].phase = "gone"]
    /\ \/ /\ Left(j, ended) # {}
          /\ pc' = "reap" /\ cur' = 0 /\ outcome' = ""
       \/ /\ Body(j, ended)
          /\ pc' = "output" /\ cur' = j /\ outcome' = ""
       \/ /\ Left(j, ended) = {} /\ ~Body(j, ended)
          /\ pc' = "finish" /\ cur' = j
          /\ outcome' = IF Ok(j, ended) THEN "completed" ELSE StoppedAs(j)
    /\ IF Body(j, ended) THEN Save(j, "persisting", live[j].procs) ELSE UNCHANGED disk
    /\ UNCHANGED <<cli, queue, slots_used, shutting_down, pid_owner, todo, starts>>

ReapChild(z) ==
    /\ pc = "reap" /\ proc[z].phase = "zombie" /\ proc[z].child
    /\ LET j == pid_owner[proc[z].pid] IN j \in Live /\ NoteReap(z, j, Endings(z, j))

OutputUnchecked ==
    /\ pc = "output"
    /\ outcome' = "completed" /\ output' \in {output, [output EXCEPT ![cur] = TRUE]}
    /\ pc' = "finish"
    /\ UNCHANGED <<record, meta_procs, cli, proc, table, cur, todo, starts>>

\* finalize: atomic_write_file of the output. It fails with or without having
\* put the new file in place (the directory fsync comes last).
WriteOutput ==
    /\ pc = "output"
    /\ \/ outcome' = "completed" /\ output' = [output EXCEPT ![cur] = TRUE]
       \/ outcome' = "failed" /\ output' \in {output, [output EXCEPT ![cur] = TRUE]}
    /\ pc' = "finish"
    /\ UNCHANGED <<record, meta_procs, cli, proc, table, cur, todo, starts>>

\* release_runtime: the slot, if the job has one, and its pids.
SlotKept(j) == slots_used
SlotBack(j) == IF live[j].uses_slot THEN slots_used - 1 ELSE slots_used

AllDisowned(j) == [x \in Pids |-> 0]
Disowned(j)    == [x \in Pids |-> IF \E p \in live[j].procs : proc[p].pid = x THEN 0
                                  ELSE pid_owner[x]]

\* finalize: the terminal record, then release_runtime and the erasures.
Finish ==
    /\ pc = "finish"
    /\ Save(cur, outcome, live[cur].procs)
    /\ live' = [live EXCEPT ![cur] = Absent]
    /\ queue' = queue \ {cur}
    /\ slots_used' = SlotBack(cur)
    /\ pid_owner' = Disowned(cur)
    /\ pc' = "reap" /\ cur' = 0 /\ outcome' = ""
    /\ UNCHANGED <<cli, proc, how, shutting_down, todo, starts>>

Reaping ==
    \/ BeginReap \/ ReapDone \/ WriteOutput \/ Finish
    \/ \E z \in Procs : ReapUnknown(z) \/ ReapChild(z)

-----------------------------------------------------------------------------
(* The other events of the loop. *)

\* What enqueue queues, and what on_cancel reports as cancelled though it is not live.
QueuesAnyState(j)    == ~shutting_down /\ j \notin Live
QueuesInShutdown(j)  == j \notin Live /\ record[j] \notin Terminal
Queues(j)            == ~shutting_down /\ j \notin Live /\ record[j] \notin Terminal
CancelsAnyState(j)   == j \notin Live /\ record[j] # "none"
CancelsNotLive(j)    == j \notin Live /\ record[j] \notin Terminal \cup {"none"}

\* The next line of the fifo is a SUBMIT, with what enqueue makes of it.
OnSubmit ==
    /\ pc = "loop" /\ fifo # <<>> /\ Head(fifo).cmd = "SUBMIT"
    /\ fifo' = Tail(fifo)
    /\ LET j == Head(fifo).job IN
        \/ /\ shutting_down /\ record[j] \notin Terminal
           /\ Save(j, "cancelled", meta_procs[j])
           /\ UNCHANGED <<table, pc>>
        \/ /\ IF shutting_down THEN record[j] \in Terminal
                               ELSE j \in Live \/ record[j] \in Terminal
           /\ UNCHANGED <<disk, table, pc>>
        \/ /\ Queues(j)
           /\ Enqueue(j)
           /\ pc' = "schedule"
    /\ UNCHANGED <<sent, asked, proc, cur, todo, outcome, starts>>

\* on_cancel of a CANCEL line.
OnCancel ==
    /\ pc = "loop" /\ fifo # <<>> /\ Head(fifo).cmd = "CANCEL"
    /\ fifo' = Tail(fifo)
    /\ LET j == Head(fifo).job IN
        \/ /\ CancelsNotLive(j)
           /\ Save(j, "cancelled", meta_procs[j])
           /\ UNCHANGED <<live, queue, proc>>
        \/ /\ j \notin Live /\ record[j] \in Terminal \cup {"none"}
           /\ UNCHANGED <<disk, live, queue, proc>>
        \/ /\ live[j].state = "queued"
           /\ Save(j, "cancelled", meta_procs[j])
           /\ live' = [live EXCEPT ![j] = Absent]
           /\ queue' = queue \ {j}
           /\ UNCHANGED proc
        \/ /\ live[j].state \notin {"absent", "queued"}
           /\ live' = WithReason({j}, "cancelled")
           /\ proc' = Terminated({j})
           /\ UNCHANGED <<disk, queue>>
    /\ UNCHANGED <<sent, asked, how, slots_used, shutting_down, pid_owner, walk>>

\* handle_line("SHUTDOWN"), from the fifo or for SIGTERM and SIGINT. Doing it
\* again changes nothing. Any of the saves may fail.
OnShutdown ==
    /\ pc = "loop" /\ AllowShutdown /\ ~shutting_down
    /\ shutting_down' = TRUE
    /\ \E S \in SUBSET queue :
        /\ S = queue \/ Scarcity
        /\ record' = [j \in Jobs |-> IF j \in S THEN "cancelled" ELSE record[j]]
    /\ queue' = {}
    /\ live' = [j \in Jobs |-> IF j \in queue THEN Absent
                               ELSE WithReason(Live, "shutdown")[j]]
    /\ proc' = Terminated(Live \ queue)
    /\ UNCHANGED <<meta_procs, output, cli, how, slots_used, pid_owner, walk>>

\* on_deadline; the timer fires once.
OnDeadline(j) ==
    /\ pc = "loop" /\ live[j].deadline_id
    /\ live' = [WithReason({j}, "timed_out") EXCEPT ![j].deadline_id = FALSE]
    /\ proc' = Terminated({j})
    /\ UNCHANGED <<disk, cli, how, queue, slots_used, shutting_down, pid_owner, walk>>

\* Jobs on_tick escalates: SIGTERM is more than a second old (any time later).
OverdueCancel(j) == live[j].stop_reason = "cancelled" /\ ~live[j].kill_escalated
Overdue(j)       == live[j].stop_reason # "" /\ ~live[j].kill_escalated

\* on_tick for a job whose SIGTERM is more than a second old.
OnTick(j) ==
    /\ pc = "loop" /\ Overdue(j)
    /\ live' = [live EXCEPT ![j].kill_escalated = TRUE]
    /\ proc' = Kill(Unreaped(j), "KILL")
    /\ UNCHANGED <<disk, cli, how, queue, slots_used, shutting_down, pid_owner, walk>>

Events ==
    \/ OnSubmit \/ OnCancel \/ OnShutdown
    \/ \E j \in Jobs : OnDeadline(j) \/ OnTick(j)

Controller == Lifecycle \/ Launching \/ Reaping \/ Events

-----------------------------------------------------------------------------
(* The workers, orphaned or not, and the rest of the machine. *)

Becomes(p, phase) ==
    /\ proc' = [proc EXCEPT ![p].phase = phase]
    /\ UNCHANGED <<disk, cli, table, walk>>

\* A process ends: a zombie until its parent reaps it; init does so at once.
Ends(p, exit, chunk) ==
    /\ proc' = [proc EXCEPT ![p] = [@ EXCEPT !.exit = exit, !.chunk = chunk, !.sig = "none",
                                !.phase = IF proc[p].child THEN "zombie" ELSE "gone"]]
    /\ UNCHANGED <<disk, cli, table, walk>>

\* wait_for_start_gate returns true.
PassGate(p) == proc[p].phase = "gate" /\ proc[p].gate /\ Becomes(p, "work")

\* copy renames its finished file to `output`; an exec'd program is given that
\* path and writes it whenever it likes, or never.
WorkerOutput(p) ==
    /\ proc[p].phase = "work" /\ proc[p].job # 0
    /\ \/ Op[proc[p].job] = "copy" /\ proc' = [proc EXCEPT ![p].phase = "wrote"]
       \/ Op[proc[p].job] = "exec" /\ ~output[proc[p].job] /\ UNCHANGED proc
    /\ output' = [output EXCEPT ![proc[p].job] = TRUE]
    /\ UNCHANGED <<record, meta_procs, cli, table, walk>>

\* publish_chunk of a good result: the slot, then chunks_done.
Publish(p) ==
    /\ \/ proc[p].phase = "wrote"
       \/ proc[p].phase = "work" /\ proc[p].job # 0 /\ Op[proc[p].job] = "count"
    /\ proc' = [proc EXCEPT ![p] = [@ EXCEPT !.phase = "published", !.chunk = "ok"]]
    /\ UNCHANGED <<disk, cli, table, walk>>

ExitZero(p) ==
    /\ \/ proc[p].phase = "published"
       \/ proc[p].phase = "work" /\ proc[p].job # 0 /\ Op[proc[p].job] = "exec"
    /\ Ends(p, "exited:0", proc[p].chunk)

\* fail_chunk, from anywhere before the result is published (a limit refused, the
\* gate timed out, a read or a rename failed); an exec'd program has no slot.
FailChunk(p) ==
    /\ proc[p].phase \in {"gate", "work", "wrote"} /\ proc[p].job # 0
    /\ Ends(p, "exited:1", IF Op[proc[p].job] = "exec" THEN "empty" ELSE "bad")

\* Killed: by the signal that is pending, by the kernel (memory, RLIMIT_CPU) or
\* by a fault of its own.
Die(p) == Alive(p) /\ Ends(p, "killed", proc[p].chunk)

\* Some other program on the machine is started.
Stranger(p, x) ==
    /\ ReusePids /\ NextBorn(p) /\ x \in FreePids
    /\ proc' = [proc EXCEPT ![p] = [Unborn EXCEPT !.phase = "work", !.pid = x]]
    /\ UNCHANGED <<disk, cli, table, walk>>

Worker(p) == PassGate(p) \/ WorkerOutput(p) \/ Publish(p) \/ ExitZero(p) \/ FailChunk(p)

Processes == \E p \in Procs : \/ Worker(p) \/ Die(p)
                            \/ \E x \in Pids : Stranger(p, x)

Next == CLI \/ Controller \/ Processes

Spec == Init /\ [][Next]_vars

(* The controller is a loop that never blocks in a handler, its poller reports *)
(* SIGCHLD, the fifo and the 200 ms tick as long as they are pending, timers   *)
(* expire, and a process does not survive SIGKILL. Nothing is assumed of the   *)
(* CLI, of crashes and restarts, or of an exec'd program.                      *)
BuiltIn(p) == proc[p].job # 0 /\ Op[proc[p].job] # "exec"

Fairness ==
    /\ WF_vars(Launching \/ Reaping)
    /\ \A j \in Jobs : WF_vars(RecoverInProgress(j) \/ RecoverWaiting(j) \/ RecoverSettled(j))
    /\ WF_vars(RecoverDone) /\ WF_vars(Exit)
    /\ WF_vars(OnSubmit \/ OnCancel)
    /\ \A j \in Jobs : WF_vars(OnTick(j)) /\ WF_vars(OnDeadline(j))
    /\ \A p \in Procs : /\ WF_vars(proc[p].sig = "KILL" /\ Die(p))
                         /\ WF_vars(BuiltIn(p) /\ Worker(p))

FairSpec == Spec /\ Fairness

-----------------------------------------------------------------------------
(* Properties. *)

LiveJobs == [state : {"absent", "queued", "starting", "running", "persisting"},
             procs : SUBSET Procs,
             stop_reason : {"", "failed", "timed_out", "cancelled", "shutdown"},
             uses_slot : BOOLEAN, deadline_id : BOOLEAN, kill_escalated : BOOLEAN]

ProcessTable ==
    {r \in [phase : {"unborn", "gate", "work", "wrote", "published", "zombie", "gone"},
            pid : Pids \cup {0}, job : Jobs \cup {0}, child : BOOLEAN,
            sig : {"none", "TERM", "KILL"},
            exit : {"none", "exited:0", "exited:1", "killed"},
            chunk : {"empty", "ok", "bad"}, gate : BOOLEAN] :
        r.phase = "zombie" => r.exit # "none"}

Lines == [cmd : {"SUBMIT", "CANCEL"}, job : Jobs]

DiskOK ==
    /\ record \in [Jobs -> States \cup {"none"}]
    /\ meta_procs \in [Jobs -> SUBSET Procs]
    /\ output \in [Jobs -> BOOLEAN]

CliOK ==
    /\ sent \subseteq Jobs /\ asked \subseteq Jobs
    /\ fifo \in Seq(Lines)

ProcOK == proc \in [Procs -> ProcessTable]

TableOK ==
    /\ live \in [Jobs -> LiveJobs]
    /\ how \in [Procs -> {"", "exited:0", "exited:1", "killed"}]
    /\ queue \subseteq Jobs
    /\ slots_used \in Int
    /\ shutting_down \in BOOLEAN
    /\ pid_owner \in [Pids -> Jobs \cup {0}]

WalkOK ==
    /\ pc \in {"down", "boot", "loop", "schedule", "fork", "launched", "reap", "output", "finish"}
    /\ cur \in Jobs \cup {0}
    /\ pc \in {"fork", "launched", "output", "finish"} => cur \in Jobs
    /\ todo \subseteq Jobs
    /\ outcome \in Terminal \cup {""}
    /\ pc = "finish" => outcome \in Terminal
    /\ starts \in Nat

\* Every variable keeps its type (LiveJob, ProcRef and Controller in controller.cpp,
\* Meta in forge.hpp), and a launch or a finalize always has a job at hand.
TypeOK == DiskOK /\ CliOK /\ ProcOK /\ TableOK /\ WalkOK

\* slots_used counts exactly the jobs that hold a slot, and never exceeds slots_max:
\* no path through launch_job, finalize, release_runtime or a failed save leaks a slot
\* or gives one back twice.
SlotAccounting ==
    /\ slots_used = Cardinality({j \in Jobs : live[j].uses_slot})
    /\ slots_used <= slots_max

\* Every child that exists and is past launch_job belongs to a live job that still
\* waits for it, under the pid note_reap will look it up by: no exit is "unknown pid".
ChildrenAccountedFor ==
    \A p \in Procs : proc[p].child /\ HasPid(p) =>
        \/ pc = "fork" /\ proc[p].job = cur
        \/ /\ p \in live[proc[p].job].procs /\ how[p] = ""
           /\ pid_owner[proc[p].pid] = proc[p].job

\* A job is started at most once, whatever crashes: launch_job's "starting" record is
\* on disk before the first fork, and recover never queues such a record again.
RunsOnce == \A j \in Jobs : Cardinality({p \in Procs : proc[p].job = j}) <= Fan[j]

\* forge.hpp:79 for the jobs the controller writes or checks an output for: a record
\* says "completed" only when the output is there.
CompletedHasOutput ==
    \A j \in Jobs : record[j] = "completed" /\ Op[j] # "exec" => output[j]

\* A completed job is one whose every worker was forked, exited 0 and published a good
\* chunk, even when a signal was on its way (results_ok).
CompletedByAllWorkers ==
    \A j \in Jobs : record[j] = "completed" =>
        LET W == {p \in Procs : proc[p].job = j} IN
        /\ Cardinality(W) = Fan[j]
        /\ \A p \in W : proc[p].exit = "exited:0" /\ (Op[j] # "exec" => proc[p].chunk = "ok")

\* A record turns to "cancelled" only if somebody has cancelled that job, or while the
\* controller shuts down; and to "timed_out" only if that job was stopped by its own
\* deadline, whose timer is the only thing that stops a job for that reason. Another stop
\* reason, a crash or a failing worker never turns into one of those (request_stop,
\* note_reap, finalize, recover), whatever races it.
Turns(j, state) == record'[j] = state /\ record[j] # state
TimesOut(j)     == live'[j].stop_reason = "timed_out" /\ live[j].stop_reason # "timed_out"

AskedFor(j) ==
    /\ Turns(j, "cancelled") => j \in asked \/ shutting_down'
    /\ Turns(j, "timed_out") => live[j].stop_reason = "timed_out"
    /\ TimesOut(j) => j \in Deadline /\ live[j].deadline_id /\ ~live'[j].deadline_id

OutcomeWasAskedFor == [][\A j \in Jobs : AskedFor(j)]_vars

\* Between two events the record a reader of jobs/<id>/meta sees is the state of the
\* job in the controller's memory.
RecordMatchesMemory ==
    pc = "loop" => \A j \in Live : record[j] = live[j].state

\* Once recover has dealt with a job, every leftover worker whose pid@starttime was
\* recorded is gone or has SIGKILL pending.
RecordedLeftoversKilled ==
    \A p \in Procs :
        /\ Alive(p) /\ ~proc[p].child /\ proc[p].job # 0
        /\ pc # "down" /\ proc[p].job \notin todo
        /\ p \in meta_procs[proc[p].job]
        => proc[p].sig = "KILL"

\* No process that forge did not start is ever signalled: recover compares start
\* times, and signal_job skips what was reaped.
StrangersUnharmed == \A p \in Procs : proc[p].job = 0 => proc[p].sig = "none"

\* The record of a job that has ended and is not live never changes again: a late
\* SUBMIT or CANCEL line, a restart or a shutdown leaves it alone.
SettledStays ==
    [][\A j \in Jobs : record[j] \in Terminal /\ j \notin Live => record'[j] = record[j]]_vars

\* The diagram of forge.hpp has no arrow out of a terminal state.
TerminalIsFinal ==
    [][\A j \in Jobs : record[j] \in Terminal => record'[j] = record[j]]_vars

\* A job that was told to stop ends: SIGTERM, a second, SIGKILL, SIGCHLD, finalize.
StoppedJobsEnd == \A j \in Jobs : live[j].stop_reason # "" ~> j \notin Live

\* A requested shutdown ends the controller.
ShutdownCompletes == shutting_down ~> pc = "down"

\* A job the controller has accepted ends, provided that built-in workers progress
\* and exec jobs have a deadline.
LiveJobsEnd == \A j \in Jobs : j \in Live ~> j \notin Live

\* The controller keeps the promises of JobLifecycle.
Promise == INSTANCE JobLifecycle WITH Writes <- {j \in Jobs : Op[j] # "exec"}
KeepsPromise == Promise!Spec
=============================================================================
