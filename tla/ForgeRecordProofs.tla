------------------------- MODULE ForgeRecordProofs -------------------------
(***************************************************************************)
(* The safety theorems about what Forge writes into the records of jobs:   *)
(* that an outcome was asked for, that a job runs at most once, that the   *)
(* record is what the controller has in mind, that the leftovers of a dead *)
(* controller can be found, and that the promises of JobLifecycle are kept.*)
(***************************************************************************)
EXTENDS ForgeProofs

-----------------------------------------------------------------------------
(* Lines of the fifo come from the CLI: whoever cancels has asked for it, and *)
(* a submitted job has a record.                                              *)

HonestLines == {l \in Lines : /\ l.cmd = "CANCEL" => l.job \in asked
                              /\ l.cmd = "SUBMIT" => record[l.job] # "none"}

LinesAreHonest == fifo \in Seq(HonestLines)

LEMMA SeqMono ==
    ASSUME NEW T, NEW U, T \subseteq U, NEW s \in Seq(T) PROVE s \in Seq(U)
OBVIOUS

\* A record does not vanish.
LEMMA RecordsStay ==
    ASSUME TypeOK, Next, NEW j \in Jobs, record[j] # "none" PROVE record'[j] # "none"
<1>1. record \in [Jobs -> States \cup {"none"}]
  BY DEF TypeOK, DiskOK
<1>2. ASSUME NEW k, NEW s, NEW P, Save(k, s, P), s # "none" PROVE record'[j] # "none"
  BY <1>1, <1>2 DEF Save
<1>3. CASE CLI
  BY <1>1, <1>3 DEF CLI, Submit, SendSubmit, CancelCommand, disk
<1>4. ASSUME NEW k, Enqueue(k) PROVE record'[j] # "none"
  BY <1>2, <1>4 DEF Enqueue
<1>5. CASE Lifecycle
  <2>1. ASSUME NEW k \in Jobs, RecoverInProgress(k) \/ RecoverWaiting(k) PROVE record'[j] # "none"
    BY <1>2, <1>4, <2>1 DEF RecoverInProgress, RecoverWaiting
  <2>. QED  BY <1>5, <2>1 DEF Lifecycle, Start, Crash, Exit, Forget, RecoverDone, RecoverSettled, disk
<1>6. CASE Launching
  <2>1. ASSUME NEW k \in Jobs, LaunchFails(k) \/ LaunchStarts(k) PROVE record'[j] # "none"
    BY <1>2, <2>1 DEF LaunchFails, LaunchStarts
  <2>2. CASE ForkFails \/ SaveRunning
    BY <1>2, <2>2 DEF ForkFails, SaveRunning
  <2>. QED  BY <1>6, <2>1, <2>2 DEF Launching, ScheduleDone, GiveUp, OpenGate, Fork, disk
<1>7. CASE Reaping
  <2>1. ASSUME NEW z \in Procs, ReapChild(z) PROVE record'[j] # "none"
    BY <1>2, <2>1 DEF ReapChild, NoteReap, disk
  <2>2. CASE Finish
    <3>1. outcome # "none"
      BY <2>2 DEF Finish, TypeOK, WalkOK, Terminal
    <3>. QED  BY <1>2, <2>2, <3>1 DEF Finish
  <2>. QED  BY <1>7, <2>1, <2>2 DEF Reaping, BeginReap, ReapDone, WriteOutput, ReapUnknown, disk
<1>8. CASE Events
  <2>1. CASE OnSubmit
    BY <1>2, <1>4, <2>1 DEF OnSubmit, disk
  <2>2. CASE OnCancel
    BY <1>2, <2>2 DEF OnCancel, disk
  <2>3. CASE OnShutdown
    <3>1. \E S : record' = [k \in Jobs |-> IF k \in S THEN "cancelled" ELSE record[k]]
      BY <2>3 DEF OnShutdown
    <3>. QED  BY <3>1
  <2>. QED  BY <1>8, <2>1, <2>2, <2>3 DEF Events, OnDeadline, OnTick, disk
<1>9. CASE Processes
  BY <1>9 DEF Processes, Worker, PassGate, Becomes, WorkerOutput, Publish, ExitZero, FailChunk,
              Die, Ends, Stranger, disk
<1>. QED  BY <1>3, <1>5, <1>6, <1>7, <1>8, <1>9 DEF Next, Controller

LEMMA LinesStep ==
    ASSUME TypeOK, LinesAreHonest, Next PROVE LinesAreHonest'
<1>1. asked \subseteq asked'
  BY DEF Next, CLI, Submit, SendSubmit, CancelCommand, Controller, Lifecycle, Start, Crash, Exit,
         Forget, RecoverDone, RecoverInProgress, RecoverWaiting, RecoverSettled, Launching,
         ScheduleDone, GiveUp, LaunchFails, LaunchStarts, Fork, ForkFails, OpenGate, SaveRunning,
         Reaping, BeginReap, ReapDone, WriteOutput, ReapUnknown, ReapChild, NoteReap, Finish, Events,
         OnSubmit, OnCancel, OnShutdown, OnDeadline, OnTick, Processes, Worker, PassGate, Becomes,
         WorkerOutput, Publish, ExitZero, FailChunk, Die, Ends, Stranger, cli
<1>2. HonestLines \subseteq HonestLines'
  BY <1>1, RecordsStay DEF HonestLines, Lines
<1>3. fifo \in Seq(HonestLines')
  BY <1>2, SeqMono DEF LinesAreHonest
<1>4. \/ fifo' = fifo
      \/ fifo' = <<>>
      \/ fifo # <<>> /\ fifo' = Tail(fifo)
      \/ \E l \in HonestLines' : fifo' = Append(fifo, l)
  <2>1. CASE CLI
    <3>1. ASSUME NEW j \in Jobs, SendSubmit(j) \/ CancelCommand(j)
          PROVE  fifo' = fifo \/ \E l \in HonestLines' : fifo' = Append(fifo, l)
      <4>1. CASE SendSubmit(j)
        <5>. DEFINE l == [cmd |-> "SUBMIT", job |-> j]
        <5>1. l \in HonestLines'
          BY <4>1 DEF SendSubmit, HonestLines, Lines, disk
        <5>2. fifo' = fifo \/ fifo' = Append(fifo, l)
          BY <4>1 DEF SendSubmit, SendFifo
        <5>. QED  BY <5>1, <5>2
      <4>2. CASE CancelCommand(j)
        <5>. DEFINE l == [cmd |-> "CANCEL", job |-> j]
        <5>1. l \in HonestLines'
          BY <4>2 DEF CancelCommand, HonestLines, Lines
        <5>2. fifo' = fifo \/ fifo' = Append(fifo, l)
          BY <4>2 DEF CancelCommand, SendFifo
        <5>. QED  BY <5>1, <5>2
      <4>. QED  BY <3>1, <4>1, <4>2
    <3>. QED  BY <2>1, <3>1 DEF CLI, Submit, cli
  <2>2. CASE Lifecycle
    BY <2>2 DEF Lifecycle, Start, Crash, Exit, Forget, RecoverDone, RecoverInProgress,
                RecoverWaiting, RecoverSettled, cli
  <2>3. CASE Launching
    BY <2>3 DEF Launching, ScheduleDone, GiveUp, LaunchFails, LaunchStarts, Fork, ForkFails, OpenGate,
                SaveRunning, cli
  <2>4. CASE Reaping
    BY <2>4 DEF Reaping, BeginReap, ReapDone, WriteOutput, ReapUnknown, ReapChild, NoteReap,
                Finish, cli
  <2>5. CASE Events
    BY <2>5 DEF Events, OnSubmit, OnCancel, OnShutdown, OnDeadline, OnTick, cli
  <2>6. CASE Processes
    BY <2>6 DEF Processes, Worker, PassGate, Becomes, WorkerOutput, Publish, ExitZero, FailChunk,
                Die, Ends, Stranger, cli
  <2>. QED  BY <2>1, <2>2, <2>3, <2>4, <2>5, <2>6 DEF Next, Controller
<1>. QED  BY <1>3, <1>4, SeqType DEF LinesAreHonest

LEMMA LinesInvariant == Spec => []LinesAreHonest
<1>1. Init => LinesAreHonest
  <2>1. ASSUME Init PROVE fifo = <<>>
    BY <2>1 DEF Init
  <2>. QED  BY <2>1 DEF LinesAreHonest
<1>2. LinesAreHonest /\ UNCHANGED vars => LinesAreHonest'
  BY DEF LinesAreHonest, HonestLines, vars, disk, cli
<1>. QED  BY <1>1, <1>2, LinesStep, TypeCorrect, PTL DEF Spec

\* The line the controller has at hand.
LEMMA HeadLine ==
    ASSUME TypeOK, LinesAreHonest, fifo # <<>>
    PROVE  /\ Head(fifo).job \in Jobs
           /\ Head(fifo).cmd = "CANCEL" => Head(fifo).job \in asked
           /\ Head(fifo).cmd = "SUBMIT" => record[Head(fifo).job] # "none"
<1>1. Head(fifo) \in HonestLines
  BY SeqType DEF LinesAreHonest
<1>. QED  BY <1>1 DEF HonestLines, Lines

-----------------------------------------------------------------------------
(* Outcomes are asked for. The controller must remember reasons that were     *)
(* given: a stop reason, a timer or an outcome at hand that nobody asked for  *)
(* would turn into a record nobody asked for. A cancel is not taken back, and *)
(* the end of a controller takes back its shutdown and all it had in mind.    *)

\* The jobs that may be cancelled: somebody asked for it, or for a shutdown.
Excused == {j \in Jobs : j \in asked \/ shutting_down}

Deserved(A, j, s) == s \in {"cancelled", "shutdown"} => j \in A

ReasonsDeserved ==
    \A j \in Jobs : /\ Deserved(Excused, j, live[j].stop_reason)
                    /\ live[j].deadline_id => j \in Deadline

OutcomeDeserved ==
    pc = "finish" => /\ Deserved(Excused, cur, outcome)
                     /\ outcome = "timed_out" => live[cur].stop_reason = "timed_out"

AskInv == ReasonsDeserved /\ OutcomeDeserved

LEMMA AskedGrows == Next => asked \subseteq asked'
BY DEF Next, CLI, Submit, SendSubmit, CancelCommand, Controller, Lifecycle, Start, Crash, Exit,
       Forget, RecoverDone, RecoverInProgress, RecoverWaiting, RecoverSettled, Launching,
       ScheduleDone, GiveUp, LaunchFails, LaunchStarts, Fork, ForkFails, OpenGate, SaveRunning,
       Reaping, BeginReap, ReapDone, WriteOutput, ReapUnknown, ReapChild, NoteReap, Finish, Events,
       OnSubmit, OnCancel, OnShutdown, OnDeadline, OnTick, Processes, Worker, PassGate, Becomes,
       WorkerOutput, Publish, ExitZero, FailChunk, Die, Ends, Stranger, cli

\* Only a request shuts the controller down, and only a new one starts again.
LEMMA ShutdownSteps ==
    ASSUME Next
    PROVE  \/ shutting_down' = shutting_down
           \/ OnShutdown
           \/ Forget /\ shutting_down' = FALSE /\ pc' = "down"
<1>1. CASE CLI \/ Processes
  BY <1>1 DEF CLI, Submit, SendSubmit, CancelCommand, Processes, Worker, PassGate, Becomes,
              WorkerOutput, Publish, ExitZero, FailChunk, Die, Ends, Stranger, table
<1>2. CASE Lifecycle
  BY <1>2 DEF Lifecycle, Start, Crash, Exit, Forget, RecoverDone, RecoverInProgress,
              RecoverWaiting, RecoverSettled, Enqueue, table
<1>3. CASE Launching
  BY <1>3 DEF Launching, ScheduleDone, GiveUp, LaunchFails, LaunchStarts, Fork, ForkFails,
              OpenGate, SaveRunning, table
<1>4. CASE Reaping
  BY <1>4 DEF Reaping, BeginReap, ReapDone, WriteOutput, Finish, ReapUnknown, ReapChild, NoteReap,
              table
<1>5. CASE Events
  BY <1>5 DEF Events, OnSubmit, Enqueue, OnCancel, OnDeadline, OnTick, table
<1>. QED  BY <1>1, <1>2, <1>3, <1>4, <1>5 DEF Next, Controller

LEMMA ExcusedGrows ==
    ASSUME Next, ~Forget PROVE Excused \subseteq Excused'
BY AskedGrows, ShutdownSteps DEF Excused, OnShutdown

\* What a step may write into the record of a job.
LEMMA RecordsStep ==
    ASSUME TypeOK, LinesAreHonest, AskInv, Next, NEW j \in Jobs, record'[j] # record[j]
    PROVE  /\ record'[j] = "cancelled" => j \in asked \/ shutting_down'
           /\ record'[j] = "timed_out" => live[j].stop_reason = "timed_out"
<1>. DEFINE A == {k \in Jobs : k \in asked \/ shutting_down'}
            Right(k, s) == /\ Deserved(A, k, s)
                           /\ s = "timed_out" => live[k].stop_reason = "timed_out"
<1>. SUFFICES Right(j, record'[j])
  BY DEF Deserved
<1>1. record \in [Jobs -> States \cup {"none"}]
  BY DEF TypeOK, DiskOK
<1>2. record' # record /\ ~UNCHANGED disk /\ ~Forget
  BY DEF Forget, disk
<1>3. Excused \subseteq A
  BY <1>2, ShutdownSteps DEF Excused, OnShutdown
<1>4. ASSUME NEW k \in Jobs, NEW s, NEW P, Save(k, s, P), Right(k, s)
      PROVE  Right(j, record'[j])
  <2>1. record'[j] = record[j] \/ (k = j /\ record'[j] = s)
    BY <1>1, <1>4 DEF Save
  <2>. QED  BY <1>4, <2>1
<1>5. ASSUME NEW s, s \notin {"cancelled", "timed_out", "shutdown"} PROVE \A k : Right(k, s)
  BY <1>5 DEF Deserved
<1>6. ASSUME NEW k \in Jobs, Enqueue(k) PROVE Right(j, record'[j])
  BY <1>4, <1>5, <1>6 DEF Enqueue
<1>7. CASE CLI
  <2>1. ASSUME NEW k \in Jobs, Submit(k) PROVE record'[j] \in {record[j], "submitted"}
    BY <1>1, <2>1 DEF Submit
  <2>. QED  BY <1>2, <1>5, <1>7, <2>1 DEF CLI, SendSubmit, CancelCommand
<1>8. CASE Lifecycle
  <2>1. ASSUME NEW k \in Jobs, RecoverInProgress(k) \/ RecoverWaiting(k)
        PROVE  Right(j, record'[j])
    BY <1>4, <1>5, <1>6, <2>1 DEF RecoverInProgress, RecoverWaiting
  <2>. QED  BY <1>2, <1>8, <2>1
            DEF Lifecycle, Start, Crash, Exit, RecoverDone, RecoverSettled
<1>9. CASE Launching
  <2>1. pc \in {"fork", "launched"} => cur \in Jobs
    BY DEF TypeOK, WalkOK
  <2>2. ASSUME NEW k \in Jobs, LaunchFails(k) \/ LaunchStarts(k) PROVE Right(j, record'[j])
    BY <1>4, <1>5, <2>2 DEF LaunchFails, LaunchStarts
  <2>3. CASE ForkFails \/ SaveRunning
    BY <1>4, <1>5, <2>1, <2>3 DEF ForkFails, SaveRunning
  <2>. QED  BY <1>2, <1>9, <2>2, <2>3 DEF Launching, ScheduleDone, GiveUp, OpenGate, Fork
<1>10. CASE Reaping
  <2>1. ASSUME NEW z \in Procs, ReapChild(z) PROVE Right(j, record'[j])
    <3>1. PICK k \in Live : NoteReap(z, k, Endings(z, k))
      BY <2>1 DEF ReapChild
    <3>2. k \in Jobs /\ (Save(k, "persisting", live[k].procs) \/ UNCHANGED disk)
      BY <3>1 DEF NoteReap, Live
    <3>. QED  BY <1>2, <1>4, <1>5, <3>2
  <2>2. CASE Finish
    <3>1. Save(cur, outcome, live[cur].procs) /\ cur \in Jobs
      BY <2>2 DEF Finish, TypeOK, WalkOK
    <3>2. Right(cur, outcome)
      BY <1>3, <2>2 DEF Finish, AskInv, OutcomeDeserved, Deserved
    <3>. QED  BY <1>4, <3>1, <3>2
  <2>. QED  BY <1>2, <1>10, <2>1, <2>2 DEF Reaping, BeginReap, ReapDone, WriteOutput, ReapUnknown
<1>11. CASE Events
  <2>. DEFINE k == Head(fifo).job
  <2>1. CASE OnSubmit
    <3>1. /\ k \in Jobs
          /\ \/ shutting_down /\ Save(k, "cancelled", meta_procs[k])
             \/ UNCHANGED disk
             \/ Enqueue(k)
      BY <2>1, HeadLine DEF OnSubmit
    <3>2. shutting_down => Right(k, "cancelled")
      BY <1>3, <3>1 DEF Deserved, Excused
    <3>. HIDE DEF k
    <3>. QED  BY <1>2, <1>4, <1>6, <3>1, <3>2
  <2>2. CASE OnCancel
    <3>1. k \in Jobs /\ k \in asked /\ (Save(k, "cancelled", meta_procs[k]) \/ UNCHANGED disk)
      BY <2>2, HeadLine DEF OnCancel
    <3>2. Right(k, "cancelled")
      BY <1>1, <1>3, <3>1 DEF Deserved
    <3>. HIDE DEF k
    <3>. QED  BY <1>2, <1>4, <3>1, <3>2
  <2>3. CASE OnShutdown
    <3>1. shutting_down' /\ record'[j] = "cancelled"
      BY <2>3 DEF OnShutdown
    <3>. QED  BY <1>3, <3>1 DEF Deserved
  <2>. QED  BY <1>2, <1>11, <2>1, <2>2, <2>3 DEF Events, OnDeadline, OnTick
<1>12. CASE Processes
  BY <1>2, <1>12 DEF Processes, Worker, PassGate, Becomes, WorkerOutput, Publish, ExitZero,
                     FailChunk, Die, Ends, Stranger
<1>. QED  BY <1>7, <1>8, <1>9, <1>10, <1>11, <1>12 DEF Next, Controller

\* The stop reason and the timer that a step may leave in a LiveJob: only the timer of a
\* job makes it stop for its deadline.
LEMMA ReasonsStep ==
    ASSUME TypeOK, LinesAreHonest, AskInv, Next
    PROVE  ReasonsDeserved' /\ \A j \in Jobs : TimesOut(j) => OnDeadline(j)
<1>. SUFFICES ASSUME NEW j \in Jobs
              PROVE  /\ Deserved(Excused', j, live'[j].stop_reason)
                     /\ live'[j].deadline_id => j \in Deadline
                     /\ TimesOut(j) => OnDeadline(j)
  BY DEF ReasonsDeserved
<1>. DEFINE Late == live[j].stop_reason = "timed_out" \/ OnDeadline(j)
            Fine(r) == /\ Deserved(Excused', j, r.stop_reason)
                       /\ r.deadline_id => j \in Deadline
                       /\ r.stop_reason = "timed_out" => Late
<1>. SUFFICES Fine(live'[j])
  BY DEF TimesOut
<1>3. Fine(Absent) /\ Fine([Absent EXCEPT !.state = "queued"])
  BY DEF Absent, Deserved
<1>0. CASE Forget
  BY <1>0, <1>3 DEF Forget
<1>. SUFFICES ASSUME ~Forget PROVE Fine(live'[j])
  BY <1>0
<1>1. /\ live \in [Jobs -> LiveJobs] /\ live[j] \in LiveJobs /\ Fine(live[j])
      /\ asked \subseteq asked'
  BY AskedGrows, ExcusedGrows DEF TypeOK, TableOK, AskInv, ReasonsDeserved, Deserved
<1>. HIDE DEF Late
<1>2. ASSUME NEW r, Fine(r), live'[j] = r PROVE Fine(live'[j])
  BY <1>2
<1>4. ASSUME NEW s PROVE Fine([live[j] EXCEPT !.state = s])
  BY <1>1 DEF LiveJobs
<1>5. ASSUME NEW S, NEW reason,
             j \in S => Deserved(Excused', j, reason) /\ (reason = "timed_out" => Late)
      PROVE  Fine(WithReason(S, reason)[j])
  <2>1. \/ WithReason(S, reason)[j] = live[j]
        \/ /\ Deserved(Excused', j, reason) /\ (reason = "timed_out" => Late)
           /\ WithReason(S, reason)[j] = [live[j] EXCEPT !.stop_reason = reason]
    BY <1>5 DEF WithReason, Stopping
  <2>. QED  BY <1>1, <2>1 DEF LiveJobs
<1>6. CASE live' = live
  BY <1>1, <1>2, <1>6
<1>7. CASE CLI \/ Processes
  <2>1. live' = live
    BY <1>7 DEF CLI, Submit, SendSubmit, CancelCommand, Processes, Worker, PassGate, Becomes,
                WorkerOutput, Publish, ExitZero, FailChunk, Die, Ends, Stranger, table
  <2>. QED  BY <1>6, <2>1
<1>8. ASSUME NEW k \in Jobs, Enqueue(k) PROVE Fine(live'[j])
  <2>1. live' = live \/ live' = [live EXCEPT ![k] = [Absent EXCEPT !.state = "queued"]]
    BY <1>8 DEF Enqueue
  <2>2. live'[j] \in {live[j], [Absent EXCEPT !.state = "queued"]}
    BY <1>1, <2>1
  <2>. QED  BY <1>1, <1>2, <1>3, <2>2
<1>9. CASE Lifecycle
  <2>1. CASE Forget
    BY <1>2, <1>3, <2>1 DEF Forget
  <2>2. ASSUME NEW k \in Jobs, RecoverWaiting(k) PROVE Fine(live'[j])
    BY <1>8, <2>2 DEF RecoverWaiting
  <2>. QED  BY <1>6, <1>9, <2>1, <2>2
            DEF Lifecycle, Start, Crash, Exit, RecoverDone, RecoverSettled, RecoverInProgress, table
<1>10. CASE Launching
  <2>1. ASSUME NEW k \in Jobs, LaunchFails(k) \/ LaunchStarts(k) PROVE Fine(live'[j])
    <3>1. live'[j] \in {live[j], Absent, [live[j] EXCEPT !.state = "starting"]}
      BY <1>1, <2>1 DEF LaunchFails, LaunchStarts
    <3>. QED  BY <1>1, <1>2, <1>3, <1>4, <3>1
  <2>2. CASE ForkFails \/ SaveRunning
    <3>1. live'[j] \in {live[j], Absent, [live[j] EXCEPT !.state = "running"]}
      BY <1>1, <2>2 DEF ForkFails, SaveRunning
    <3>. QED  BY <1>1, <1>2, <1>3, <1>4, <3>1
  <2>3. CASE OpenGate
    <3>1. PICK timer \in BOOLEAN :
            /\ timer => cur \in Deadline
            /\ live' = [live EXCEPT ![cur].procs = Spawned, ![cur].uses_slot = TRUE,
                                    ![cur].deadline_id = timer]
      BY <2>3 DEF OpenGate
    <3>2. j # cur => live'[j] = live[j]
      BY <1>1, <3>1
    <3>3. j = cur => /\ live'[j].stop_reason = live[j].stop_reason
                     /\ live'[j].deadline_id = timer
      BY <1>1, <3>1 DEF LiveJobs
    <3>. QED  BY <1>1, <1>2, <3>1, <3>2, <3>3 DEF Deserved
  <2>. QED  BY <1>6, <1>10, <2>1, <2>2, <2>3 DEF Launching, ScheduleDone, GiveUp, Fork, table
<1>11. CASE Reaping
  <2>1. ASSUME NEW z \in Procs, ReapChild(z) PROVE Fine(live'[j])
    <3>1. PICK k \in Live : NoteReap(z, k, Endings(z, k))
      BY <2>1 DEF ReapChild
    <3>. DEFINE r == [live[k] EXCEPT
                         !.stop_reason = IF FirstBad(k, Endings(z, k)) THEN "failed" ELSE @,
                         !.state = IF Body(k, Endings(z, k)) THEN "persisting" ELSE @]
    <3>2. k \in Jobs /\ live' = [live EXCEPT ![k] = r]
      BY <1>1, <3>1 DEF NoteReap, Live
    <3>3. k = j => r.stop_reason \in {"failed", live[j].stop_reason}
                   /\ r.deadline_id = live[j].deadline_id
      BY <1>1 DEF LiveJobs
    <3>. HIDE DEF r
    <3>4. live'[j] = IF k = j THEN r ELSE live[j]
      BY <1>1, <3>2
    <3>. QED  BY <1>1, <1>2, <3>3, <3>4 DEF Deserved
  <2>2. CASE Finish
    <3>1. live'[j] \in {live[j], Absent}
      BY <1>1, <2>2 DEF Finish
    <3>. QED  BY <1>1, <1>2, <1>3, <3>1
  <2>. QED  BY <1>6, <1>11, <2>1, <2>2 DEF Reaping, BeginReap, ReapDone, WriteOutput, ReapUnknown, table
<1>12. CASE Events
  <2>1. CASE OnSubmit
    <3>1. /\ Head(fifo).job \in Jobs
          /\ UNCHANGED table \/ Enqueue(Head(fifo).job)
      BY <2>1, HeadLine DEF OnSubmit
    <3>. QED  BY <1>6, <1>8, <3>1 DEF table
  <2>2. CASE OnCancel
    <3>. DEFINE k == Head(fifo).job
    <3>1. /\ k \in asked /\ k \in Jobs
          /\ live' \in {live, [live EXCEPT ![k] = Absent], WithReason({k}, "cancelled")}
      BY <2>2, HeadLine DEF OnCancel
    <3>2. Deserved(Excused', k, "cancelled")
      BY <1>1, <3>1 DEF Deserved, Excused
    <3>. HIDE DEF k
    <3>3. Fine(WithReason({k}, "cancelled")[j])
      BY <1>5, <3>1, <3>2
    <3>4. live'[j] \in {live[j], Absent, WithReason({k}, "cancelled")[j]}
      BY <1>1, <3>1
    <3>. QED  BY <1>1, <1>2, <1>3, <3>3, <3>4
  <2>3. CASE OnShutdown
    <3>1. shutting_down' /\ live'[j] \in {Absent, WithReason(Live, "shutdown")[j]}
      BY <2>3 DEF OnShutdown
    <3>2. Fine(WithReason(Live, "shutdown")[j])
      BY <1>5, <3>1 DEF Deserved, Excused
    <3>. QED  BY <1>2, <1>3, <3>1, <3>2
  <2>4. ASSUME NEW k \in Jobs, OnDeadline(k) PROVE Fine(live'[j])
    <3>. DEFINE w == WithReason({k}, "timed_out")
    <3>1. k \in Deadline /\ live' = [w EXCEPT ![k].deadline_id = FALSE]
      BY <2>4 DEF OnDeadline, AskInv, ReasonsDeserved
    <3>2. Fine(w[j])
      BY <1>5, <2>4 DEF Deserved, Late
    <3>3. w \in [Jobs -> LiveJobs]
      BY WithReasonType DEF TypeOK
    <3>. HIDE DEF w
    <3>4. live'[j] \in {w[j], [w[j] EXCEPT !.deadline_id = FALSE]}
      BY <3>1, <3>3
    <3>5. [w[j] EXCEPT !.deadline_id = FALSE].stop_reason = w[j].stop_reason
          /\ [w[j] EXCEPT !.deadline_id = FALSE].deadline_id = FALSE
      BY <3>3 DEF LiveJobs
    <3>. QED  BY <1>2, <3>2, <3>4, <3>5
  <2>5. ASSUME NEW k \in Jobs, OnTick(k) PROVE Fine(live'[j])
    <3>1. live'[j] \in {live[j], [live[j] EXCEPT !.kill_escalated = TRUE]}
      BY <1>1, <2>5 DEF OnTick
    <3>2. Fine([live[j] EXCEPT !.kill_escalated = TRUE])
      BY <1>1 DEF LiveJobs
    <3>. QED  BY <1>1, <1>2, <3>1, <3>2
  <2>. QED  BY <1>12, <2>1, <2>2, <2>3, <2>4, <2>5 DEF Events
<1>. QED  BY <1>7, <1>9, <1>10, <1>11, <1>12 DEF Next, Controller

LEMMA OutcomeStep ==
    ASSUME TypeOK, AskInv, Next PROVE OutcomeDeserved'
<1>. DEFINE Right == /\ Deserved(Excused', cur', outcome')
                     /\ outcome' = "timed_out" => live'[cur'].stop_reason = "timed_out"
<1>. SUFFICES ASSUME pc' = "finish" PROVE Right
  BY DEF OutcomeDeserved
<1>1. Excused \subseteq Excused' /\ \A j \in Jobs : Deserved(Excused, j, live[j].stop_reason)
  BY ExcusedGrows DEF AskInv, ReasonsDeserved, Forget
<1>2. CASE UNCHANGED <<walk, table>>
  <2>1. /\ Deserved(Excused, cur, outcome) /\ cur' = cur /\ outcome' = outcome /\ live' = live
        /\ outcome = "timed_out" => live[cur].stop_reason = "timed_out"
    BY <1>2 DEF AskInv, OutcomeDeserved, walk, table
  <2>. QED  BY <1>1, <2>1 DEF Deserved
<1>3. CASE WriteOutput
  <2>1. outcome' \in {"completed", "failed"}
    BY <1>3 DEF WriteOutput
  <2>. QED  BY <2>1 DEF Deserved
<1>4. ASSUME NEW z \in Procs, ReapChild(z) PROVE Right
  <2>1. PICK j \in Live : NoteReap(z, j, Endings(z, j))
    BY <1>4 DEF ReapChild
  <2>2. j \in Jobs /\ cur' = j /\ outcome' \in {"completed", StoppedAs(j)}
    BY <2>1 DEF NoteReap, Live
  <2>3. Deserved(Excused, j, StoppedAs(j))
    BY <1>1, <2>2 DEF StoppedAs, Deserved
  <2>4. outcome' = "timed_out" => live[j].stop_reason = "timed_out"
    BY <2>2 DEF StoppedAs
  <2>5. live[j].stop_reason = "timed_out" => live'[j].stop_reason = "timed_out"
    <3>1. live \in [Jobs -> LiveJobs]
      BY DEF TypeOK, TableOK
    <3>2. live[j].stop_reason = "timed_out" => ~FirstBad(j, Endings(z, j))
      BY DEF FirstBad
    <3>. HIDE DEF FirstBad
    <3>3. live'[j] = [live[j] EXCEPT !.stop_reason = IF FirstBad(j, Endings(z, j)) THEN "failed" ELSE @,
                                     !.state = IF Body(j, Endings(z, j)) THEN "persisting" ELSE @]
      BY <2>1, <2>2, <3>1 DEF NoteReap
    <3>. QED  BY <2>2, <3>1, <3>2, <3>3 DEF LiveJobs
  <2>6. Deserved(Excused', j, outcome')
    BY <1>1, <2>2, <2>3 DEF Deserved
  <2>. QED  BY <2>2, <2>4, <2>5, <2>6
<1>5. CASE CLI \/ Processes
  BY <1>2, <1>5 DEF CLI, Submit, SendSubmit, CancelCommand, Processes, Worker, PassGate, Becomes,
                    WorkerOutput, Publish, ExitZero, FailChunk, Die, Ends, Stranger
<1>6. CASE Lifecycle
  BY <1>6 DEF Lifecycle, Start, Crash, Exit, Forget, RecoverDone, RecoverInProgress,
              RecoverWaiting, RecoverSettled
<1>7. CASE Launching
  BY <1>7 DEF Launching, ScheduleDone, GiveUp, LaunchFails, LaunchStarts, Schedules, Fork, ForkFails,
              OpenGate, SaveRunning, walk
<1>8. CASE Reaping
  BY <1>2, <1>3, <1>4, <1>8 DEF Reaping, BeginReap, ReapDone, Finish, ReapUnknown
<1>9. CASE Events
  BY <1>9 DEF Events, OnSubmit, OnCancel, OnShutdown, OnDeadline, OnTick, walk
<1>. QED  BY <1>5, <1>6, <1>7, <1>8, <1>9 DEF Next, Controller

\* A record turns to "cancelled" only if somebody has cancelled the job, or while the
\* controller shuts down; to "timed_out" only if the job was stopped by its own deadline
\* timer. No other stop reason, crash, failing save or failing worker turns into one of
\* those in request_stop, note_reap, finalize, on_cancel, enqueue or recover.
THEOREM OutcomesAreDeserved == Spec => OutcomeWasAskedFor
<1>1. Init => AskInv
  <2>. SUFFICES ASSUME Init PROVE AskInv
    OBVIOUS
  <2>1. \A j \in Jobs : live[j].stop_reason = "" /\ live[j].deadline_id = FALSE
    BY DEF Init, Absent
  <2>2. pc = "down"
    BY DEF Init
  <2>. QED  BY <2>1, <2>2 DEF AskInv, ReasonsDeserved, OutcomeDeserved, Deserved
<1>2. TypeOK /\ LinesAreHonest /\ AskInv /\ [Next]_vars => AskInv'
  <2>1. AskInv /\ UNCHANGED vars => AskInv'
    BY DEF AskInv, ReasonsDeserved, OutcomeDeserved, Excused, Deserved, vars, cli, table, walk
  <2>. QED  BY <2>1, ReasonsStep, OutcomeStep DEF AskInv
<1>3. TypeOK /\ LinesAreHonest /\ AskInv /\ [Next]_vars => [\A j \in Jobs : AskedFor(j)]_vars
  <2>. SUFFICES ASSUME TypeOK, LinesAreHonest, AskInv, Next, NEW j \in Jobs PROVE AskedFor(j)
    OBVIOUS
  <2>1. Turns(j, "cancelled") => j \in asked \/ shutting_down'
    BY RecordsStep DEF Turns
  <2>2. Turns(j, "timed_out") => live[j].stop_reason = "timed_out"
    BY RecordsStep DEF Turns
  <2>3. TimesOut(j) => j \in Deadline /\ live[j].deadline_id /\ ~live'[j].deadline_id
    <3>1. TimesOut(j) => OnDeadline(j)
      BY ReasonsStep
    <3>2. OnDeadline(j) => live[j].deadline_id /\ ~live'[j].deadline_id
      <4>. DEFINE w == WithReason({j}, "timed_out")
      <4>1. w \in [Jobs -> LiveJobs]
        BY WithReasonType DEF TypeOK
      <4>2. OnDeadline(j) => live[j].deadline_id /\ live' = [w EXCEPT ![j].deadline_id = FALSE]
        BY DEF OnDeadline
      <4>. HIDE DEF w
      <4>. QED  BY <4>1, <4>2 DEF LiveJobs
    <3>. QED  BY <3>1, <3>2 DEF AskInv, ReasonsDeserved
  <2>. QED  BY <2>1, <2>2, <2>3 DEF AskedFor
<1>. QED  BY <1>1, <1>2, <1>3, TypeCorrect, LinesInvariant, PTL DEF Spec, OutcomeWasAskedFor

-----------------------------------------------------------------------------
(* Who rewrites a record, or moves a job in the controller's memory.          *)

Moved(j) ==
    \/ Submit(j) \/ Forget
    \/ RecoverInProgress(j) \/ RecoverWaiting(j)
    \/ LaunchFails(j) \/ LaunchStarts(j)
    \/ (ForkFails \/ SaveRunning \/ Finish) /\ cur = j
    \/ \E z \in Procs : ReapChild(z) /\ NoteReap(z, j, how')
    \/ (OnSubmit \/ OnCancel) /\ Head(fifo).job = j
    \/ OnShutdown

SameJob(j) == /\ record'[j] = record[j] /\ meta_procs'[j] = meta_procs[j]
              /\ live'[j].state = live[j].state

LEMMA OthersStay ==
    ASSUME TypeOK, SlotInv, ProcInv, LinesAreHonest, Next, NEW j \in Jobs, ~Moved(j)
    PROVE  SameJob(j)
<1>1. /\ record \in [Jobs -> States \cup {"none"}] /\ meta_procs \in [Jobs -> SUBSET Procs]
      /\ live \in [Jobs -> LiveJobs]
      /\ pc \in {"fork", "launched", "output", "finish"} => cur \in Jobs
  BY DEF TypeOK, DiskOK, TableOK, WalkOK
<1>2. CASE UNCHANGED <<disk, table>>
  BY <1>2 DEF SameJob, disk, table
<1>3. ASSUME NEW k \in Jobs \ {j}, NEW s, NEW P, Save(k, s, P)
      PROVE  record'[j] = record[j] /\ meta_procs'[j] = meta_procs[j]
  BY <1>1, <1>3 DEF Save
<1>4. ASSUME NEW k \in Jobs \ {j}, NEW r, live' = [live EXCEPT ![k] = r]
      PROVE  live'[j].state = live[j].state
  BY <1>1, <1>4
<1>5. ASSUME NEW k \in Jobs \ {j}, Enqueue(k) PROVE SameJob(j)
  BY <1>3, <1>4, <1>5 DEF Enqueue, SameJob
<1>6. CASE CLI
  <2>1. ASSUME NEW k \in Jobs, Submit(k) PROVE SameJob(j)
    <3>1. k # j /\ live' = live /\ meta_procs' = meta_procs
      BY <2>1 DEF Submit, Moved, table
    <3>. QED  BY <1>1, <2>1, <3>1 DEF Submit, SameJob
  <2>. QED  BY <1>2, <1>6, <2>1 DEF CLI, SendSubmit, CancelCommand
<1>7. CASE Lifecycle
  <2>1. ASSUME NEW k \in Jobs, RecoverInProgress(k) PROVE SameJob(j)
    <3>1. k # j /\ live' = live
      BY <2>1 DEF RecoverInProgress, Moved, table
    <3>. QED  BY <1>3, <2>1, <3>1 DEF RecoverInProgress, SameJob
  <2>2. ASSUME NEW k \in Jobs, RecoverWaiting(k) PROVE SameJob(j)
    <3>1. k # j
      BY <2>2 DEF Moved
    <3>. QED  BY <1>5, <2>2, <3>1 DEF RecoverWaiting
  <2>. QED  BY <1>2, <1>7, <2>1, <2>2
            DEF Lifecycle, Start, Crash, Exit, RecoverDone, RecoverSettled, Moved
<1>8. CASE Launching
  <2>1. ASSUME NEW k \in Jobs, LaunchFails(k) \/ LaunchStarts(k) PROVE SameJob(j)
    <3>1. k # j
      BY <2>1 DEF Moved
    <3>. QED  BY <1>3, <1>4, <2>1, <3>1 DEF LaunchFails, LaunchStarts, SameJob
  <2>2. CASE ForkFails \/ SaveRunning
    <3>1. cur # j /\ cur \in Jobs
      BY <1>1, <2>2 DEF Moved, ForkFails, SaveRunning
    <3>. QED  BY <1>3, <1>4, <2>2, <3>1 DEF ForkFails, SaveRunning, SameJob
  <2>3. CASE OpenGate
    <3>1. /\ UNCHANGED disk
          /\ live'[cur].state = live[cur].state /\ \A k \in Jobs \ {cur} : live'[k] = live[k]
      BY <2>3, OpenGateFacts DEF OpenGate
    <3>. QED  BY <3>1 DEF SameJob, disk
  <2>. QED  BY <1>2, <1>8, <2>1, <2>2, <2>3 DEF Launching, ScheduleDone, GiveUp, Fork
<1>9. CASE Reaping
  <2>1. ASSUME NEW z \in Procs, ReapChild(z) PROVE SameJob(j)
    <3>1. PICK k \in Live : /\ k \in Jobs /\ NoteReap(z, k, how')
                            /\ \A i \in Jobs \ {k} : live'[i] = live[i]
      BY <2>1, ReapChildFacts
    <3>2. k # j
      BY <2>1, <3>1 DEF Moved
    <3>3. Save(k, "persisting", live[k].procs) \/ UNCHANGED disk
      BY <3>1 DEF NoteReap
    <3>. QED  BY <1>3, <3>1, <3>2, <3>3 DEF SameJob, disk
  <2>2. CASE Finish
    <3>1. cur # j /\ cur \in Jobs
      BY <1>1, <2>2 DEF Moved, Finish
    <3>. QED  BY <1>3, <1>4, <2>2, <3>1 DEF Finish, SameJob
  <2>3. CASE WriteOutput
    BY <2>3 DEF WriteOutput, SameJob, table
  <2>. QED  BY <1>2, <1>9, <2>1, <2>2, <2>3 DEF Reaping, BeginReap, ReapDone, ReapUnknown
<1>10. CASE Events
  <2>. DEFINE k == Head(fifo).job
  <2>1. CASE OnSubmit
    <3>1. /\ k \in Jobs \ {j}
          /\ \/ Save(k, "cancelled", meta_procs[k]) /\ UNCHANGED table
             \/ UNCHANGED <<disk, table>>
             \/ Enqueue(k)
      BY <2>1, HeadLine DEF OnSubmit, Moved
    <3>. HIDE DEF k
    <3>. QED  BY <1>2, <1>3, <1>5, <3>1 DEF SameJob, table
  <2>2. CASE OnCancel
    <3>1. /\ k \in Jobs \ {j}
          /\ Save(k, "cancelled", meta_procs[k]) \/ UNCHANGED disk
          /\ live' \in {live, [live EXCEPT ![k] = Absent], WithReason({k}, "cancelled")}
      BY <2>2, HeadLine DEF OnCancel, Moved
    <3>. HIDE DEF k
    <3>2. live'[j].state = live[j].state
      BY <1>4, <3>1, WithReasonKeepsWorkers
    <3>. QED  BY <1>3, <3>1, <3>2 DEF SameJob, disk
  <2>3. ASSUME NEW i \in Jobs, OnDeadline(i) PROVE SameJob(j)
    <3>. DEFINE w == WithReason({i}, "timed_out")
    <3>1. live' = [w EXCEPT ![i].deadline_id = FALSE]
      BY <2>3 DEF OnDeadline
    <3>2. w \in [Jobs -> LiveJobs] /\ w[j].state = live[j].state
      BY WithReasonType, WithReasonKeepsWorkers DEF TypeOK
    <3>. HIDE DEF w
    <3>3. live'[j].state = w[j].state
      BY <3>1, <3>2 DEF LiveJobs
    <3>. QED  BY <2>3, <3>2, <3>3 DEF OnDeadline, SameJob, disk
  <2>4. ASSUME NEW i \in Jobs, OnTick(i) PROVE SameJob(j)
    <3>1. live'[j].state = live[j].state
      BY <1>1, <2>4 DEF OnTick, LiveJobs
    <3>. QED  BY <2>4, <3>1 DEF OnTick, SameJob, disk
  <2>. QED  BY <1>10, <2>1, <2>2, <2>3, <2>4 DEF Events, Moved
<1>11. CASE Processes
  BY <1>11 DEF Processes, Worker, PassGate, Becomes, WorkerOutput, Publish, ExitZero, FailChunk,
               Die, Ends, Stranger, SameJob, disk, table
<1>. QED  BY <1>6, <1>7, <1>8, <1>9, <1>10, <1>11 DEF Next, Controller

-----------------------------------------------------------------------------
(* The leftovers of a dead controller. Its record leads recover to a worker   *)
(* as long as it says that the job is in progress, so it must say so while    *)
(* the worker runs. A SUBMIT line that comes for a live job while the         *)
(* controller shuts down breaks that: enqueue cancels the record, and the job *)
(* runs on.                                                                   *)

LateSubmit == shutting_down /\ OnSubmit /\ Head(fifo).job \in Live

\* A process does not come back, and SIGKILL stays pending.
LEMMA KillStays ==
    ASSUME TypeOK, SlotInv, ProcInv, Next, NEW p \in Procs, proc[p].phase # "unborn", Alive(p)'
    PROVE  Alive(p) /\ (proc[p].sig = "KILL" => proc'[p].sig = "KILL")
<1>. DEFINE Keeps(r) == /\ r.phase = proc[p].phase \/ r.phase = "gone"
                        /\ proc[p].sig = "KILL" => r.sig = "KILL"
<1>1. /\ proc[p] \in ProcessTable /\ proc \in [Procs -> ProcessTable]
      /\ proc'[p].phase \in {"gate", "work", "wrote", "published"}
  BY DEF TypeOK, ProcOK, Alive
<1>2. CASE Keeps(proc'[p])
  BY <1>1, <1>2 DEF Alive
<1>3. CASE proc' = proc
  BY <1>2, <1>3
<1>4. ASSUME NEW S, NEW s, proc' = Kill(S, s) PROVE Keeps(proc'[p])
  <2>1. \/ proc'[p] = proc[p]
        \/ proc[p].sig # "KILL" /\ proc'[p] = [proc[p] EXCEPT !.sig = s]
    BY <1>4 DEF Kill
  <2>2. [proc[p] EXCEPT !.sig = s].phase = proc[p].phase
    BY <1>1 DEF ProcessTable
  <2>. QED  BY <2>1, <2>2
<1>5. CASE CLI
  BY <1>3, <1>5 DEF CLI, Submit, SendSubmit, CancelCommand
<1>6. CASE Forget
  <2>1. proc'[p] = [proc[p] EXCEPT !.child = FALSE, !.phase = IF @ = "zombie" THEN "gone" ELSE @]
    BY <1>6 DEF Forget
  <2>2. Keeps(proc'[p])
    BY <1>1, <2>1 DEF ProcessTable
  <2>. QED  BY <1>2, <2>2
<1>7. ASSUME NEW j \in Jobs, RecoverInProgress(j) PROVE Keeps(proc'[p])
  BY <1>4, <1>7 DEF RecoverInProgress
<1>8. CASE Lifecycle
  BY <1>2, <1>3, <1>6, <1>7, <1>8
     DEF Lifecycle, Start, Crash, Exit, RecoverDone, RecoverWaiting, RecoverSettled
<1>9. ASSUME NEW q \in Procs, NEW r, NextBorn(q), proc' = [proc EXCEPT ![q] = r]
      PROVE  Keeps(proc'[p])
  BY <1>1, <1>9 DEF NextBorn
<1>10. CASE ForkFails
  <2>1. proc'[p] = IF p \in Spawned THEN [proc[p] EXCEPT !.phase = "gone"] ELSE proc[p]
    BY <1>10 DEF ForkFails
  <2>2. Keeps(proc'[p])
    BY <1>1, <2>1 DEF ProcessTable
  <2>. QED  BY <1>2, <2>2
<1>11. CASE OpenGate
  <2>1. proc'[p] = IF p \in Spawned THEN [proc[p] EXCEPT !.gate = TRUE] ELSE proc[p]
    BY <1>11 DEF OpenGate
  <2>2. Keeps(proc'[p])
    BY <1>1, <2>1 DEF ProcessTable
  <2>. QED  BY <1>2, <2>2
<1>12. CASE Launching
  <2>1. CASE GiveUp
    <3>1. proc'[p] = IF p \in Spawned THEN [proc[p] EXCEPT !.gate = TRUE] ELSE proc[p]
      BY <2>1 DEF GiveUp
    <3>2. Keeps(proc'[p])
      BY <1>1, <3>1 DEF ProcessTable
    <3>. QED  BY <1>2, <3>2
  <2>. QED  BY <1>2, <1>3, <1>9, <1>10, <1>11, <1>12, <2>1
            DEF Launching, ScheduleDone, LaunchFails, LaunchStarts, SaveRunning, Fork
<1>13. ASSUME NEW z \in Procs, NEW f \in [Procs -> ProcessTable], Keeps(f[p]),
              proc' = [f EXCEPT ![z].phase = "gone"]
       PROVE  Keeps(proc'[p])
  <2>1. proc'[p] = IF p = z THEN [f[p] EXCEPT !.phase = "gone"] ELSE f[p]
    BY <1>13
  <2>2. /\ [f[p] EXCEPT !.phase = "gone"].phase = "gone"
        /\ [f[p] EXCEPT !.phase = "gone"].sig = f[p].sig
    BY <1>13 DEF ProcessTable
  <2>. QED  BY <1>13, <2>1, <2>2
<1>14. ASSUME NEW z \in Procs, ReapUnknown(z) PROVE Keeps(proc'[p])
  <2>1. proc' = [proc EXCEPT ![z].phase = "gone"]
    BY <1>14 DEF ReapUnknown
  <2>. QED  BY <1>1, <1>13, <2>1
<1>15. ASSUME NEW z \in Procs, ReapChild(z) PROVE Keeps(proc'[p])
  <2>1. PICK j \in Live : j \in Jobs /\ NoteReap(z, j, how')
    BY <1>15, ReapChildFacts
  <2>. DEFINE K == Kill(Left(j, how'), "TERM")
              f == IF FirstBad(j, how') THEN K ELSE proc
  <2>2. proc' = [f EXCEPT ![z].phase = "gone"]
    BY <2>1 DEF NoteReap
  <2>3. f \in [Procs -> ProcessTable]
    BY KillType DEF TypeOK, ProcOK
  <2>4. Keeps(f[p])
    <3>1. K[p] = proc[p] \/ (proc[p].sig # "KILL" /\ K[p] = [proc[p] EXCEPT !.sig = "TERM"])
      BY DEF Kill
    <3>2. [proc[p] EXCEPT !.sig = "TERM"].phase = proc[p].phase
      BY <1>1 DEF ProcessTable
    <3>. QED  BY <3>1, <3>2
  <2>. HIDE DEF f
  <2>. QED  BY <1>13, <2>2, <2>3, <2>4
<1>16. CASE Reaping
  BY <1>2, <1>3, <1>14, <1>15, <1>16 DEF Reaping, BeginReap, ReapDone, WriteOutput, Finish
<1>17. CASE Events
  <2>1. proc' = proc \/ \E S, s : proc' = Kill(S, s)
    <3>1. CASE OnCancel
      BY <3>1 DEF OnCancel, Terminated
    <3>2. CASE OnShutdown \/ \E j \in Jobs : OnDeadline(j) \/ OnTick(j)
      BY <3>2 DEF OnShutdown, OnDeadline, OnTick, Terminated
    <3>. QED  BY <1>17, <3>1, <3>2 DEF Events, OnSubmit
  <2>. QED  BY <1>2, <1>3, <1>4, <2>1
<1>18. ASSUME NEW q \in Procs, Worker(q) \/ Die(q)
       PROVE  Alive(p) /\ (proc[p].sig = "KILL" => proc'[p].sig = "KILL")
  <2>1. CASE PassGate(q) \/ WorkerOutput(q) \/ Publish(q)
    <3>1. \/ proc' = proc
          \/ /\ Alive(q)
             /\ \/ \E f : proc' = [proc EXCEPT ![q] = [proc[q] EXCEPT !.phase = f]]
                \/ proc' = [proc EXCEPT ![q] = [proc[q] EXCEPT !.phase = "published", !.chunk = "ok"]]
      <4>1. CASE PassGate(q)
        BY <4>1 DEF PassGate, Becomes, Alive
      <4>2. CASE WorkerOutput(q)
        BY <4>2 DEF WorkerOutput, Alive
      <4>. QED  BY <2>1, <4>1, <4>2 DEF Publish, Alive
    <3>2. proc'[p].sig = proc[p].sig
      <4>1. \A r \in ProcessTable : \A f : [r EXCEPT !.phase = f].sig = r.sig
        BY DEF ProcessTable
      <4>2. \A r \in ProcessTable : [r EXCEPT !.phase = "published", !.chunk = "ok"].sig = r.sig
        BY DEF ProcessTable
      <4>3. ASSUME NEW r, r.sig = proc[q].sig, proc' = [proc EXCEPT ![q] = r]
            PROVE  proc'[p].sig = proc[p].sig
        BY <1>1, <4>3
      <4>4. proc[q] \in ProcessTable
        BY <1>1
      <4>. QED  BY <3>1, <4>1, <4>2, <4>3, <4>4
    <3>3. p # q => proc'[p] = proc[p]
      BY <1>1, <3>1
    <3>. QED  BY <1>1, <1>2, <1>3, <3>1, <3>2, <3>3
  <2>2. ASSUME NEW e, NEW c, Ends(q, e, c) PROVE p # q /\ proc'[p] = proc[p]
    <3>1. p # q => proc'[p] = proc[p]
      BY <1>1, <2>2 DEF Ends
    <3>2. proc'[q] = [proc[q] EXCEPT !.exit = e, !.chunk = c, !.sig = "none",
                                     !.phase = IF proc[q].child THEN "zombie" ELSE "gone"]
      BY <1>1, <2>2 DEF Ends
    <3>3. proc'[q].phase \in {"zombie", "gone"}
      BY <1>1, <3>2 DEF ProcessTable
    <3>. QED  BY <1>1, <3>1, <3>3
  <2>. QED  BY <1>2, <1>18, <2>1, <2>2 DEF Worker, ExitZero, FailChunk, Die
<1>19. ASSUME NEW q \in Procs, NEW x \in Pids, Stranger(q, x) PROVE Keeps(proc'[p])
  BY <1>9, <1>19 DEF Stranger
<1>. QED  BY <1>2, <1>5, <1>8, <1>12, <1>16, <1>17, <1>18, <1>19 DEF Next, Controller, Processes

\* What recover still has to look at stays to be looked at.
LEMMA TodoStays ==
    ASSUME TypeOK, SlotInv, Next, NEW j \in Jobs, record[j] \in InProgress, pc = "down" \/ j \in todo
    PROVE  pc' = "down" \/ j \in todo' \/ RecoverInProgress(j)
<1>1. CASE CLI \/ Processes
  BY <1>1 DEF CLI, Submit, SendSubmit, CancelCommand, Processes, Worker, PassGate, Becomes,
              WorkerOutput, Publish, ExitZero, FailChunk, Die, Ends, Stranger, walk
<1>2. CASE Lifecycle
  <2>1. CASE Start
    BY <2>1 DEF Start, InProgress
  <2>2. ASSUME NEW k \in Jobs, RecoverInProgress(k) \/ RecoverWaiting(k) \/ RecoverSettled(k)
        PROVE  pc' = "down" \/ j \in todo' \/ RecoverInProgress(j)
    BY <2>2 DEF RecoverInProgress, RecoverWaiting, RecoverSettled, InProgress, Waiting, Terminal
  <2>. QED  BY <1>2, <2>1, <2>2 DEF Lifecycle, Crash, Exit, Forget, RecoverDone
<1>3. CASE Launching
  BY <1>3 DEF Launching, ScheduleDone, GiveUp, LaunchFails, LaunchStarts, Schedules, Fork, ForkFails,
              OpenGate, SaveRunning, walk
<1>4. CASE Reaping
  BY <1>4 DEF Reaping, BeginReap, ReapDone, WriteOutput, Finish, ReapUnknown, ReapChild, NoteReap,
              walk
<1>5. CASE Events
  BY <1>5 DEF Events, OnSubmit, OnCancel, OnShutdown, OnDeadline, OnTick, walk, SlotInv,
              UnseenAreAbsent
<1>. QED  BY <1>1, <1>2, <1>3, <1>4, <1>5 DEF Next, Controller

\* Only the end of the controller makes an orphan.
LEMMA ChildrenStay ==
    ASSUME TypeOK, SlotInv, ProcInv, Next, ~Forget, NEW p \in Procs, proc[p].phase # "unborn"
    PROVE  proc'[p].child = proc[p].child
<1>1. CASE QuietStep
  BY <1>1 DEF QuietStep, SameProcesses, SameIdentity
<1>2. CASE ForkFails
  <2>1. proc'[p] = IF p \in Spawned THEN [proc[p] EXCEPT !.phase = "gone"] ELSE proc[p]
    BY <1>2 DEF ForkFails
  <2>. QED  BY <2>1 DEF TypeOK, ProcOK, ProcessTable
<1>3. CASE OpenGate
  BY <1>3, OpenGateFacts DEF SameIdentity
<1>4. ASSUME NEW q \in Procs, NEW x \in Pids, Fork(q, x) \/ Stranger(q, x)
      PROVE  proc'[p].child = proc[p].child
  <2>1. p # q
    BY <1>4 DEF Fork, Stranger, NextBorn
  <2>. QED  BY <1>4, <2>1 DEF Fork, Stranger, TypeOK, ProcOK
<1>5. ASSUME NEW z \in Procs, ReapUnknown(z) PROVE proc'[p].child = proc[p].child
  <2>1. proc'[p] = IF p = z THEN [proc[p] EXCEPT !.phase = "gone"] ELSE proc[p]
    BY <1>5 DEF ReapUnknown, TypeOK, ProcOK
  <2>. QED  BY <2>1 DEF TypeOK, ProcOK, ProcessTable
<1>6. ASSUME NEW z \in Procs, ReapChild(z) PROVE proc'[p].child = proc[p].child
  BY <1>6, ReapChildFacts DEF SameIdentity
<1>7. CASE Finish
  BY <1>7 DEF Finish
<1>. QED  BY <1>1, <1>2, <1>3, <1>4, <1>5, <1>6, <1>7, MostStepsAreQuiet DEF Loud, Crash, Exit

\* A recorded worker runs only while the record says so, and what a dead controller
\* left is marked or still to be found.
LeftoversAreFound ==
    \A j \in Jobs : \A p \in meta_procs[j] : Alive(p) =>
        IF proc[p].child THEN record[j] \in InProgress
        ELSE \/ proc[p].sig = "KILL"
             \/ record[j] \in InProgress /\ (pc = "down" \/ j \in todo)

\* A worker the controller still waits for keeps its record in progress.
LEMMA ChildRecorded ==
    ASSUME TypeOK, SlotInv, ProcInv, LinesAreHonest, Next, ~LateSubmit,
           NEW j \in Jobs, NEW p \in Procs, proc[p].child, proc[p].job = j, Alive(p), Alive(p)',
           p \in meta_procs[j] => record[j] \in InProgress, p \in meta_procs'[j]
    PROVE  record'[j] \in InProgress
<1>1. /\ record \in [Jobs -> States \cup {"none"}] /\ meta_procs \in [Jobs -> SUBSET Procs]
      /\ HasPid(p)
  BY DEF TypeOK, DiskOK, HasPid
<1>2. CASE record'[j] = record[j] /\ meta_procs'[j] = meta_procs[j]
  BY <1>2
<1>3. (pc = "fork" /\ j = cur) \/ p \in live[j].procs
  BY <1>1 DEF ProcInv, ChildrenHaveJobs
<1>4. p \in live[j].procs => live[j].uses_slot /\ live[j].state \in LaunchedStates
  BY DEF ProcInv, WorkersAreTheJobs, SlotInv, HoldersAreLaunched
<1>5. LaunchedStates \cap {"absent", "queued"} = {}
  BY DEF LaunchedStates
<1>6. ASSUME NEW s \in InProgress, NEW P, Save(j, s, P) PROVE record'[j] \in InProgress
  BY <1>1, <1>2, <1>6 DEF Save
<1>7. CASE ~Moved(j)
  BY <1>2, <1>7, OthersStay DEF SameJob
<1>8. CASE Submit(j)
  BY <1>1, <1>8 DEF Submit, InProgress
<1>9. CASE Forget
  BY <1>2, <1>9 DEF Forget, disk
<1>10. ASSUME RecoverInProgress(j) \/ RecoverWaiting(j) PROVE FALSE
  <2>1. pc = "boot" /\ j \in todo
    BY <1>10 DEF RecoverInProgress, RecoverWaiting, NextToRecover
  <2>. QED  BY <1>3, <1>4, <1>5, <2>1 DEF SlotInv, UnseenAreAbsent
<1>11. ASSUME LaunchFails(j) \/ LaunchStarts(j) PROVE FALSE
  <2>1. pc = "schedule" /\ live[j].state = "queued"
    BY <1>11 DEF LaunchFails, LaunchStarts, Schedules, Picked, Queued
  <2>. QED  BY <1>3, <1>4, <1>5, <2>1
<1>12. ASSUME ForkFails, cur = j PROVE FALSE
  <2>1. p \in Spawned
    BY <1>1, <1>12 DEF Spawned
  <2>2. proc'[p] = [proc[p] EXCEPT !.phase = "gone"]
    BY <1>12, <2>1 DEF ForkFails
  <2>3. proc'[p].phase = "gone"
    BY <2>2 DEF TypeOK, ProcOK, ProcessTable
  <2>. QED  BY <2>3 DEF Alive
<1>13. CASE SaveRunning /\ cur = j
  <2>1. Save(j, "running", live[j].procs) /\ "running" \in InProgress
    BY <1>13 DEF SaveRunning, InProgress
  <2>. QED  BY <1>6, <2>1
<1>14. ASSUME Finish, cur = j PROVE FALSE
  <2>1. how[p] # ""
    BY <1>3, <1>14 DEF Finish, ProcInv, LastIsReaped
  <2>. QED  BY <2>1 DEF ProcInv, ReapedAreGone, Alive
<1>15. CASE \E z \in Procs : ReapChild(z) /\ NoteReap(z, j, how')
  <2>1. (Save(j, "persisting", live[j].procs) \/ UNCHANGED disk) /\ "persisting" \in InProgress
    BY <1>15 DEF NoteReap, InProgress
  <2>. QED  BY <1>2, <1>6, <2>1 DEF disk
<1>16. CASE OnSubmit /\ Head(fifo).job = j
  <2>1. j \in Live
    BY <1>3, <1>4, <1>5, <1>16 DEF OnSubmit, Live
  <2>2. ~shutting_down
    BY <1>16, <2>1 DEF LateSubmit
  <2>3. UNCHANGED disk
    BY <1>16, <2>1, <2>2 DEF OnSubmit, Queues
  <2>. QED  BY <1>2, <2>3 DEF disk
<1>17. CASE OnCancel /\ Head(fifo).job = j
  <2>1. pc = "loop" /\ live[j].state \notin {"absent", "queued"}
    BY <1>3, <1>4, <1>5, <1>17 DEF OnCancel
  <2>2. j \in Live
    BY <2>1 DEF Live
  <2>3. UNCHANGED disk
    BY <1>17, <2>1, <2>2 DEF OnCancel, CancelsNotLive
  <2>. QED  BY <1>2, <2>3 DEF disk
<1>18. CASE OnShutdown
  <2>1. PICK S \in SUBSET queue : record' = [k \in Jobs |-> IF k \in S THEN "cancelled" ELSE record[k]]
    BY <1>18 DEF OnShutdown
  <2>2. pc = "loop" /\ meta_procs' = meta_procs
    BY <1>18 DEF OnShutdown
  <2>3. j \notin S
    BY <1>3, <1>4, <2>2 DEF SlotInv, QueuedWait
  <2>. QED  BY <1>2, <2>1, <2>2, <2>3
<1>. QED  BY <1>7, <1>8, <1>9, <1>10, <1>11, <1>12, <1>13, <1>14, <1>15, <1>16, <1>17, <1>18
          DEF Moved

\* A record that recover has still to look at does not change before it does.
LEMMA UnseenRecordStays ==
    ASSUME TypeOK, SlotInv, ProcInv, LinesAreHonest, Next, NEW j \in Jobs,
           record[j] \in InProgress, pc = "down" \/ j \in todo, ~RecoverInProgress(j)
    PROVE  record'[j] = record[j] /\ (pc' = "down" \/ j \in todo')
<1>1. /\ live[j].state = "absent"
      /\ pc \in {"down", "boot", "schedule", "fork", "launched"}
  BY DEF SlotInv, UnseenAreAbsent, Live
<1>2. pc \in {"fork", "launched"} => cur # j
  BY <1>1 DEF SlotInv, CurIsLaunched, LaunchedStates
<1>3. pc' = "down" \/ j \in todo'
  BY TodoStays
<1>4. CASE ~Moved(j)
  BY <1>3, <1>4, OthersStay DEF SameJob
<1>5. CASE Forget
  BY <1>3, <1>5 DEF Forget, disk
<1>6. ~Submit(j) /\ ~RecoverWaiting(j)
  BY DEF Submit, RecoverWaiting, InProgress, Waiting
<1>7. ~LaunchFails(j) /\ ~LaunchStarts(j)
  BY <1>1 DEF LaunchFails, LaunchStarts, Schedules, Picked, Queued
<1>8. ~((ForkFails \/ SaveRunning \/ Finish) /\ cur = j)
  BY <1>1, <1>2 DEF ForkFails, SaveRunning, Finish
<1>9. ~\E z \in Procs : ReapChild(z) /\ NoteReap(z, j, how')
  BY <1>1 DEF ReapChild
<1>10. ~OnSubmit /\ ~OnCancel /\ ~OnShutdown
  BY <1>1 DEF OnSubmit, OnCancel, OnShutdown
<1>. QED  BY <1>4, <1>5, <1>6, <1>7, <1>8, <1>9, <1>10 DEF Moved

LEMMA LeftoversStep ==
    ASSUME TypeOK, SlotInv, ProcInv, RecordedAreTheJobs, LinesAreHonest, LeftoversAreFound,
           Next, ~LateSubmit
    PROVE  LeftoversAreFound'
<1>. SUFFICES ASSUME NEW j \in Jobs, NEW p \in meta_procs'[j], Alive(p)'
              PROVE  IF proc'[p].child THEN record'[j] \in InProgress
                     ELSE \/ proc'[p].sig = "KILL"
                          \/ record'[j] \in InProgress /\ (pc' = "down" \/ j \in todo')
  BY DEF LeftoversAreFound
<1>1. p \in meta_procs[j] \/ p \in live[j].procs
  BY MetaSteps DEF MetaStep
<1>2. /\ p \in Procs /\ proc[p].job = j
      /\ p \in live[j].procs => proc[p].child
  BY <1>1 DEF RecordedAreTheJobs, ProcInv, WorkersAreTheJobs, TypeOK, DiskOK, TableOK, LiveJobs
<1>3. proc[p].phase # "unborn"
  BY <1>2, ConstantsAssumption DEF ConstantsAssumption, ProcInv, UnbornAreNobodys
<1>4. Alive(p) /\ (proc[p].sig = "KILL" => proc'[p].sig = "KILL")
  BY <1>2, <1>3, KillStays
<1>5. p \in meta_procs[j] =>
        IF proc[p].child THEN record[j] \in InProgress
        ELSE \/ proc[p].sig = "KILL"
             \/ record[j] \in InProgress /\ (pc = "down" \/ j \in todo)
  BY <1>4 DEF LeftoversAreFound
<1>6. CASE proc[p].child /\ ~Forget
  <2>1. proc'[p].child
    BY <1>2, <1>3, <1>6, ChildrenStay
  <2>2. record'[j] \in InProgress
    BY <1>2, <1>4, <1>5, <1>6, ChildRecorded
  <2>. QED  BY <2>1, <2>2
<1>7. CASE proc[p].child /\ Forget
  <2>1. p \in meta_procs[j] /\ record'[j] = record[j] /\ pc' = "down"
    BY <1>7 DEF Forget, disk
  <2>. QED  BY <1>5, <1>7, <2>1
<1>8. CASE ~proc[p].child
  <2>1. ~proc'[p].child
    BY <1>2, <1>3, <1>8, BornStay
  <2>2. CASE proc[p].sig = "KILL"
    BY <1>4, <2>1, <2>2
  <2>3. CASE RecoverInProgress(j)
    <3>1. proc' = Kill(Leftovers(j), "KILL") /\ p \in Leftovers(j)
      BY <1>1, <1>2, <1>4, <1>8, <2>3 DEF RecoverInProgress, Leftovers, HasPid
    <3>2. proc[p].sig = "KILL" \/ proc'[p] = [proc[p] EXCEPT !.sig = "KILL"]
      BY <1>2, <1>4, <3>1 DEF Kill
    <3>3. [proc[p] EXCEPT !.sig = "KILL"].sig = "KILL"
      BY <1>2 DEF TypeOK, ProcOK, ProcessTable
    <3>. QED  BY <2>1, <2>2, <3>2, <3>3
  <2>4. CASE proc[p].sig # "KILL" /\ ~RecoverInProgress(j)
    <3>1. record[j] \in InProgress /\ (pc = "down" \/ j \in todo)
      BY <1>1, <1>2, <1>5, <1>8, <2>4
    <3>. QED  BY <2>1, <2>4, <3>1, UnseenRecordStays
  <2>. QED  BY <2>2, <2>3, <2>4
<1>. QED  BY <1>6, <1>7, <1>8

\* As long as no SUBMIT line comes for a live job while the controller shuts down, every
\* leftover worker whose pid@starttime was recorded is gone or has SIGKILL pending once
\* recover has dealt with its job, even where saves fail.
THEOREM LeftoversAreKilled == Spec /\ [][~LateSubmit]_vars => []RecordedLeftoversKilled
<1>1. Init => RecordedAreTheJobs /\ LeftoversAreFound
  <2>. SUFFICES ASSUME Init PROVE RecordedAreTheJobs /\ LeftoversAreFound
    OBVIOUS
  <2>1. \A j \in Jobs : meta_procs[j] = {}
    BY DEF Init
  <2>. QED  BY <2>1 DEF RecordedAreTheJobs, LeftoversAreFound
<1>2. /\ TypeOK /\ SlotInv /\ ProcInv /\ LinesAreHonest /\ RecordedAreTheJobs /\ LeftoversAreFound
      /\ [Next]_vars /\ [~LateSubmit]_vars
      => RecordedAreTheJobs' /\ LeftoversAreFound'
  <2>1. LeftoversAreFound /\ UNCHANGED vars => LeftoversAreFound'
    BY DEF LeftoversAreFound, Alive, vars, disk, walk
  <2>2. TypeOK /\ SlotInv /\ ProcInv /\ RecordedAreTheJobs /\ [Next]_vars => RecordedAreTheJobs'
    BY RecordedStep
  <2>. QED  BY <2>1, <2>2, LeftoversStep
<1>3. RecordedAreTheJobs /\ LeftoversAreFound /\ TypeOK => RecordedLeftoversKilled
  <2>. SUFFICES ASSUME LeftoversAreFound, TypeOK, NEW p \in Procs, Alive(p), ~proc[p].child,
                       proc[p].job # 0, pc # "down", proc[p].job \notin todo,
                       p \in meta_procs[proc[p].job]
                PROVE  proc[p].sig = "KILL"
    BY DEF RecordedLeftoversKilled
  <2>1. proc[p].job \in Jobs
    BY DEF TypeOK, ProcOK, ProcessTable
  <2>. QED  BY <2>1 DEF LeftoversAreFound
<1>. QED  BY <1>1, <1>2, <1>3, ProcInvariant, LinesInvariant, PTL DEF Spec

-----------------------------------------------------------------------------
(* Where the controller stands tells which job is being launched or ended,    *)
(* and the states of the jobs in memory fit it.                               *)

Busy == {"fork", "launched", "output", "finish"}

LEMMA PlaceSteps ==
    ASSUME TypeOK, Next
    PROVE  \/ UNCHANGED <<pc, cur, outcome>>
           \/ pc \notin Busy /\ pc' \notin Busy
           \/ Forget \/ OpenGate \/ ForkFails \/ SaveRunning \/ WriteOutput \/ Finish
           \/ \E j \in Jobs : LaunchStarts(j)
           \/ \E z \in Procs : ReapChild(z)
<1>1. CASE CLI \/ Processes
  BY <1>1 DEF CLI, Submit, SendSubmit, CancelCommand, Processes, Worker, PassGate, Becomes,
              WorkerOutput, Publish, ExitZero, FailChunk, Die, Ends, Stranger, walk
<1>2. CASE Lifecycle
  BY <1>2 DEF Lifecycle, Start, Crash, Exit, RecoverDone, RecoverInProgress, RecoverWaiting,
              RecoverSettled, Busy
<1>3. CASE Launching
  BY <1>3 DEF Launching, ScheduleDone, GiveUp, LaunchFails, Fork, walk, Busy
<1>4. CASE Reaping
  BY <1>4 DEF Reaping, BeginReap, ReapDone, ReapUnknown, walk, Busy
<1>5. CASE Events
  BY <1>5 DEF Events, OnSubmit, OnCancel, OnShutdown, OnDeadline, OnTick, walk, Busy
<1>. QED  BY <1>1, <1>2, <1>3, <1>4, <1>5 DEF Next, Controller

\* The states a step may give to a job in memory.
LEMMA StateMoves ==
    ASSUME TypeOK, SlotInv, ProcInv, LinesAreHonest, Next, NEW j \in Jobs
    PROVE  \/ /\ live'[j].state = live[j].state /\ ~Forget /\ ~LaunchStarts(j)
              /\ ~((ForkFails \/ SaveRunning \/ Finish) /\ cur = j)
           \/ /\ live'[j].state = "absent" /\ pc' \notin {"fork", "launched"}
              /\ j \in queue' => j \in queue /\ ForkFails /\ cur = j
           \/ live'[j].state = "queued" /\ live[j].state = "absent" /\ pc \in {"boot", "loop"}
           \/ live'[j].state = "starting" /\ LaunchStarts(j)
           \/ live'[j].state = "running" /\ SaveRunning /\ cur = j
           \/ /\ live'[j].state = "persisting"
              /\ \E z \in Procs : ReapChild(z) /\ NoteReap(z, j, how') /\ Body(j, how')
<1>1. live \in [Jobs -> LiveJobs] /\ live[j] \in LiveJobs
  BY DEF TypeOK, TableOK
<1>2. Absent.state = "absent" /\ [Absent EXCEPT !.state = "queued"].state = "queued"
  BY DEF Absent
<1>3. CASE /\ live'[j].state = live[j].state /\ ~Forget /\ ~LaunchStarts(j)
           /\ ~((ForkFails \/ SaveRunning \/ Finish) /\ cur = j)
  BY <1>3
<1>4. CASE ~Moved(j)
  BY <1>3, <1>4, OthersStay DEF SameJob, Moved
<1>5. CASE Submit(j)
  <2>1. record[j] = "none" /\ record'[j] = "submitted" /\ UNCHANGED <<table, walk>>
    BY <1>5 DEF Submit, TypeOK, DiskOK
  <2>2. ~Forget
    BY <2>1 DEF Forget, disk
  <2>. QED  BY <1>3, <2>1, <2>2 DEF LaunchStarts, Schedules, ForkFails, SaveRunning, Finish, table, walk
<1>6. CASE Forget
  BY <1>2, <1>6 DEF Forget
<1>7. CASE RecoverInProgress(j)
  BY <1>3, <1>7 DEF RecoverInProgress, Forget, LaunchStarts, Schedules, ForkFails, SaveRunning,
                    Finish, table
<1>8. ASSUME Enqueue(j), live[j].state = "absent"
      PROVE  \/ live'[j].state = "queued"
             \/ live'[j].state = live[j].state
  BY <1>1, <1>2, <1>8 DEF Enqueue
<1>9. CASE RecoverWaiting(j)
  <2>1. pc = "boot" /\ pc' = "schedule" /\ live[j].state = "absent" /\ Enqueue(j)
    BY <1>9 DEF RecoverWaiting, NextToRecover, SlotInv, UnseenAreAbsent
  <2>. QED  BY <1>3, <1>8, <2>1 DEF Forget, LaunchStarts, Schedules, ForkFails, SaveRunning, Finish
<1>10. CASE LaunchFails(j)
  <2>1. live'[j].state = "absent" /\ j \notin queue' /\ pc' = "schedule"
    BY <1>1, <1>2, <1>10 DEF LaunchFails, Schedules, walk
  <2>. QED  BY <2>1
<1>11. CASE LaunchStarts(j)
  <2>1. live'[j].state = "starting"
    BY <1>1, <1>11 DEF LaunchStarts, LiveJobs
  <2>. QED  BY <1>11, <2>1
<1>12. CASE ForkFails /\ cur = j
  <2>1. live'[j].state = "absent" /\ queue' = queue /\ pc' = "schedule"
    BY <1>1, <1>2, <1>12 DEF ForkFails
  <2>. QED  BY <1>12, <2>1
<1>13. CASE SaveRunning /\ cur = j
  <2>1. live'[j].state = "running"
    BY <1>1, <1>13 DEF SaveRunning, LiveJobs
  <2>. QED  BY <1>13, <2>1
<1>14. CASE Finish /\ cur = j
  <2>1. live'[j].state = "absent" /\ j \notin queue' /\ pc' = "reap"
    BY <1>1, <1>2, <1>14 DEF Finish
  <2>. QED  BY <2>1
<1>15. CASE \E z \in Procs : ReapChild(z) /\ NoteReap(z, j, how')
  <2>1. PICK z \in Procs : ReapChild(z) /\ NoteReap(z, j, how')
    BY <1>15
  <2>2. live'[j].state = IF Body(j, how') THEN "persisting" ELSE live[j].state
    BY <1>1, <2>1 DEF NoteReap, LiveJobs
  <2>3. pc = "reap" /\ queue' = queue
    BY <2>1 DEF ReapChild, NoteReap
  <2>. QED  BY <1>3, <2>1, <2>2, <2>3 DEF Forget, LaunchStarts, Schedules, ForkFails, SaveRunning,
                                          Finish, NoteReap
<1>16. pc = "loop" /\ pc' # "down" => ~Forget /\ ~LaunchStarts(j) /\ ~ForkFails /\ ~SaveRunning /\ ~Finish
  BY DEF Forget, LaunchStarts, Schedules, ForkFails, SaveRunning, Finish
<1>17. CASE OnSubmit /\ Head(fifo).job = j
  <2>1. \/ UNCHANGED <<table, pc>>
        \/ live[j].state = "absent" /\ Enqueue(j) /\ pc' = "schedule"
    BY <1>17 DEF OnSubmit, Queues, Live
  <2>2. pc = "loop"
    BY <1>17 DEF OnSubmit
  <2>. QED  BY <1>3, <1>8, <1>16, <2>1, <2>2 DEF table
<1>18. CASE OnCancel /\ Head(fifo).job = j
  <2>1. pc = "loop" /\ UNCHANGED walk
    BY <1>18 DEF OnCancel
  <2>2. \/ live' = live
        \/ live' = [live EXCEPT ![j] = Absent] /\ j \notin queue'
        \/ live' = WithReason({j}, "cancelled")
    BY <1>18 DEF OnCancel
  <2>3. \/ live'[j].state = live[j].state
        \/ live'[j].state = "absent" /\ j \notin queue'
    BY <1>1, <1>2, <2>2, WithReasonKeepsWorkers
  <2>. QED  BY <1>3, <1>16, <2>1, <2>3 DEF walk
<1>19. CASE OnShutdown
  <2>1. pc = "loop" /\ UNCHANGED walk /\ queue' = {}
    BY <1>19 DEF OnShutdown
  <2>2. live'[j] \in {Absent, WithReason(Live, "shutdown")[j]}
    BY <1>19 DEF OnShutdown
  <2>3. live'[j].state \in {"absent", live[j].state}
    BY <1>2, <2>2, WithReasonKeepsWorkers
  <2>. QED  BY <1>3, <1>16, <2>1, <2>3 DEF walk
<1>. QED  BY <1>4, <1>5, <1>6, <1>7, <1>9, <1>10, <1>11, <1>12, <1>13, <1>14, <1>15, <1>17, <1>18, <1>19
          DEF Moved

StatesFit ==
    /\ \A j \in Jobs :
        /\ live[j].state = "starting" => pc \in {"fork", "launched"} /\ j = cur
        /\ live[j].state = "persisting" => pc \in {"output", "finish"} /\ j = cur
        /\ j \in queue => live[j].state = "queued"
    /\ pc \in {"fork", "launched"} => live[cur].state = "starting" /\ ~shutting_down
    /\ pc = "output" => live[cur].state = "persisting"
    /\ pc = "finish" => live[cur].state \in {"running", "persisting"}
    /\ pc = "finish" /\ live[cur].state = "persisting" => outcome \in {"completed", "failed"}

\* A job the controller is busy with stays in its state.
LEMMA CurStays ==
    ASSUME TypeOK, SlotInv, ProcInv, LinesAreHonest, Next, pc \in Busy,
           \/ UNCHANGED <<pc, cur, outcome>>
           \/ WriteOutput
    PROVE  live'[cur].state = live[cur].state
<1>1. cur \in Jobs /\ pc # "schedule" /\ pc # "boot" /\ pc # "loop" /\ pc # "reap" /\ pc # "down"
  BY DEF TypeOK, WalkOK, Busy
<1>2. CASE WriteOutput
  BY <1>2 DEF WriteOutput, table
<1>3. CASE UNCHANGED <<pc, cur, outcome>>
  <2>1. CASE ~Moved(cur)
    BY <1>1, <2>1, OthersStay DEF SameJob
  <2>2. CASE Submit(cur)
    BY <2>2 DEF Submit, table
  <2>3. ~Forget /\ ~ForkFails /\ ~SaveRunning /\ ~Finish
    BY <1>1, <1>3 DEF Forget, ForkFails, SaveRunning, Finish
  <2>4. ~RecoverInProgress(cur) /\ ~RecoverWaiting(cur) /\ ~LaunchFails(cur) /\ ~LaunchStarts(cur)
    BY <1>1 DEF RecoverInProgress, RecoverWaiting, LaunchFails, LaunchStarts, Schedules
  <2>5. ~OnSubmit /\ ~OnCancel /\ ~OnShutdown /\ \A z \in Procs : ~ReapChild(z)
    BY <1>1 DEF OnSubmit, OnCancel, OnShutdown, ReapChild
  <2>. QED  BY <2>1, <2>2, <2>3, <2>4, <2>5 DEF Moved
<1>. QED  BY <1>2, <1>3

LEMMA QueueGrows ==
    ASSUME TypeOK, LinesAreHonest, Next, NEW j \in Jobs, j \in queue', j \notin queue
    PROVE  live'[j].state = "queued"
<1>1. live \in [Jobs -> LiveJobs]
  BY DEF TypeOK, TableOK
<1>2. ASSUME NEW k \in Jobs, Enqueue(k) PROVE live'[j].state = "queued"
  BY <1>1, <1>2 DEF Enqueue, Absent
<1>3. ~(CLI \/ Processes)
  BY DEF CLI, Submit, SendSubmit, CancelCommand, Processes, Worker, PassGate, Becomes,
         WorkerOutput, Publish, ExitZero, FailChunk, Die, Ends, Stranger, table
<1>4. CASE Lifecycle
  BY <1>2, <1>4 DEF Lifecycle, Start, Crash, Exit, Forget, RecoverDone, RecoverInProgress,
                    RecoverWaiting, RecoverSettled, table
<1>5. ~Launching
  BY DEF Launching, ScheduleDone, GiveUp, LaunchFails, LaunchStarts, Fork, ForkFails, OpenGate,
         SaveRunning, table
<1>6. ~Reaping
  BY DEF Reaping, BeginReap, ReapDone, WriteOutput, Finish, ReapUnknown, ReapChild, NoteReap,
         table
<1>7. CASE OnSubmit
  <2>1. Head(fifo).job \in Jobs /\ (UNCHANGED table \/ Enqueue(Head(fifo).job))
    BY <1>7, HeadLine DEF OnSubmit
  <2>. QED  BY <1>2, <2>1 DEF table
<1>8. CASE Events
  BY <1>7, <1>8 DEF Events, OnCancel, OnShutdown, OnDeadline, OnTick
<1>. QED  BY <1>3, <1>4, <1>5, <1>6, <1>8 DEF Next, Controller

LEMMA StatesStep ==
    ASSUME TypeOK, SlotInv, ProcInv, LinesAreHonest, StatesFit, Next
    PROVE  StatesFit'
<1>1. /\ live \in [Jobs -> LiveJobs]
      /\ pc \in Busy => cur \in Jobs
  BY DEF TypeOK, TableOK, WalkOK, Busy
<1>2. ASSUME NEW z \in Procs, ReapChild(z)
      PROVE  \E j \in Jobs :
             /\ pc = "reap" /\ z \in live[j].procs
             /\ \/ pc' = "reap" /\ ~Body(j, how')
                \/ pc' = "output" /\ cur' = j /\ Body(j, how') /\ live'[j].state = "persisting"
                \/ /\ pc' = "finish" /\ cur' = j /\ ~Body(j, how')
                   /\ live'[j].state = live[j].state
             /\ NoteReap(z, j, how')
  <2>1. PICK j \in Live : j \in Jobs /\ z \in live[j].procs /\ pc = "reap" /\ NoteReap(z, j, how')
    BY <1>2, ReapChildFacts
  <2>2. live'[j].state = IF Body(j, how') THEN "persisting" ELSE live[j].state
    BY <1>1, <2>1 DEF NoteReap, LiveJobs
  <2>3. Body(j, how') => Left(j, how') = {}
    BY DEF Body, Ok
  <2>. QED  BY <2>1, <2>2, <2>3 DEF NoteReap
<1>3. ASSUME NEW j \in Jobs, live'[j].state = "starting"
      PROVE  pc' \in {"fork", "launched"} /\ j = cur'
  <2>1. CASE LaunchStarts(j)
    BY <2>1 DEF LaunchStarts
  <2>2. CASE ~LaunchStarts(j)
    <3>1. live[j].state = "starting" /\ ~Forget /\ ~((ForkFails \/ SaveRunning \/ Finish) /\ cur = j)
      BY <1>3, <2>2, StateMoves
    <3>2. pc \in {"fork", "launched"} /\ j = cur
      BY <3>1 DEF StatesFit
    <3>. QED  BY <3>1, <3>2, PlaceSteps, OpenGateFacts
              DEF Busy, WriteOutput, LaunchStarts, Schedules, ReapChild
  <2>. QED  BY <2>1, <2>2
<1>4. ASSUME NEW j \in Jobs, live'[j].state = "persisting"
      PROVE  pc' \in {"output", "finish"} /\ j = cur'
  <2>1. CASE \E z \in Procs : ReapChild(z) /\ NoteReap(z, j, how') /\ Body(j, how')
    BY <2>1 DEF NoteReap, Body, Ok
  <2>2. CASE ~\E z \in Procs : ReapChild(z) /\ NoteReap(z, j, how') /\ Body(j, how')
    <3>1. live[j].state = "persisting" /\ ~Forget /\ ~((ForkFails \/ SaveRunning \/ Finish) /\ cur = j)
      BY <1>4, <2>2, StateMoves
    <3>2. pc \in {"output", "finish"} /\ j = cur
      BY <3>1 DEF StatesFit
    <3>. QED  BY <3>1, <3>2, PlaceSteps
              DEF Busy, WriteOutput, OpenGate, ForkFails, SaveRunning, LaunchStarts, Schedules, ReapChild
  <2>. QED  BY <2>1, <2>2
<1>5. ASSUME NEW j \in Jobs, j \in queue' PROVE live'[j].state = "queued"
  <2>1. CASE j \notin queue
    BY <1>5, <2>1, QueueGrows
  <2>2. CASE j \in queue
    <3>1. live[j].state = "queued" /\ ~live[j].uses_slot
      BY <2>2 DEF StatesFit, SlotInv, QueuedWait
    <3>2. ~(cur = j /\ (ForkFails \/ SaveRunning))
      BY <3>1 DEF ForkFails, SaveRunning, StatesFit
    <3>3. ~LaunchStarts(j)
      BY <1>5 DEF LaunchStarts
    <3>4. ~\E z \in Procs : ReapChild(z) /\ NoteReap(z, j, how') /\ Body(j, how')
      <4>1. SUFFICES ASSUME NEW z \in Procs, ReapChild(z), NoteReap(z, j, how'), Body(j, how')
                     PROVE  FALSE
        OBVIOUS
      <4>2. PICK k \in Jobs : z \in live[k].procs /\ NoteReap(z, k, how')
        BY <1>2, <4>1
      <4>3. cur' = j /\ pc' = "output"
        BY <4>1 DEF NoteReap, Body, Ok
      <4>4. k = j
        BY <4>2, <4>3 DEF NoteReap
      <4>5. live[j].uses_slot
        BY <4>2, <4>4 DEF ProcInv, WorkersAreTheJobs
      <4>. QED  BY <3>1, <4>5
    <3>. QED  BY <1>5, <3>1, <3>2, <3>3, <3>4, StateMoves
  <2>. QED  BY <2>1, <2>2
<1>6. ASSUME pc' \in {"fork", "launched"} PROVE live'[cur'].state = "starting" /\ ~shutting_down'
  <2>1. CASE \E j \in Jobs : LaunchStarts(j)
    <3>1. PICK j \in Jobs : LaunchStarts(j)
      BY <2>1
    <3>2. live'[j].state = "starting"
      BY <1>1, <3>1 DEF LaunchStarts, LiveJobs
    <3>. QED  BY <3>1, <3>2 DEF LaunchStarts, Schedules
  <2>2. CASE OpenGate
    BY <2>2, OpenGateFacts DEF StatesFit
  <2>3. CASE UNCHANGED <<pc, cur, outcome>>
    <3>1. pc \in {"fork", "launched"} /\ pc \in Busy
      BY <1>6, <2>3 DEF Busy
    <3>2. live'[cur].state = "starting"
      BY <2>3, <3>1, CurStays DEF StatesFit
    <3>3. shutting_down' = shutting_down
      BY <1>6, <3>1, ShutdownSteps DEF OnShutdown
    <3>4. ~shutting_down /\ cur' = cur
      BY <2>3, <3>1 DEF StatesFit
    <3>. QED  BY <3>2, <3>3, <3>4
  <2>. QED  BY <1>2, <1>6, <2>1, <2>2, <2>3, PlaceSteps
            DEF Busy, Forget, ForkFails, SaveRunning, WriteOutput, Finish
<1>7. ASSUME pc' = "output" PROVE live'[cur'].state = "persisting"
  <2>1. CASE UNCHANGED <<pc, cur, outcome>>
    BY <1>7, <2>1, CurStays DEF StatesFit, Busy
  <2>. QED  BY <1>2, <1>7, <2>1, PlaceSteps
            DEF Busy, Forget, OpenGate, ForkFails, SaveRunning, WriteOutput, Finish, LaunchStarts
<1>8. ASSUME pc' = "finish" PROVE live'[cur'].state \in {"running", "persisting"}
  <2>1. CASE UNCHANGED <<pc, cur, outcome>> \/ WriteOutput
    <3>1. pc \in {"output", "finish"} /\ cur' = cur /\ pc \in Busy
      BY <1>8, <2>1 DEF WriteOutput, Busy
    <3>. QED  BY <2>1, <3>1, CurStays DEF StatesFit
  <2>2. ASSUME NEW z \in Procs, ReapChild(z) PROVE live'[cur'].state \in {"running", "persisting"}
    <3>1. PICK j \in Jobs : /\ pc = "reap" /\ cur' = j /\ live'[j].state = live[j].state
                            /\ z \in live[j].procs
      BY <1>2, <1>8, <2>2
    <3>2. live[j].state \in LaunchedStates
      BY <3>1 DEF ProcInv, WorkersAreTheJobs, SlotInv, HoldersAreLaunched
    <3>3. live[j].state # "starting"
      BY <3>1 DEF StatesFit
    <3>. QED  BY <3>1, <3>2, <3>3 DEF LaunchedStates
  <2>. QED  BY <1>8, <2>1, <2>2, PlaceSteps
            DEF Busy, Forget, OpenGate, ForkFails, SaveRunning, Finish, LaunchStarts
<1>9. ASSUME pc' = "finish", live'[cur'].state = "persisting"
      PROVE  outcome' \in {"completed", "failed"}
  <2>1. CASE UNCHANGED <<pc, cur, outcome>>
    BY <1>9, <2>1, CurStays DEF StatesFit, Busy
  <2>2. CASE WriteOutput
    BY <2>2 DEF WriteOutput
  <2>3. ASSUME NEW z \in Procs, ReapChild(z) PROVE FALSE
    <3>1. PICK j \in Jobs : pc = "reap" /\ cur' = j /\ live'[j].state = live[j].state
      BY <1>2, <1>9, <2>3
    <3>. QED  BY <1>9, <3>1 DEF StatesFit
  <2>. QED  BY <1>9, <2>1, <2>2, <2>3, PlaceSteps
            DEF Busy, Forget, OpenGate, ForkFails, SaveRunning, Finish, LaunchStarts
<1>. QED  BY <1>3, <1>4, <1>5, <1>6, <1>7, <1>8, <1>9 DEF StatesFit

-----------------------------------------------------------------------------
(* Where saves do not fail, a record says what the controller has in mind, or *)
(* (after a late SUBMIT line) that the job was cancelled; and what a dead     *)
(* controller had in mind is in progress until recover has looked at it.      *)

RecordTells ==
    \A j \in Live : record[j] = live[j].state \/ (shutting_down /\ record[j] = "cancelled")

HeldInProgress ==
    \A j \in Jobs : record[j] \in InProgress => j \in Live \/ pc = "down" \/ j \in todo

LEMMA SaveWorks ==
    ASSUME ~Scarcity, TypeOK, NEW j \in Jobs, NEW s, NEW P, Save(j, s, P)
    PROVE  record'[j] = s
BY DEF Save, TypeOK, DiskOK

LEMMA EnqueueWorks ==
    ASSUME ~Scarcity, TypeOK, NEW j \in Jobs, Enqueue(j), live[j].state = "absent"
    PROVE  \/ record'[j] = "failed" /\ live'[j].state = "absent"
           \/ record'[j] = "queued" /\ live'[j].state = "queued"
<1>1. live \in [Jobs -> LiveJobs]
  BY DEF TypeOK, TableOK
<1>2. Absent.state = "absent" /\ [Absent EXCEPT !.state = "queued"].state = "queued"
  BY DEF Absent
<1>3. CASE j \in Malformed
  BY <1>1, <1>3, SaveWorks DEF Enqueue
<1>4. CASE j \notin Malformed
  BY <1>1, <1>2, <1>4, SaveWorks DEF Enqueue
<1>. QED  BY <1>3, <1>4

\* What a step makes of the record and the state of one job.
LEMMA JobSteps ==
    ASSUME ~Scarcity, TypeOK, SlotInv, ProcInv, LinesAreHonest, StatesFit, Next, NEW j \in Jobs
    PROVE  \/ /\ record'[j] = record[j] /\ live'[j].state = live[j].state
              /\ ~RecoverInProgress(j)
           \/ Forget /\ record'[j] = record[j] /\ live'[j].state = "absent" /\ pc' = "down"
           \/ record[j] = "none" /\ record'[j] = "submitted" /\ live'[j].state = live[j].state
           \/ /\ record[j] \in InProgress /\ record'[j] = "failed" /\ RecoverInProgress(j)
              /\ live[j].state = "absent" /\ live'[j].state = "absent"
           \/ /\ record[j] \notin Terminal /\ live[j].state = "absent"
              /\ \/ record'[j] = "failed" /\ live'[j].state = "absent"
                 \/ record'[j] = "queued" /\ live'[j].state = "queued"
              /\ \/ record[j] \in Waiting
                 \/ pc = "loop" /\ OnSubmit /\ Head(fifo).job = j
           \/ /\ pc = "schedule" /\ live[j].state = "queued" /\ ~shutting_down
              /\ \/ record'[j] = "failed" /\ live'[j].state = "absent"
                 \/ record'[j] = "starting" /\ live'[j].state = "starting"
           \/ /\ live[j].state = "starting" /\ ~shutting_down
              /\ \/ record'[j] = "failed" /\ live'[j].state = "absent"
                 \/ record'[j] = "running" /\ live'[j].state = "running"
           \/ /\ pc = "reap" /\ live[j].state \in LaunchedStates
              /\ record'[j] = "persisting" /\ live'[j].state = "persisting"
           \/ /\ Finish /\ cur = j /\ j \in Live
              /\ record'[j] = outcome /\ live'[j].state = "absent"
           \/ /\ pc = "loop" /\ record[j] \notin Terminal /\ record'[j] = "cancelled"
              /\ live'[j].state = live[j].state
              /\ \/ j \notin Live /\ (OnCancel => record[j] # "none")
                 \/ LateSubmit
              /\ (OnCancel \/ OnSubmit) /\ Head(fifo).job = j
           \/ /\ pc = "loop" /\ live[j].state = "queued" /\ record'[j] = "cancelled"
              /\ live'[j].state = "absent"
<1>1. /\ live \in [Jobs -> LiveJobs] /\ live[j] \in LiveJobs
      /\ record \in [Jobs -> States \cup {"none"}]
      /\ Absent.state = "absent"
      /\ j \in Live <=> live[j].state # "absent"
  BY DEF TypeOK, TableOK, DiskOK, Absent, Live
<1>2. CASE ~Moved(j)
  BY <1>2, OthersStay DEF SameJob, Moved
<1>3. CASE Submit(j)
  <2>1. record[j] = "none" /\ record'[j] = "submitted" /\ live' = live
    BY <1>1, <1>3 DEF Submit, table
  <2>. QED  BY <2>1
<1>4. CASE Forget
  BY <1>1, <1>4 DEF Forget, disk
<1>5. CASE RecoverInProgress(j)
  <2>1. record[j] \in InProgress /\ Save(j, "failed", meta_procs[j]) /\ live' = live /\ j \in todo
    BY <1>5 DEF RecoverInProgress, NextToRecover, table
  <2>2. live[j].state = "absent"
    BY <2>1 DEF SlotInv, UnseenAreAbsent
  <2>. QED  BY <1>5, <2>1, <2>2, SaveWorks
<1>6. CASE RecoverWaiting(j)
  <2>1. record[j] \in Waiting /\ Enqueue(j) /\ j \in todo
    BY <1>6 DEF RecoverWaiting, NextToRecover
  <2>2. live[j].state = "absent" /\ record[j] \notin Terminal
    BY <2>1 DEF SlotInv, UnseenAreAbsent, Waiting, Terminal
  <2>. QED  BY <2>1, <2>2, EnqueueWorks
<1>7. CASE LaunchFails(j) \/ LaunchStarts(j)
  <2>1. pc = "schedule" /\ live[j].state = "queued" /\ ~shutting_down
    BY <1>7 DEF LaunchFails, LaunchStarts, Schedules, Picked, Queued
  <2>2. CASE LaunchFails(j)
    BY <1>1, <2>1, <2>2, SaveWorks DEF LaunchFails
  <2>3. CASE LaunchStarts(j)
    <3>1. live'[j].state = "starting"
      BY <1>1, <2>3 DEF LaunchStarts, LiveJobs
    <3>. QED  BY <2>1, <2>3, <3>1, SaveWorks DEF LaunchStarts
  <2>. QED  BY <1>7, <2>2, <2>3
<1>8. CASE (ForkFails \/ SaveRunning) /\ cur = j
  <2>1. live[j].state = "starting" /\ ~shutting_down
    BY <1>8 DEF ForkFails, SaveRunning, StatesFit
  <2>2. CASE ForkFails
    BY <1>1, <1>8, <2>1, <2>2, SaveWorks DEF ForkFails
  <2>3. CASE SaveRunning
    <3>1. live'[j].state = "running"
      BY <1>1, <1>8, <2>3 DEF SaveRunning, LiveJobs
    <3>. QED  BY <1>8, <2>1, <2>3, <3>1, SaveWorks DEF SaveRunning
  <2>. QED  BY <1>8, <2>2, <2>3
<1>9. CASE Finish /\ cur = j
  <2>1. record'[j] = outcome /\ live'[j].state = "absent"
    BY <1>1, <1>9, SaveWorks DEF Finish
  <2>2. j \in Live
    BY <1>1, <1>9 DEF Finish, SlotInv, CurIsLaunched
  <2>. QED  BY <1>9, <2>1, <2>2
<1>10. CASE \E z \in Procs : ReapChild(z) /\ NoteReap(z, j, how')
  <2>1. PICK z \in Procs : ReapChild(z) /\ NoteReap(z, j, how')
    BY <1>10
  <2>2. live'[j].state = IF Body(j, how') THEN "persisting" ELSE live[j].state
    BY <1>1, <2>1 DEF NoteReap, LiveJobs
  <2>3. pc = "reap"
    BY <2>1 DEF ReapChild
  <2>4. CASE ~Body(j, how')
    <3>1. record' = record
      BY <2>1, <2>4 DEF NoteReap, disk
    <3>. QED  BY <2>2, <2>3, <2>4, <3>1 DEF RecoverInProgress
  <2>5. CASE Body(j, how')
    <3>1. record'[j] = "persisting"
      BY <2>1, <2>5, SaveWorks DEF NoteReap
    <3>2. PICK k \in Live : k \in Jobs /\ NoteReap(z, k, how') /\ z \in live[k].procs
      BY <2>1, ReapChildFacts
    <3>3. cur' = j /\ pc' = "output"
      BY <2>1, <2>5 DEF NoteReap, Body, Ok
    <3>4. k = j
      BY <3>2, <3>3 DEF NoteReap
    <3>5. live[j].state \in LaunchedStates
      BY <3>2, <3>4 DEF ProcInv, WorkersAreTheJobs, SlotInv, HoldersAreLaunched
    <3>. QED  BY <2>2, <2>3, <2>5, <3>1, <3>5
  <2>. QED  BY <2>4, <2>5
<1>11. CASE OnSubmit /\ Head(fifo).job = j
  <2>1. /\ pc = "loop"
        /\ \/ /\ shutting_down /\ record[j] \notin Terminal
              /\ Save(j, "cancelled", meta_procs[j]) /\ live' = live
           \/ UNCHANGED disk /\ live' = live
           \/ Queues(j) /\ Enqueue(j)
    BY <1>11 DEF OnSubmit, table
  <2>2. ~RecoverInProgress(j)
    BY <2>1 DEF RecoverInProgress
  <2>3. CASE /\ shutting_down /\ record[j] \notin Terminal
             /\ Save(j, "cancelled", meta_procs[j]) /\ live' = live
    <3>1. record'[j] = "cancelled" /\ (j \in Live => LateSubmit)
      BY <1>11, <2>3, SaveWorks DEF LateSubmit
    <3>2. ~OnCancel
      BY <1>11 DEF OnSubmit, OnCancel
    <3>. QED  BY <1>11, <2>1, <2>3, <3>1, <3>2
  <2>4. CASE UNCHANGED disk /\ live' = live
    BY <2>2, <2>4 DEF disk
  <2>5. CASE Queues(j) /\ Enqueue(j)
    <3>1. live[j].state = "absent" /\ record[j] \notin Terminal
      BY <1>1, <2>5 DEF Queues
    <3>. QED  BY <1>11, <2>1, <2>5, <3>1, EnqueueWorks
  <2>. QED  BY <2>1, <2>3, <2>4, <2>5
<1>12. CASE OnCancel /\ Head(fifo).job = j
  <2>1. /\ pc = "loop"
        /\ \/ CancelsNotLive(j) /\ Save(j, "cancelled", meta_procs[j]) /\ live' = live
           \/ UNCHANGED disk /\ live' \in {live, WithReason({j}, "cancelled")}
           \/ /\ live[j].state = "queued" /\ Save(j, "cancelled", meta_procs[j])
              /\ live' = [live EXCEPT ![j] = Absent]
    BY <1>12 DEF OnCancel
  <2>2. ~RecoverInProgress(j)
    BY <2>1 DEF RecoverInProgress
  <2>3. CASE CancelsNotLive(j) /\ Save(j, "cancelled", meta_procs[j]) /\ live' = live
    BY <1>12, <2>1, <2>3, SaveWorks DEF CancelsNotLive
  <2>4. CASE UNCHANGED disk /\ live' \in {live, WithReason({j}, "cancelled")}
    <3>1. live'[j].state = live[j].state
      BY <2>4, WithReasonKeepsWorkers
    <3>. QED  BY <2>2, <2>4, <3>1 DEF disk
  <2>5. CASE /\ live[j].state = "queued" /\ Save(j, "cancelled", meta_procs[j])
             /\ live' = [live EXCEPT ![j] = Absent]
    BY <1>1, <2>1, <2>5, SaveWorks
  <2>. QED  BY <2>1, <2>3, <2>4, <2>5
<1>13. CASE OnShutdown
  <2>1. pc = "loop" /\ record' = [k \in Jobs |-> IF k \in queue THEN "cancelled" ELSE record[k]]
    BY <1>13 DEF OnShutdown
  <2>2. live'[j] = IF j \in queue THEN Absent ELSE WithReason(Live, "shutdown")[j]
    BY <1>13 DEF OnShutdown
  <2>3. CASE j \in queue
    BY <1>1, <2>1, <2>2, <2>3 DEF StatesFit
  <2>4. CASE j \notin queue
    <3>1. live'[j].state = live[j].state
      BY <2>2, <2>4, WithReasonKeepsWorkers
    <3>. QED  BY <2>1, <2>4, <3>1 DEF RecoverInProgress
  <2>. QED  BY <2>3, <2>4
<1>. QED  BY <1>2, <1>3, <1>4, <1>5, <1>6, <1>7, <1>8, <1>9, <1>10, <1>11, <1>12, <1>13 DEF Moved

LEMMA TellsStep ==
    ASSUME ~Scarcity, TypeOK, SlotInv, SlotInv', ProcInv, LinesAreHonest, StatesFit, RecordTells, Next
    PROVE  RecordTells'
<1>. SUFFICES ASSUME NEW j \in Jobs, live'[j].state # "absent"
              PROVE  record'[j] = live'[j].state \/ (shutting_down' /\ record'[j] = "cancelled")
  BY DEF RecordTells, Live
<1>1. pc' # "down"
  BY DEF SlotInv, UnseenAreAbsent, Live
<1>2. shutting_down => shutting_down'
  BY <1>1, ShutdownSteps DEF OnShutdown
<1>3. live[j].state # "absent" => record[j] = live[j].state \/ (shutting_down /\ record[j] = "cancelled")
  BY DEF RecordTells, Live
<1>4. live[j].state \in {"absent", "queued", "starting", "running", "persisting"}
  BY DEF TypeOK, TableOK, LiveJobs
<1>. QED  BY <1>1, <1>2, <1>3, <1>4, JobSteps DEF LateSubmit, Live

LEMMA HeldStep ==
    ASSUME ~Scarcity, TypeOK, SlotInv, ProcInv, LinesAreHonest, StatesFit, HeldInProgress, Next
    PROVE  HeldInProgress'
<1>. SUFFICES ASSUME NEW j \in Jobs, record'[j] \in InProgress
              PROVE  live'[j].state # "absent" \/ pc' = "down" \/ j \in todo'
  BY DEF HeldInProgress, Live
<1>1. CASE record'[j] = record[j] /\ live'[j].state = live[j].state /\ ~RecoverInProgress(j)
  <2>1. live[j].state # "absent" \/ pc = "down" \/ j \in todo
    BY <1>1 DEF HeldInProgress, Live
  <2>2. pc = "down" \/ j \in todo => pc' = "down" \/ j \in todo'
    BY <1>1, UnseenRecordStays
  <2>. QED  BY <1>1, <2>1, <2>2
<1>2. Finish => outcome \notin InProgress
  BY DEF Finish, TypeOK, WalkOK, Terminal, InProgress
<1>3. record'[j] \notin {"failed", "queued", "cancelled", "submitted"}
  BY DEF InProgress
<1>. QED  BY <1>1, <1>2, <1>3, JobSteps

-----------------------------------------------------------------------------
(* Each job is run once. Its workers are all the processes ever forked for    *)
(* it, so none is forked for a job that has any, and launch_job forks what it *)
(* has not forked yet.                                                        *)

Forked(j) == {p \in Procs : proc[p].job = j}

LEMMA JobsStay ==
    ASSUME TypeOK, SlotInv, ProcInv, Next, ~\E q \in Procs, x \in Pids : Fork(q, x),
           NEW p \in Procs
    PROVE  proc'[p].job = proc[p].job
<1>1. CASE proc[p].phase # "unborn"
  BY <1>1, BornStay
<1>2. CASE proc[p].phase = "unborn"
  <2>1. p \notin Spawned
    BY <1>2 DEF Spawned, HasPid, Alive
  <2>2. CASE QuietStep
    BY <2>2 DEF QuietStep, SameProcesses, SameIdentity
  <2>3. CASE ForkFails
    BY <2>1, <2>3 DEF ForkFails
  <2>4. CASE OpenGate
    BY <2>4, OpenGateFacts DEF SameIdentity
  <2>5. ASSUME NEW q \in Procs, NEW x \in Pids, Stranger(q, x) PROVE proc'[p].job = proc[p].job
    <3>1. proc'[p] = IF p = q THEN [Unborn EXCEPT !.phase = "work", !.pid = x] ELSE proc[p]
      BY <2>5 DEF Stranger, TypeOK, ProcOK
    <3>2. [Unborn EXCEPT !.phase = "work", !.pid = x].job = 0
      BY DEF Unborn
    <3>. QED  BY <1>2, <3>1, <3>2 DEF ProcInv, UnbornAreNobodys
  <2>6. ASSUME NEW z \in Procs, ReapUnknown(z) PROVE proc'[p].job = proc[p].job
    BY <1>2, <2>6 DEF ReapUnknown, TypeOK, ProcOK
  <2>7. ASSUME NEW z \in Procs, ReapChild(z) PROVE proc'[p].job = proc[p].job
    BY <2>7, ReapChildFacts DEF SameIdentity
  <2>8. CASE Forget
    <3>1. proc'[p] = [proc[p] EXCEPT !.child = FALSE, !.phase = IF @ = "zombie" THEN "gone" ELSE @]
      BY <2>8 DEF Forget
    <3>. QED  BY <3>1 DEF TypeOK, ProcOK, ProcessTable
  <2>9. CASE Finish
    BY <2>9 DEF Finish
  <2>. QED  BY <2>2, <2>3, <2>4, <2>5, <2>6, <2>7, <2>8, <2>9, MostStepsAreQuiet DEF Loud, Crash, Exit
<1>. QED  BY <1>1, <1>2

LEMMA ForkedSteps ==
    ASSUME TypeOK, SlotInv, ProcInv, Next, NEW j \in Jobs
    PROVE  \/ Forked(j)' = Forked(j)
           \/ /\ j = cur
              /\ \E p \in Procs, x \in Pids :
                    Fork(p, x) /\ p \notin Forked(j) /\ Forked(j)' = Forked(j) \cup {p}
<1>1. CASE ~\E q \in Procs, x \in Pids : Fork(q, x)
  BY <1>1, JobsStay DEF Forked
<1>2. ASSUME NEW p \in Procs, NEW x \in Pids, Fork(p, x)
      PROVE  /\ p \notin Forked(j)
             /\ Forked(j)' = IF j = cur THEN Forked(j) \cup {p} ELSE Forked(j)
  <2>. DEFINE r == [Unborn EXCEPT !.phase = IF Op[cur] = "exec" THEN "work" ELSE "gate",
                                  !.pid = x, !.job = cur, !.child = TRUE]
  <2>1. r.job = cur
    BY DEF Unborn
  <2>2. proc' = [proc EXCEPT ![p] = r] /\ proc[p].phase = "unborn"
    BY <1>2 DEF Fork, NextBorn
  <2>. HIDE DEF r
  <2>3. \A q \in Procs : proc'[q].job = IF q = p THEN cur ELSE proc[q].job
    BY <2>1, <2>2 DEF TypeOK, ProcOK
  <2>4. proc[p].job = 0 /\ j # 0
    BY <2>2, ConstantsAssumption DEF ConstantsAssumption, ProcInv, UnbornAreNobodys
  <2>. QED  BY <2>3, <2>4 DEF Forked
<1>. QED  BY <1>1, <1>2

LEMMA ForkedFinite ==
    ASSUME ProcInv, BornAreFinite, NEW j \in Jobs
    PROVE  IsFiniteSet(Forked(j)) /\ Cardinality(Forked(j)) \in Nat
<1>1. Forked(j) \subseteq {p \in Procs : proc[p].phase # "unborn"}
  BY ConstantsAssumption DEF ConstantsAssumption, Forked, ProcInv, UnbornAreNobodys
<1>. QED  BY <1>1, FS_Subset, FS_CardinalityType DEF BornAreFinite

WaitingUnforked == \A j \in Jobs : record[j] \in Waiting \cup {"none"} => Forked(j) = {}

ForkedAtMost == \A j \in Jobs : Cardinality(Forked(j)) <= Fan[j]

HoldersForked ==
    \A j \in Jobs : live[j].uses_slot =>
        Forked(j) = live[j].procs /\ Cardinality(Forked(j)) = Fan[j]

ForkedAreSpawned == pc = "fork" => \A p \in Forked(cur) : proc[p].child /\ HasPid(p)

\* p has ended well, and what it ended with will not change.
Good(j, p) == /\ proc[p].phase = "gone" /\ proc[p].exit = "exited:0"
              /\ Op[j] # "exec" => proc[p].chunk = "ok"

EndedWell ==
    pc = "output" \/ (pc = "finish" /\ outcome = "completed") =>
        live[cur].uses_slot /\ \A p \in live[cur].procs : Good(cur, p)

CompletedWell ==
    \A j \in Jobs : record[j] = "completed" =>
        Cardinality(Forked(j)) = Fan[j] /\ \A p \in Forked(j) : Good(j, p)

OnceInv == /\ RecordTells /\ HeldInProgress /\ WaitingUnforked /\ ForkedAtMost
           /\ HoldersForked /\ ForkedAreSpawned /\ EndedWell /\ CompletedWell

\* The job being launched is neither waiting nor ended in its record.
LEMMA LaunchingRecord ==
    ASSUME TypeOK, StatesFit, RecordTells, pc = "fork"
    PROVE  cur \in Jobs /\ record[cur] = "starting"
<1>1. cur \in Jobs /\ live[cur].state = "starting" /\ ~shutting_down
  BY DEF TypeOK, WalkOK, StatesFit
<1>. QED  BY <1>1 DEF RecordTells, Live

LEMMA WaitingStep ==
    ASSUME ~Scarcity, TypeOK, SlotInv, ProcInv, LinesAreHonest, StatesFit, RecordTells,
           HeldInProgress, WaitingUnforked, Next
    PROVE  WaitingUnforked'
<1>. SUFFICES ASSUME NEW j \in Jobs, record'[j] \in Waiting \cup {"none"} PROVE Forked(j)' = {}
  BY DEF WaitingUnforked
<1>1. record[j] \in Waiting \cup {"none"}
  <2>1. record[j] \in States \cup {"none"}
    BY DEF TypeOK, DiskOK
  <2>2. Finish => outcome \notin Waiting \cup {"none"}
    BY DEF Finish, TypeOK, WalkOK, Terminal, Waiting
  <2>3. record'[j] \notin {"failed", "starting", "running", "persisting", "cancelled"}
    BY DEF Waiting
  <2>4. ASSUME pc = "loop", live[j].state = "absent", record[j] \notin Terminal
        PROVE  record[j] \in Waiting \cup {"none"}
    <3>1. todo = {}
      BY <2>4 DEF SlotInv, UnseenAreAbsent
    <3>2. record[j] \notin InProgress
      BY <2>4, <3>1 DEF HeldInProgress, Live
    <3>. QED  BY <2>1, <2>4, <3>2 DEF States, Waiting
  <2>. QED  BY <2>2, <2>3, <2>4, JobSteps
<1>2. Forked(j) = {}
  BY <1>1 DEF WaitingUnforked
<1>3. ASSUME NEW p \in Procs, NEW x \in Pids, Fork(p, x) PROVE j # cur
  <2>1. pc = "fork"
    BY <1>3 DEF Fork
  <2>2. record[cur] = "starting"
    BY <2>1, LaunchingRecord
  <2>. QED  BY <1>1, <2>2 DEF Waiting
<1>. QED  BY <1>2, <1>3, ForkedSteps

LEMMA AtMostStep ==
    ASSUME TypeOK, SlotInv, ProcInv, BornAreFinite, ForkedAtMost, ForkedAreSpawned, Next
    PROVE  ForkedAtMost'
<1>. SUFFICES ASSUME NEW j \in Jobs PROVE Cardinality(Forked(j)') <= Fan[j]
  BY DEF ForkedAtMost
<1>1. Cardinality(Forked(j)) <= Fan[j]
  BY DEF ForkedAtMost
<1>2. ASSUME NEW p \in Procs, NEW x \in Pids, Fork(p, x), j = cur, p \notin Forked(j)
      PROVE  Cardinality(Forked(j) \cup {p}) <= Fan[j]
  <2>1. pc = "fork" /\ Cardinality(Spawned) < Fan[j]
    BY <1>2 DEF Fork, SliceLeft
  <2>2. Spawned = Forked(j)
    BY <1>2, <2>1 DEF ForkedAreSpawned, Forked, Spawned
  <2>3. Cardinality(Forked(j) \cup {p}) = Cardinality(Forked(j)) + 1
    BY <1>2, ForkedFinite, FS_AddElement
  <2>4. Fan[j] \in Nat /\ Cardinality(Forked(j)) \in Nat
    BY ForkedFinite, ConstantsAssumption DEF ConstantsAssumption
  <2>. QED  BY <2>1, <2>2, <2>3, <2>4
<1>. QED  BY <1>1, <1>2, ForkedSteps

LEMMA ForkedSpawnedStep ==
    ASSUME ~Scarcity, TypeOK, SlotInv, ProcInv, LinesAreHonest, StatesFit, RecordTells,
           WaitingUnforked, ForkedAreSpawned, Next
    PROVE  ForkedAreSpawned'
<1>. SUFFICES ASSUME pc' = "fork", NEW p \in Procs, proc'[p].job = cur'
              PROVE  proc'[p].child /\ HasPid(p)'
  BY DEF ForkedAreSpawned, Forked
<1>1. ASSUME NEW j \in Jobs, LaunchStarts(j) PROVE FALSE
  <2>1. live[j].state = "queued" /\ ~shutting_down /\ cur' = j /\ proc' = proc
    BY <1>1 DEF LaunchStarts, Schedules, Picked, Queued
  <2>2. record[j] = "queued"
    BY <2>1 DEF RecordTells, Live
  <2>3. Forked(j) = {}
    BY <2>2 DEF WaitingUnforked, Waiting
  <2>. QED  BY <2>1, <2>3 DEF Forked
<1>2. CASE UNCHANGED <<pc, cur, outcome>>
  <2>1. pc = "fork" /\ cur' = cur /\ cur \in Jobs
    BY <1>2 DEF TypeOK, WalkOK
  <2>2. p \in Forked(cur) => proc[p].child /\ HasPid(p)
    BY <2>1 DEF ForkedAreSpawned
  <2>3. CASE QuietStep
    BY <2>1, <2>2, <2>3 DEF QuietStep, SameProcesses, SameIdentity, Forked
  <2>4. ASSUME NEW q \in Procs, NEW x \in Pids, Fork(q, x) PROVE proc'[p].child /\ HasPid(p)'
    <3>. DEFINE r == [Unborn EXCEPT !.phase = IF Op[cur] = "exec" THEN "work" ELSE "gate",
                                    !.pid = x, !.job = cur, !.child = TRUE]
    <3>1. r.child /\ r.phase \in {"gate", "work"}
      BY DEF Unborn
    <3>2. proc' = [proc EXCEPT ![q] = r]
      BY <2>4 DEF Fork
    <3>. HIDE DEF r
    <3>3. proc'[p] = IF p = q THEN r ELSE proc[p]
      BY <3>2 DEF TypeOK, ProcOK
    <3>. QED  BY <2>1, <2>2, <3>1, <3>3 DEF Forked, HasPid, Alive
  <2>5. ASSUME NEW q \in Procs, NEW x \in Pids, Stranger(q, x) PROVE proc'[p].child /\ HasPid(p)'
    <3>. DEFINE r == [Unborn EXCEPT !.phase = "work", !.pid = x]
    <3>1. r.job = 0 /\ 0 \notin Jobs
      BY ConstantsAssumption DEF ConstantsAssumption, Unborn
    <3>2. proc' = [proc EXCEPT ![q] = r]
      BY <2>5 DEF Stranger
    <3>. HIDE DEF r
    <3>3. proc'[p] = IF p = q THEN r ELSE proc[p]
      BY <3>2 DEF TypeOK, ProcOK
    <3>. QED  BY <2>1, <2>2, <3>1, <3>3 DEF Forked, HasPid, Alive
  <2>. QED  BY <1>2, <2>1, <2>3, <2>4, <2>5, MostStepsAreQuiet
            DEF Loud, Crash, Exit, Forget, OpenGate, ForkFails, Finish, ReapUnknown, ReapChild
<1>. QED  BY <1>1, <1>2, PlaceSteps
          DEF Busy, Forget, OpenGate, ForkFails, SaveRunning, WriteOutput, Finish, ReapChild, NoteReap

LEMMA HoldersStep ==
    ASSUME TypeOK, SlotInv, ProcInv, HoldersForked, ForkedAreSpawned, Next
    PROVE  HoldersForked'
<1>. SUFFICES ASSUME NEW j \in Jobs, live'[j].uses_slot
              PROVE  Forked(j)' = live'[j].procs /\ Cardinality(Forked(j)') = Fan[j]
  BY DEF HoldersForked
<1>1. live \in [Jobs -> LiveJobs] /\ Absent.uses_slot = FALSE
  BY DEF TypeOK, TableOK, Absent
<1>2. CASE OpenGate /\ j = cur
  <2>1. /\ pc = "fork" /\ live'[j].procs = Spawned /\ Cardinality(Spawned) = Fan[j]
        /\ ~\E p \in Procs, x \in Pids : Fork(p, x)
    BY <1>2, OpenGateFacts DEF OpenGate, Fork, walk
  <2>2. Spawned = Forked(j)
    BY <1>2, <2>1 DEF ForkedAreSpawned, Forked, Spawned
  <2>. QED  BY <2>1, <2>2, ForkedSteps
<1>3. CASE ~(OpenGate /\ j = cur)
  <2>1. /\ live'[j].uses_slot = live[j].uses_slot
        /\ live'[j].procs = live[j].procs
    <3>1. CASE QuietStep
      BY <3>1 DEF QuietStep, SameWorkers
    <3>2. CASE OpenGate
      BY <1>3, <3>2, OpenGateFacts
    <3>3. CASE ForkFails \/ Finish
      BY <1>1, <3>3 DEF ForkFails, Finish
    <3>4. ASSUME NEW z \in Procs, ReapChild(z)
          PROVE  live'[j].uses_slot = live[j].uses_slot /\ live'[j].procs = live[j].procs
      BY <3>4, ReapChildFacts DEF SameWorkers
    <3>5. ~Forget
      BY <1>1 DEF Forget
    <3>. QED  BY <3>1, <3>2, <3>3, <3>4, <3>5, MostStepsAreQuiet
              DEF Loud, Crash, Exit, Fork, Stranger, ReapUnknown, table
  <2>2. ~(j = cur /\ \E p \in Procs, x \in Pids : Fork(p, x))
    BY <2>1 DEF Fork, SlotInv, CurIsLaunched
  <2>. QED  BY <2>1, <2>2, ForkedSteps DEF HoldersForked
<1>. QED  BY <1>2, <1>3

LEMMA GoodStays ==
    ASSUME TypeOK, SlotInv, ProcInv, Next, NEW j, NEW p \in Procs, Good(j, p)
    PROVE  Good(j, p)'
<1>1. proc[p].phase # "unborn"
  BY DEF Good
<1>. QED  BY <1>1, BornStay DEF Good

LEMMA EndedStep ==
    ASSUME TypeOK, SlotInv, ProcInv, EndedWell, Next
    PROVE  EndedWell'
<1>. SUFFICES ASSUME pc' = "output" \/ (pc' = "finish" /\ outcome' = "completed")
              PROVE  \E j \in Jobs : /\ j = cur' /\ live'[j].uses_slot
                                     /\ \A p \in live'[j].procs : Good(j, p)'
  BY DEF EndedWell, Good
<1>1. CASE (UNCHANGED <<pc, cur, outcome>> \/ WriteOutput) /\ pc \in {"output", "finish"}
  <2>1. PICK j \in Jobs : /\ cur' = j /\ j = cur
                          /\ pc = "output" \/ (pc = "finish" /\ outcome = "completed")
    BY <1>1 DEF WriteOutput, TypeOK, WalkOK
  <2>2. /\ live[j].uses_slot /\ live[j].procs \subseteq Procs
        /\ \A p \in live[j].procs : Good(j, p)
    BY <2>1 DEF EndedWell, TypeOK, TableOK, LiveJobs
  <2>3. SameWorkers
    <3>1. CASE QuietStep
      BY <3>1 DEF QuietStep
    <3>2. CASE UNCHANGED table
      BY <3>2, NoWorkerMoves DEF table
    <3>. QED  BY <1>1, <2>1, <3>1, <3>2, MostStepsAreQuiet
              DEF Loud, Crash, Exit, Forget, OpenGate, ForkFails, Finish, Fork, Stranger,
                  ReapUnknown, ReapChild, WriteOutput
  <2>4. \A p \in live[j].procs : Good(j, p)'
    BY <2>2, GoodStays
  <2>5. live'[j].uses_slot /\ live'[j].procs = live[j].procs
    BY <2>1, <2>2, <2>3 DEF SameWorkers
  <2>. QED  BY <2>1, <2>4, <2>5
<1>2. ASSUME NEW z \in Procs, ReapChild(z)
      PROVE  \E j \in Jobs : /\ j = cur' /\ live'[j].uses_slot
                             /\ \A p \in live'[j].procs : Good(j, p)'
  <2>1. PICK j \in Live :
           /\ j \in Jobs /\ z \in live[j].procs /\ pc = "reap" /\ NoteReap(z, j, how')
           /\ SameWorkers
           /\ how' = [how EXCEPT ![z] = proc[z].exit] /\ proc[z].phase = "zombie"
           /\ \A p \in Procs : /\ proc'[p].exit = proc[p].exit /\ proc'[p].chunk = proc[p].chunk
                               /\ proc'[p].phase = IF p = z THEN "gone" ELSE proc[p].phase
    BY <1>2, ReapChildFacts
  <2>2. cur' = j /\ Ok(j, how')
    BY <2>1 DEF NoteReap, Body, StoppedAs
  <2>3. live[j].uses_slot /\ live[j].procs \subseteq Procs
    BY <2>1 DEF ProcInv, WorkersAreTheJobs, TypeOK, TableOK, LiveJobs
  <2>4. ASSUME NEW p \in live[j].procs PROVE Good(j, p)'
    <3>1. how'[p] = "exited:0" /\ (Op[j] # "exec" => proc[p].chunk = "ok")
      BY <2>2 DEF Ok, ResultsOk
    <3>2. p \in Procs /\ how'[p] = IF p = z THEN proc[z].exit ELSE how[p]
      BY <2>1, <2>3 DEF TypeOK, TableOK
    <3>3. proc'[p].exit = "exited:0" /\ proc'[p].phase = "gone"
      BY <2>1, <3>1, <3>2, ZenonT(30) DEF ProcInv, ReapedAreGone
    <3>. QED  BY <2>1, <3>1, <3>2, <3>3 DEF Good
  <2>5. live'[j].uses_slot /\ live'[j].procs = live[j].procs
    BY <2>1, <2>3 DEF SameWorkers
  <2>. QED  BY <2>1, <2>2, <2>4, <2>5
<1>. QED  BY <1>1, <1>2, PlaceSteps
          DEF Busy, Forget, OpenGate, ForkFails, SaveRunning, WriteOutput, Finish, LaunchStarts

LEMMA CompletedStep ==
    ASSUME TypeOK, SlotInv, ProcInv, StatesFit, RecordTells, HoldersForked, EndedWell,
           CompletedWell, Next
    PROVE  CompletedWell'
<1>. SUFFICES ASSUME NEW j \in Jobs, record'[j] = "completed"
              PROVE  Cardinality(Forked(j)') = Fan[j] /\ \A p \in Forked(j)' : Good(j, p)'
  BY DEF CompletedWell, Good
<1>1. Forked(j) \subseteq Procs
  BY DEF Forked
<1>2. /\ Cardinality(Forked(j)) = Fan[j] /\ \A p \in Forked(j) : Good(j, p)
      /\ j = cur => ~\E p \in Procs, x \in Pids : Fork(p, x)
  <2>1. CASE record[j] = "completed"
    BY <2>1, LaunchingRecord DEF CompletedWell, Fork
  <2>2. CASE record[j] # "completed"
    BY <2>2, OnlyFinishCompletes DEF Finish, EndedWell, HoldersForked, Fork
  <2>. QED  BY <2>1, <2>2
<1>3. Forked(j)' = Forked(j)
  BY <1>2, ForkedSteps
<1>. QED  BY <1>1, <1>2, <1>3, GoodStays

LEMMA StatesInvariant == Spec => [](TypeOK /\ SlotInv /\ ProcInv /\ StatesFit)
<1>1. Init => StatesFit
  <2>. SUFFICES ASSUME Init PROVE StatesFit
    OBVIOUS
  <2>1. pc = "down" /\ queue = {} /\ \A j \in Jobs : live[j].state = "absent"
    BY DEF Init, Absent
  <2>. QED  BY <2>1 DEF StatesFit
<1>2. TypeOK /\ SlotInv /\ ProcInv /\ LinesAreHonest /\ StatesFit /\ [Next]_vars => StatesFit'
  <2>1. StatesFit /\ UNCHANGED vars => StatesFit'
    BY DEF StatesFit, vars, table, walk
  <2>. QED  BY <2>1, StatesStep
<1>. QED  BY <1>1, <1>2, ProcInvariant, LinesInvariant, PTL DEF Spec

LEMMA OnceInvariant ==
    ASSUME ~Scarcity
    PROVE  Spec => [](TypeOK /\ SlotInv /\ ProcInv /\ BornAreFinite /\ StatesFit /\ OnceInv)
<1>1. Init => OnceInv
  <2>. SUFFICES ASSUME Init PROVE OnceInv
    OBVIOUS
  <2>1. /\ pc = "down" /\ \A j \in Jobs : /\ live[j].state = "absent" /\ ~live[j].uses_slot
                                          /\ record[j] = "none"
    BY DEF Init, Absent
  <2>2. \A p \in Procs : proc[p].job = 0
    BY DEF Init, Unborn
  <2>3. \A j \in Jobs : Forked(j) = {} /\ Fan[j] \in Nat
    BY <2>2, ConstantsAssumption DEF ConstantsAssumption, Forked
  <2>4. ForkedAtMost
    BY <2>3, FS_EmptySet DEF ForkedAtMost
  <2>. QED  BY <2>1, <2>3, <2>4 DEF OnceInv, RecordTells, HeldInProgress, WaitingUnforked,
                  HoldersForked, ForkedAreSpawned, EndedWell, CompletedWell, Live, InProgress
<1>2. /\ TypeOK /\ SlotInv /\ SlotInv' /\ ProcInv /\ BornAreFinite /\ LinesAreHonest /\ StatesFit
      /\ OnceInv /\ [Next]_vars
      => OnceInv'
  <2>1. OnceInv /\ UNCHANGED vars => OnceInv'
    BY DEF OnceInv, RecordTells, HeldInProgress, WaitingUnforked, ForkedAtMost, HoldersForked,
           ForkedAreSpawned, EndedWell, CompletedWell, Forked, Good, HasPid, Alive, Live,
           vars, disk, table, walk
  <2>2. ASSUME TypeOK, SlotInv, SlotInv', ProcInv, BornAreFinite, LinesAreHonest, StatesFit,
               OnceInv, Next
        PROVE  OnceInv'
    <3>1. RecordTells' /\ HeldInProgress'
      BY <2>2, TellsStep, HeldStep DEF OnceInv
    <3>2. WaitingUnforked' /\ ForkedAtMost' /\ ForkedAreSpawned'
      BY <2>2, WaitingStep, AtMostStep, ForkedSpawnedStep DEF OnceInv
    <3>3. HoldersForked' /\ EndedWell' /\ CompletedWell'
      BY <2>2, HoldersStep, EndedStep, CompletedStep DEF OnceInv
    <3>. QED  BY <3>1, <3>2, <3>3 DEF OnceInv
  <2>. QED  BY <2>1, <2>2
<1>. QED  BY <1>1, <1>2, ProcCounts, LinesInvariant, StatesInvariant, PTL DEF Spec

\* Where saves do not fail, a job is started at most once, whatever crashes: launch_job
\* puts "starting" on disk before the first fork, and recover never queues such a record.
THEOREM JobsRunOnce ==
    ASSUME ~Scarcity PROVE Spec => []RunsOnce
<1>1. OnceInv => RunsOnce
  BY DEF OnceInv, ForkedAtMost, Forked, RunsOnce
<1>. QED  BY <1>1, OnceInvariant, PTL

\* Where saves do not fail, a completed job is one whose every worker was forked, exited 0
\* and published a good chunk.
THEOREM CompletedJobsAreDone ==
    ASSUME ~Scarcity PROVE Spec => []CompletedByAllWorkers
<1>1. OnceInv => CompletedByAllWorkers
  BY DEF OnceInv, CompletedWell, Good, Forked, CompletedByAllWorkers
<1>. QED  BY <1>1, OnceInvariant, PTL

-----------------------------------------------------------------------------
(* Where, besides, no SUBMIT line comes late, the record of a live job is its *)
(* state in memory, and so goes through the states JobLifecycle allows.       *)

RecordIsState == \A j \in Live : record[j] = live[j].state

LEMMA IsStateStep ==
    ASSUME ~Scarcity, TypeOK, SlotInv, ProcInv, LinesAreHonest, StatesFit, RecordIsState,
           Next, ~LateSubmit
    PROVE  RecordIsState'
<1>. SUFFICES ASSUME NEW j \in Jobs, live'[j].state # "absent" PROVE record'[j] = live'[j].state
  BY DEF RecordIsState, Live
<1>1. live[j].state # "absent" => record[j] = live[j].state
  BY DEF RecordIsState, Live
<1>2. live[j].state \in {"absent", "queued", "starting", "running", "persisting"}
  BY DEF TypeOK, TableOK, LiveJobs
<1>. QED  BY <1>1, <1>2, JobSteps DEF Live

LEMMA IsStateInvariant ==
    ASSUME ~Scarcity
    PROVE  Spec /\ [][~LateSubmit]_vars
           => [](/\ TypeOK /\ SlotInv /\ ProcInv /\ LinesAreHonest /\ StatesFit /\ HeldInProgress
                 /\ RecordIsState)
<1>1. Init => RecordIsState
  <2>. SUFFICES ASSUME Init PROVE RecordIsState
    OBVIOUS
  <2>1. \A j \in Jobs : live[j].state = "absent"
    BY DEF Init, Absent
  <2>. QED  BY <2>1 DEF RecordIsState, Live
<1>2. /\ TypeOK /\ SlotInv /\ ProcInv /\ LinesAreHonest /\ StatesFit
      /\ RecordIsState /\ [Next]_vars /\ [~LateSubmit]_vars
      => RecordIsState'
  <2>1. RecordIsState /\ UNCHANGED vars => RecordIsState'
    BY DEF RecordIsState, Live, vars, disk, table
  <2>. QED  BY <2>1, IsStateStep
<1>3. OnceInv => HeldInProgress
  BY DEF OnceInv
<1>. QED  BY <1>1, <1>2, <1>3, ProcInvariant, LinesInvariant, StatesInvariant, OnceInvariant, PTL
          DEF Spec

\* Where saves do not fail and no SUBMIT line comes late, the record a reader of
\* jobs/<id>/meta sees is the state of the job in the controller's memory, at every step
\* and not only between two events.
THEOREM RecordsMatchMemory ==
    ASSUME ~Scarcity PROVE Spec /\ [][~LateSubmit]_vars => []RecordMatchesMemory
<1>1. RecordIsState => RecordMatchesMemory
  BY DEF RecordIsState, RecordMatchesMemory
<1>. QED  BY <1>1, IsStateInvariant, PTL

\* Under the same conditions a record that says how a job ended never changes again.
THEOREM OutcomesAreFinal ==
    ASSUME ~Scarcity PROVE Spec /\ [][~LateSubmit]_vars => TerminalIsFinal
<1>1. /\ TypeOK /\ SlotInv /\ RecordIsState /\ [Next]_vars
      => [\A j \in Jobs : record[j] \in Terminal => record'[j] = record[j]]_vars
  <2>. SUFFICES ASSUME TypeOK, SlotInv, RecordIsState, Next, NEW j \in Jobs, record[j] \in Terminal
                PROVE  record'[j] = record[j]
    OBVIOUS
  <2>1. j \notin Live
    BY DEF RecordIsState, TypeOK, TableOK, LiveJobs, Terminal, Live
  <2>. QED  BY <2>1, SettledStep
<1>. QED  BY <1>1, IsStateInvariant, PTL DEF Spec, TerminalIsFinal

-----------------------------------------------------------------------------
(* The refinement: every step keeps the promises of JobLifecycle.             *)

\* A step writes one record, or one output, or cancels the queue.
LEMMA DiskSteps ==
    ASSUME TypeOK, LinesAreHonest, Next
    PROVE  \/ UNCHANGED <<record, output>>
           \/ UNCHANGED output /\ \E j \in Jobs : \E s : record' = [record EXCEPT ![j] = s]
           \/ UNCHANGED record /\ \E j \in Jobs : output' = [output EXCEPT ![j] = TRUE]
           \/ OnShutdown
<1>. DEFINE OneRecord == UNCHANGED output /\ \E j \in Jobs : \E s : record' = [record EXCEPT ![j] = s]
            Same      == UNCHANGED <<record, output>>
<1>1. ASSUME NEW j \in Jobs, NEW s, NEW P, Save(j, s, P) PROVE Same \/ OneRecord
  BY <1>1 DEF Save
<1>2. ASSUME NEW j \in Jobs, Enqueue(j) PROVE Same \/ OneRecord
  BY <1>1, <1>2 DEF Enqueue
<1>3. pc \in {"fork", "launched", "output", "finish"} => cur \in Jobs
  BY DEF TypeOK, WalkOK
<1>4. CASE CLI
  BY <1>4 DEF CLI, Submit, SendSubmit, CancelCommand, disk
<1>5. CASE Lifecycle
  <2>1. ASSUME NEW j \in Jobs, RecoverInProgress(j) \/ RecoverWaiting(j) PROVE Same \/ OneRecord
    BY <1>1, <1>2, <2>1 DEF RecoverInProgress, RecoverWaiting
  <2>. QED  BY <1>5, <2>1 DEF Lifecycle, Start, Crash, Exit, Forget, RecoverDone, RecoverSettled, disk
<1>6. CASE Launching
  <2>1. ASSUME NEW j \in Jobs, LaunchFails(j) \/ LaunchStarts(j) PROVE Same \/ OneRecord
    BY <1>1, <2>1 DEF LaunchFails, LaunchStarts
  <2>2. CASE ForkFails \/ SaveRunning
    BY <1>1, <1>3, <2>2 DEF ForkFails, SaveRunning
  <2>. QED  BY <1>6, <2>1, <2>2 DEF Launching, ScheduleDone, GiveUp, OpenGate, Fork, disk
<1>7. CASE Reaping
  <2>1. ASSUME NEW z \in Procs, ReapChild(z) PROVE Same \/ OneRecord
    <3>1. PICK k \in Live : NoteReap(z, k, Endings(z, k))
      BY <2>1 DEF ReapChild
    <3>2. k \in Jobs /\ (Save(k, "persisting", live[k].procs) \/ UNCHANGED disk)
      BY <3>1 DEF NoteReap, Live
    <3>. QED  BY <1>1, <3>2 DEF disk
  <2>2. CASE WriteOutput
    BY <1>3, <2>2 DEF WriteOutput
  <2>3. CASE Finish
    BY <1>1, <1>3, <2>3 DEF Finish
  <2>. QED  BY <1>7, <2>1, <2>2, <2>3 DEF Reaping, BeginReap, ReapDone, ReapUnknown, disk
<1>8. CASE Events
  <2>1. CASE OnSubmit
    <3>1. /\ Head(fifo).job \in Jobs
          /\ \/ Save(Head(fifo).job, "cancelled", meta_procs[Head(fifo).job])
             \/ UNCHANGED disk
             \/ Enqueue(Head(fifo).job)
      BY <2>1, HeadLine DEF OnSubmit
    <3>. QED  BY <1>1, <1>2, <3>1 DEF disk
  <2>2. CASE OnCancel
    <3>1. /\ Head(fifo).job \in Jobs
          /\ \/ Save(Head(fifo).job, "cancelled", meta_procs[Head(fifo).job])
             \/ UNCHANGED disk
      BY <2>2, HeadLine DEF OnCancel
    <3>. QED  BY <1>1, <3>1 DEF disk
  <2>. QED  BY <1>8, <2>1, <2>2 DEF Events, OnDeadline, OnTick, disk
<1>9. CASE Processes
  <2>1. ASSUME NEW p \in Procs, WorkerOutput(p)
        PROVE  UNCHANGED record /\ \E j \in Jobs : output' = [output EXCEPT ![j] = TRUE]
    <3>1. proc[p].job \in Jobs
      BY <2>1 DEF WorkerOutput, TypeOK, ProcOK, ProcessTable
    <3>. QED  BY <2>1, <3>1 DEF WorkerOutput
  <2>. QED  BY <1>9, <2>1 DEF Processes, Worker, PassGate, Becomes, Publish, ExitZero, FailChunk,
                              Die, Ends, Stranger, disk
<1>. QED  BY <1>4, <1>5, <1>6, <1>7, <1>8, <1>9 DEF Next, Controller

\* The arrows of the diagram.
LEMMA Arrows ==
    ASSUME NEW a, NEW b,
           \/ a = "none" /\ b = "submitted"
           \/ a \in InProgress /\ b = "failed"
           \/ a \in Waiting /\ b \in {"queued", "failed", "cancelled"}
           \/ a = "queued" /\ b = "starting"
           \/ a = "starting" /\ b = "running"
           \/ a = "running" /\ b = "persisting"
           \/ a = "running" /\ b \in Terminal
           \/ a = "persisting" /\ b \in {"completed", "failed"}
    PROVE  b \in Promise!After(a) /\ b \in States
<1>1. b \in States
  BY DEF States, InProgress, Waiting, Terminal
<1>2. /\ Promise!After("none")       = {"submitted"}
      /\ Promise!After("submitted")  = {"queued", "failed", "cancelled"}
      /\ Promise!After("queued")     = {"queued", "starting", "failed", "cancelled"}
      /\ Promise!After("starting")   = {"running", "failed"}
      /\ Promise!After("running")    = {"persisting", "completed", "failed", "timed_out", "cancelled"}
      /\ Promise!After("persisting") = {"completed", "failed"}
  <2>1. Promise!After("none") = {"submitted"}
    BY DEF Promise!After, Promise!Terminal
  <2>2. Promise!After("submitted") = {"queued", "failed", "cancelled"}
    BY DEF Promise!After, Promise!Terminal
  <2>3. Promise!After("queued") = {"queued", "starting", "failed", "cancelled"}
    BY DEF Promise!After, Promise!Terminal
  <2>4. Promise!After("starting") = {"running", "failed"}
    BY DEF Promise!After, Promise!Terminal
  <2>5. Promise!After("running") = {"persisting", "completed", "failed", "timed_out", "cancelled"}
    BY DEF Promise!After, Promise!Terminal
  <2>6. Promise!After("persisting") = {"completed", "failed"}
    BY DEF Promise!After, Promise!Terminal
  <2>. QED  BY <2>1, <2>2, <2>3, <2>4, <2>5, <2>6
<1>3. CASE a = "none" /\ b = "submitted"
  BY <1>1, <1>2, <1>3
<1>4. CASE a \in InProgress /\ b = "failed"
  BY <1>1, <1>2, <1>4 DEF InProgress
<1>5. CASE a \in Waiting /\ b \in {"queued", "failed", "cancelled"}
  BY <1>1, <1>2, <1>5 DEF Waiting
<1>6. CASE a = "queued" /\ b = "starting"
  BY <1>1, <1>2, <1>6
<1>7. CASE a = "starting" /\ b = "running"
  BY <1>1, <1>2, <1>7
<1>8. CASE a = "running" /\ (b = "persisting" \/ b \in Terminal)
  BY <1>1, <1>2, <1>8 DEF Terminal
<1>9. CASE a = "persisting" /\ b \in {"completed", "failed"}
  BY <1>1, <1>2, <1>9
<1>. QED  BY <1>3, <1>4, <1>5, <1>6, <1>7, <1>8, <1>9

\* One record takes a step of the diagram.
LEMMA RecordAfter ==
    ASSUME ~Scarcity, TypeOK, SlotInv, ProcInv, LinesAreHonest, StatesFit, HeldInProgress,
           RecordIsState, Next, ~LateSubmit, NEW j \in Jobs, record'[j] # record[j]
    PROVE  record'[j] \in Promise!After(record[j]) /\ record'[j] \in States
<1>. DEFINE Follows == record'[j] \in Promise!After(record[j]) /\ record'[j] \in States
<1>1. live[j].state # "absent" => record[j] = live[j].state
  BY DEF RecordIsState, Live
<1>2. /\ record[j] \in States \cup {"none"}
      /\ live[j].state \in {"absent", "queued", "starting", "running", "persisting"}
      /\ j \in Live <=> live[j].state # "absent"
  BY DEF TypeOK, DiskOK, TableOK, LiveJobs, Live
\* A record the loop writes for a job that is not live is one that waits.
<1>3. ASSUME pc = "loop", live[j].state = "absent", record[j] \notin Terminal \cup {"none"}
      PROVE  record[j] \in Waiting
  <2>1. todo = {}
    BY <1>3 DEF SlotInv, UnseenAreAbsent
  <2>2. record[j] \notin InProgress
    BY <1>2, <1>3, <2>1 DEF HeldInProgress
  <2>. QED  BY <1>2, <1>3, <2>2 DEF States, Waiting
<1>4. OnSubmit /\ Head(fifo).job = j => record[j] # "none" /\ ~OnCancel
  BY HeadLine DEF OnSubmit, OnCancel
<1>5. ASSUME \/ record[j] = "none" /\ record'[j] = "submitted"
             \/ record[j] \in InProgress /\ record'[j] = "failed"
      PROVE  Follows
  BY <1>5, Arrows
<1>6. ASSUME record[j] \notin Terminal, live[j].state = "absent", record'[j] \in {"queued", "failed"},
             record[j] \in Waiting \/ (pc = "loop" /\ OnSubmit /\ Head(fifo).job = j)
      PROVE  Follows
  <2>1. record[j] \in Waiting
    BY <1>3, <1>4, <1>6
  <2>. QED  BY <1>6, <2>1, Arrows
<1>7. ASSUME live[j].state = "queued", record'[j] \in {"failed", "starting", "cancelled"}
      PROVE  Follows
  <2>1. record[j] = "queued"
    BY <1>1, <1>7
  <2>. QED  BY <1>7, <2>1, Arrows DEF Waiting
<1>8. ASSUME live[j].state = "starting", record'[j] \in {"failed", "running"} PROVE Follows
  <2>1. record[j] = "starting"
    BY <1>1, <1>8
  <2>. QED  BY <1>8, <2>1, Arrows DEF InProgress
<1>9. ASSUME pc = "reap", live[j].state \in LaunchedStates, record'[j] = "persisting" PROVE Follows
  <2>1. live[j].state = "running"
    BY <1>9 DEF StatesFit, LaunchedStates
  <2>2. record[j] = "running"
    BY <1>1, <2>1
  <2>. QED  BY <1>9, <2>2, Arrows
<1>10. ASSUME Finish, cur = j, j \in Live, record'[j] = outcome PROVE Follows
  <2>1. /\ outcome \in Terminal
        /\ live[j].state \in {"running", "persisting"}
        /\ live[j].state = "persisting" => outcome \in {"completed", "failed"}
    BY <1>10 DEF Finish, TypeOK, WalkOK, StatesFit
  <2>2. record[j] = live[j].state
    BY <1>1, <2>1
  <2>. QED  BY <1>10, <2>1, <2>2, Arrows
<1>11. ASSUME pc = "loop", record[j] \notin Terminal, record'[j] = "cancelled", j \notin Live,
              OnCancel => record[j] # "none", OnCancel \/ OnSubmit, Head(fifo).job = j
       PROVE  Follows
  <2>1. record[j] \in Waiting
    BY <1>2, <1>3, <1>4, <1>11
  <2>. QED  BY <1>11, <2>1, Arrows
<1>. HIDE DEF Follows
<1>12. \/ record[j] = "none" /\ record'[j] = "submitted"
       \/ record[j] \in InProgress /\ record'[j] = "failed"
       \/ /\ record[j] \notin Terminal /\ live[j].state = "absent"
          /\ record'[j] \in {"queued", "failed"}
          /\ record[j] \in Waiting \/ (pc = "loop" /\ OnSubmit /\ Head(fifo).job = j)
       \/ live[j].state = "queued" /\ record'[j] \in {"failed", "starting", "cancelled"}
       \/ live[j].state = "starting" /\ record'[j] \in {"failed", "running"}
       \/ pc = "reap" /\ live[j].state \in LaunchedStates /\ record'[j] = "persisting"
       \/ Finish /\ cur = j /\ j \in Live /\ record'[j] = outcome
       \/ /\ pc = "loop" /\ record[j] \notin Terminal /\ record'[j] = "cancelled" /\ j \notin Live
          /\ OnCancel => record[j] # "none"
          /\ OnCancel \/ OnSubmit
          /\ Head(fifo).job = j
  BY JobSteps
<1>13. Follows
  BY <1>5, <1>6, <1>7, <1>8, <1>9, <1>10, <1>11, <1>12
<1>. QED  BY <1>13 DEF Follows

LEMMA PromiseStep ==
    ASSUME ~Scarcity, TypeOK, SlotInv, ProcInv, LinesAreHonest, StatesFit, HeldInProgress,
           RecordIsState, OutputInv, Next, ~LateSubmit
    PROVE  [Promise!Next]_Promise!vars
<1>1. record \in [Jobs -> States \cup {"none"}] /\ output \in [Jobs -> BOOLEAN]
  BY DEF TypeOK, DiskOK
<1>2. CASE UNCHANGED <<record, output>>
  BY <1>2 DEF Promise!vars
<1>3. ASSUME UNCHANGED output, NEW j \in Jobs, NEW s, record' = [record EXCEPT ![j] = s],
             record' # record
      PROVE  Promise!Next
  <2>1. record'[j] = s /\ record'[j] # record[j]
    BY <1>1, <1>3
  <2>2. s \in Promise!After(record[j]) /\ s \in States
    BY <2>1, RecordAfter
  <2>3. s = "completed" /\ j \in {k \in Jobs : Op[k] # "exec"} => output[j]
    <3>. SUFFICES ASSUME s = "completed", Op[j] # "exec" PROVE output[j]
      OBVIOUS
    <3>1. Finish /\ cur = j /\ outcome = "completed"
      BY <2>1, OnlyFinishCompletes
    <3>. QED  BY <3>1 DEF Finish, OutputInv
  <2>4. Promise!Move(j, s)
    BY <1>3, <2>2, <2>3 DEF Promise!Move
  <2>5. s \in Promise!Terminal \cup {"submitted", "queued", "starting", "running", "persisting"}
    BY <2>2 DEF States, InProgress, Terminal, Promise!Terminal
  <2>. QED  BY <2>4, <2>5 DEF Promise!Next
<1>4. ASSUME UNCHANGED record, NEW j \in Jobs, output' = [output EXCEPT ![j] = TRUE],
             output' # output
      PROVE  Promise!Next
  <2>1. ~output[j]
    BY <1>1, <1>4
  <2>. QED  BY <1>4, <2>1 DEF Promise!Next, Promise!Produce
<1>5. CASE OnShutdown
  <2>1. /\ record' = [k \in Jobs |-> IF k \in queue THEN "cancelled" ELSE record[k]]
        /\ UNCHANGED output
    BY <1>5 DEF OnShutdown
  <2>2. queue \subseteq Jobs /\ \A k \in queue : record[k] = "queued"
    BY DEF TypeOK, TableOK, StatesFit, RecordIsState, Live
  <2>3. CASE queue = {}
    <3>1. record' = record
      BY <1>1, <2>1, <2>3
    <3>. QED  BY <2>1, <3>1 DEF Promise!vars
  <2>4. CASE queue # {}
    <3>1. Promise!CancelQueued(queue)
      BY <2>1, <2>2, <2>4 DEF Promise!CancelQueued
    <3>. QED  BY <2>2, <3>1 DEF Promise!Next
  <2>. QED  BY <2>3, <2>4
<1>. QED  BY <1>2, <1>3, <1>4, <1>5, DiskSteps DEF Promise!vars

\* Under the same conditions the controller keeps the promises of JobLifecycle: records
\* move along the arrows of the diagram one at a time, except that a shutdown cancels the
\* queue at once; "completed" is written when the output is there, and outputs stay.
THEOREM PromiseIsKept ==
    ASSUME ~Scarcity PROVE Spec /\ [][~LateSubmit]_vars => KeepsPromise
<1>1. Init => Promise!Init
  BY DEF Init, Promise!Init
<1>2. Init => OutputInv
  BY DEF Init, OutputInv, CompletedHasOutput
<1>3. TypeOK /\ OutputInv /\ [Next]_vars => OutputInv'
  <2>1. OutputInv /\ UNCHANGED vars => OutputInv'
    BY DEF vars, disk, walk, OutputInv, CompletedHasOutput
  <2>. QED  BY <2>1, OutputStep
<1>4. /\ TypeOK /\ SlotInv /\ ProcInv /\ LinesAreHonest /\ StatesFit /\ HeldInProgress
      /\ RecordIsState /\ OutputInv /\ [Next]_vars /\ [~LateSubmit]_vars
      => [Promise!Next]_Promise!vars
  <2>1. UNCHANGED vars => [Promise!Next]_Promise!vars
    BY DEF vars, disk, Promise!vars
  <2>. QED  BY <2>1, PromiseStep
<1>. QED  BY <1>1, <1>2, <1>3, <1>4, IsStateInvariant, PTL DEF Spec, KeepsPromise, Promise!Spec

\* A controller nobody shuts down has no late SUBMIT lines: whatever crashes, its records
\* match its memory, its outcomes are final and it keeps the promises of JobLifecycle.
THEOREM CrashesKeepPromises ==
    ASSUME ~Scarcity, ~AllowShutdown
    PROVE  Spec => []RecordMatchesMemory /\ TerminalIsFinal /\ KeepsPromise
<1>1. Init => ~shutting_down
  BY DEF Init
<1>2. ~shutting_down /\ [Next]_vars => ~shutting_down'
  <2>. SUFFICES ASSUME ~shutting_down, Next PROVE ~shutting_down'
    BY DEF vars, table
  <2>1. CASE CLI \/ Processes
    BY <2>1 DEF CLI, Submit, SendSubmit, CancelCommand, Processes, Worker, PassGate, Becomes,
                WorkerOutput, Publish, ExitZero, FailChunk, Die, Ends, Stranger, table
  <2>2. CASE Lifecycle
    BY <2>2 DEF Lifecycle, Start, Crash, Exit, Forget, RecoverDone, RecoverInProgress,
                RecoverWaiting, RecoverSettled, Enqueue, table
  <2>3. CASE Launching
    BY <2>3 DEF Launching, ScheduleDone, GiveUp, ForkFails, OpenGate, SaveRunning, LaunchFails,
                LaunchStarts, Fork, table
  <2>4. CASE Reaping
    BY <2>4 DEF Reaping, BeginReap, ReapDone, WriteOutput, Finish, ReapUnknown, ReapChild,
                NoteReap, table
  <2>5. CASE Events
    BY <2>5 DEF Events, OnSubmit, OnCancel, OnShutdown, OnDeadline, OnTick, Enqueue, table
  <2>. QED  BY <2>1, <2>2, <2>3, <2>4, <2>5 DEF Next, Controller
<1>3. ~shutting_down => [~LateSubmit]_vars
  BY DEF LateSubmit
<1>. QED  BY <1>1, <1>2, <1>3, RecordsMatchMemory, OutcomesAreFinal, PromiseIsKept, PTL DEF Spec
=============================================================================
