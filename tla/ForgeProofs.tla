---------------------------- MODULE ForgeProofs ----------------------------
(***************************************************************************)
(* Theorems about Forge for every set of jobs, processes and pids, every   *)
(* fan-out, slot count and fifo size, with crashes, failing saves and pid  *)
(* reuse: its type, the counting of slots, what a record keeps of its      *)
(* outcome and output, and its processes: whose child each one is, which   *)
(* pid it goes by, who is signalled, and what a controller that starts     *)
(* after a crash finds of the workers of the last one.                     *)
(***************************************************************************)
EXTENDS Forge, FiniteSetTheorems, TLAPS

-----------------------------------------------------------------------------
(* Lemmas about the helpers of the handlers. *)

LEMMA SeqType ==
    ASSUME NEW T, NEW s \in Seq(T)
    PROVE  /\ \A e \in T : Append(s, e) \in Seq(T)
           /\ s # <<>> => Head(s) \in T /\ Tail(s) \in Seq(T)
           /\ <<>> \in Seq(T)
OBVIOUS

LEMMA StatesFact ==
    /\ Terminal \subseteq States /\ InProgress \subseteq States /\ Waiting \subseteq States
    /\ "none" \notin States
BY DEF States, Terminal, InProgress, Waiting

\* kill(2) changes nothing but pending signals.
LEMMA KillType ==
    ASSUME ProcOK, NEW S, NEW s \in {"TERM", "KILL"}
    PROVE  Kill(S, s) \in [Procs -> ProcessTable]
<1>. SUFFICES ASSUME NEW p \in Procs
              PROVE  [proc[p] EXCEPT !.sig = s] \in ProcessTable /\ proc[p] \in ProcessTable
  BY DEF Kill
<1>. proc[p] \in ProcessTable  BY DEF ProcOK
<1>. QED  BY DEF ProcessTable

\* request_stop keeps a LiveJob a LiveJob.
LEMMA WithReasonType ==
    ASSUME TableOK, NEW S, NEW r \in {"failed", "timed_out", "cancelled", "shutdown"}
    PROVE  WithReason(S, r) \in [Jobs -> LiveJobs]
<1>. SUFFICES ASSUME NEW j \in Jobs
              PROVE  [live[j] EXCEPT !.stop_reason = r] \in LiveJobs /\ live[j] \in LiveJobs
  BY DEF WithReason
<1>. live[j] \in LiveJobs  BY DEF TableOK
<1>. QED  BY DEF LiveJobs

LEMMA AbsentType == Absent \in LiveJobs
BY DEF Absent, LiveJobs

LEMMA UnbornType == Unborn \in ProcessTable
BY DEF Unborn, ProcessTable

\* save_meta writes a record of the right type, or nothing.
LEMMA SaveType ==
    ASSUME DiskOK, NEW j, NEW s \in States, NEW P \in SUBSET Procs, Save(j, s, P)
    PROVE  DiskOK'
BY DEF DiskOK, Save

\* What a step leaves alone keeps its type.
LEMMA DiskFrame == DiskOK /\ UNCHANGED disk => DiskOK'
BY DEF DiskOK, disk
LEMMA CliFrame == CliOK /\ UNCHANGED cli => CliOK'
BY DEF CliOK, cli
LEMMA ProcFrame == ProcOK /\ UNCHANGED proc => ProcOK'
BY DEF ProcOK
LEMMA TableFrame == TableOK /\ UNCHANGED table => TableOK'
BY DEF TableOK, table
LEMMA WalkFrame == WalkOK /\ UNCHANGED walk => WalkOK'
BY DEF WalkOK, walk

\* A step of the table that leaves the other fields alone.
LEMMA LiveType ==
    ASSUME TableOK, live' \in [Jobs -> LiveJobs], queue' \subseteq Jobs,
           UNCHANGED <<how, slots_used, shutting_down, pid_owner>>
    PROVE  TableOK'
BY DEF TableOK

\* enqueue leaves a record, a LiveJob and a queue of the right type.
LEMMA EnqueueType ==
    ASSUME DiskOK, TableOK, NEW j \in Jobs, Enqueue(j)
    PROVE  DiskOK' /\ TableOK'
<1>1. meta_procs[j] \in SUBSET Procs /\ "failed" \in States /\ "queued" \in States
  BY DEF DiskOK, States, Terminal
<1>2. [Absent EXCEPT !.state = "queued"] \in LiveJobs
  BY DEF Absent, LiveJobs
<1>3. live \in [Jobs -> LiveJobs] /\ queue \subseteq Jobs
  BY DEF TableOK
<1>4. CASE j \in Malformed
  BY <1>1, <1>3, <1>4, SaveType, LiveType DEF Enqueue
<1>5. CASE j \notin Malformed
  BY <1>1, <1>2, <1>3, <1>5, SaveType, LiveType DEF Enqueue
<1>. QED  BY <1>4, <1>5

-----------------------------------------------------------------------------
(* Type correctness, one lemma per part of Next. *)

LEMMA CLIType == TypeOK /\ CLI => TypeOK'
<1>. SUFFICES ASSUME DiskOK, CliOK, ProcOK, TableOK, WalkOK, NEW j \in Jobs,
                     Submit(j) \/ SendSubmit(j) \/ CancelCommand(j)
              PROVE  TypeOK'
  BY DEF CLI, TypeOK
<1>1. UNCHANGED <<proc, table, walk>>
  BY DEF Submit, SendSubmit, CancelCommand
<1>2. DiskOK'
  <2>1. CASE Submit(j)
    BY <2>1 DEF DiskOK, Submit, States
  <2>. QED  BY <2>1, DiskFrame DEF SendSubmit, CancelCommand
<1>3. CliOK'
  <2>1. ASSUME NEW cmd \in {"SUBMIT", "CANCEL"}, SendFifo(cmd, j)
        PROVE  fifo' \in Seq(Lines)
    <3>1. fifo \in Seq(Lines)
      BY DEF CliOK
    <3>2. [cmd |-> cmd, job |-> j] \in Lines
      BY <2>1 DEF Lines
    <3>3. fifo' = fifo \/ fifo' = Append(fifo, [cmd |-> cmd, job |-> j])
      BY <2>1 DEF SendFifo
    <3>. QED  BY <3>1, <3>2, <3>3, SeqType
  <2>2. CASE Submit(j)
    BY <2>2, CliFrame DEF Submit
  <2>3. CASE SendSubmit(j)
    BY <2>1, <2>3 DEF SendSubmit, CliOK
  <2>4. CASE CancelCommand(j)
    BY <2>1, <2>4 DEF CancelCommand, CliOK
  <2>. QED  BY <2>2, <2>3, <2>4
<1>. QED  BY <1>1, <1>2, <1>3, ProcFrame, TableFrame, WalkFrame DEF TypeOK

LEMMA LifecycleType == TypeOK /\ Lifecycle => TypeOK'
<1>. SUFFICES ASSUME DiskOK, CliOK, ProcOK, TableOK, WalkOK, Lifecycle PROVE TypeOK'
  BY DEF TypeOK
<1>1. CASE Start
  <2>1. /\ pc' = "boot" /\ todo' \subseteq Jobs /\ starts' = starts + 1
        /\ cur' = cur /\ outcome' = outcome
    BY <1>1 DEF Start
  <2>2. starts' \in Nat
    <3>1. starts \in Nat
      BY DEF WalkOK
    <3>2. starts' = starts + 1
      BY <2>1
    <3>. QED  BY <3>1, <3>2
  <2>3. WalkOK'
    BY <2>1, <2>2 DEF WalkOK
  <2>. QED  BY <1>1, <2>3, DiskFrame, CliFrame, ProcFrame, TableFrame DEF TypeOK, Start
<1>2. ASSUME Forget PROVE TypeOK'
  <2>1. \A p \in Procs : [proc[p] EXCEPT !.child = FALSE,
                                  !.phase = IF @ = "zombie" THEN "gone" ELSE @] \in ProcessTable
    <3>1. SUFFICES ASSUME NEW p \in Procs
                   PROVE  [proc[p] EXCEPT !.child = FALSE,
                                  !.phase = IF @ = "zombie" THEN "gone" ELSE @] \in ProcessTable
      OBVIOUS
    <3>2. proc[p] \in ProcessTable
      BY DEF ProcOK
    <3>3. CASE proc[p].phase = "zombie"
      BY <3>2, <3>3 DEF ProcessTable
    <3>4. CASE proc[p].phase # "zombie"
      BY <3>2, <3>4 DEF ProcessTable
    <3>. QED  BY <3>3, <3>4
  <2>2. ProcOK'
    BY <2>1, <1>2, Zenon DEF Forget, ProcOK
  <2>3. TableOK'
    <3>1. live' = [j \in Jobs |-> Absent]
      BY <1>2 DEF Forget
    <3>2. live' \in [Jobs -> LiveJobs]
      BY <3>1, AbsentType
    <3>3. how' = [p \in Procs |-> ""]
      BY <1>2 DEF Forget
    <3>4. pid_owner' = [x \in Pids |-> 0]
      BY <1>2 DEF Forget
    <3>5. queue' = {} /\ slots_used' = 0
      BY <1>2 DEF Forget
    <3>6. shutting_down' = FALSE
      BY <1>2 DEF Forget
    <3>7. how' \in [Procs -> {"", "exited:0", "exited:1", "killed"}]
      BY <3>3
    <3>8. pid_owner' \in [Pids -> Jobs \cup {0}]
      BY <3>4
    <3>9. slots_used' \in Int /\ queue' \subseteq Jobs
      BY <3>5
    <3>. QED  BY <3>2, <3>6, <3>7, <3>8, <3>9, Zenon DEF TableOK
  <2>4. WalkOK'
    <3>1. /\ pc' = "down" /\ cur' = 0 /\ todo' = {} /\ outcome' = "" /\ starts' = starts
      BY <1>2 DEF Forget
    <3>. QED  BY <3>1 DEF WalkOK
  <2>5. CliOK'
    <3>1. fifo' = <<>> /\ sent' = sent /\ asked' = asked
      BY <1>2 DEF Forget
    <3>. QED  BY <3>1 DEF CliOK
  <2>. QED  BY <1>2, <2>2, <2>3, <2>4, <2>5, DiskFrame DEF TypeOK, Forget
<1>3. CASE Crash \/ Exit
  BY <1>2, <1>3 DEF Crash, Exit
<1>4. CASE RecoverDone
  <2>1. WalkOK'
    BY <1>4 DEF WalkOK, RecoverDone
  <2>. QED  BY <1>4, <2>1, DiskFrame, CliFrame, ProcFrame, TableFrame DEF TypeOK, RecoverDone
<1>5. ASSUME NEW j \in Jobs, RecoverInProgress(j) PROVE TypeOK'
  <2>1. ProcOK'
    BY <1>5, KillType DEF RecoverInProgress, ProcOK
  <2>2. meta_procs[j] \in SUBSET Procs /\ "failed" \in States
    BY DEF DiskOK, States, Terminal
  <2>3. DiskOK'
    BY <1>5, <2>2, SaveType DEF RecoverInProgress
  <2>4. WalkOK'
    BY <1>5 DEF RecoverInProgress, WalkOK
  <2>. QED  BY <1>5, <2>1, <2>3, <2>4, CliFrame, TableFrame DEF TypeOK, RecoverInProgress
<1>6. ASSUME NEW j \in Jobs, RecoverWaiting(j) PROVE TypeOK'
  <2>1. WalkOK'
    BY <1>6 DEF RecoverWaiting, WalkOK
  <2>. QED  BY <1>6, <2>1, EnqueueType, CliFrame, ProcFrame DEF TypeOK, RecoverWaiting
<1>7. ASSUME NEW j \in Jobs, RecoverSettled(j) PROVE TypeOK'
  <2>1. WalkOK'
    BY <1>7 DEF RecoverSettled, WalkOK
  <2>. QED  BY <1>7, <2>1, DiskFrame, CliFrame, ProcFrame, TableFrame DEF TypeOK, RecoverSettled
<1>. QED  BY <1>1, <1>3, <1>4, <1>5, <1>6, <1>7 DEF Lifecycle

LEMMA LaunchingType == TypeOK /\ Launching => TypeOK'
<1>. SUFFICES ASSUME DiskOK, CliOK, ProcOK, TableOK, WalkOK, Launching PROVE TypeOK'
  BY DEF TypeOK
<1>1. /\ live \in [Jobs -> LiveJobs] /\ queue \subseteq Jobs
      /\ \A j \in Jobs : meta_procs[j] \in SUBSET Procs
      /\ "failed" \in States /\ "starting" \in States /\ "running" \in States
  BY DEF TableOK, DiskOK, States, Terminal, InProgress
<1>2. CASE ScheduleDone
  <2>1. WalkOK'
    BY <1>2 DEF WalkOK, ScheduleDone
  <2>. QED  BY <1>2, <2>1, DiskFrame, CliFrame, ProcFrame, TableFrame DEF TypeOK, ScheduleDone
<1>3. ASSUME NEW j \in Jobs, LaunchFails(j) PROVE TypeOK'
  <2>1. DiskOK'
    BY <1>1, <1>3, SaveType DEF LaunchFails
  <2>2. TableOK'
    BY <1>1, <1>3, AbsentType, LiveType DEF LaunchFails
  <2>. QED  BY <1>3, <2>1, <2>2, CliFrame, ProcFrame, WalkFrame DEF TypeOK, LaunchFails
<1>4. ASSUME NEW j \in Jobs, LaunchStarts(j) PROVE TypeOK'
  <2>1. DiskOK'
    BY <1>1, <1>4, SaveType DEF LaunchStarts
  <2>2. [live[j] EXCEPT !.state = "starting"] \in LiveJobs
    BY <1>1 DEF LiveJobs
  <2>3. TableOK'
    BY <1>1, <1>4, <2>2, LiveType DEF LaunchStarts
  <2>4. WalkOK'
    BY <1>4 DEF WalkOK, LaunchStarts
  <2>. QED  BY <1>4, <2>1, <2>3, <2>4, CliFrame, ProcFrame DEF TypeOK, LaunchStarts
<1>5. ASSUME NEW p \in Procs, NEW x \in Pids, Fork(p, x) PROVE TypeOK'
  <2>1. cur \in Jobs
    BY <1>5 DEF Fork, WalkOK
  <2>2. [Unborn EXCEPT !.phase = IF Op[cur] = "exec" THEN "work" ELSE "gate",
                       !.pid = x, !.job = cur, !.child = TRUE] \in ProcessTable
    BY <2>1 DEF Unborn, ProcessTable
  <2>3. ProcOK'
    BY <1>5, <2>2 DEF Fork, ProcOK
  <2>. QED  BY <1>5, <2>3, DiskFrame, CliFrame, TableFrame, WalkFrame DEF TypeOK, Fork
<1>6. CASE ForkFails
  <2>1. cur \in Jobs
    BY <1>6 DEF ForkFails, WalkOK
  <2>2. DiskOK'
    BY <1>1, <1>6, <2>1, SaveType DEF ForkFails
  <2>3. TableOK'
    BY <1>1, <1>6, AbsentType, LiveType DEF ForkFails
  <2>4. \A p \in Procs : [proc[p] EXCEPT !.phase = "gone"] \in ProcessTable
    BY DEF ProcOK, ProcessTable
  <2>5. ProcOK'
    BY <1>6, <2>4 DEF ForkFails, ProcOK
  <2>6. WalkOK'
    BY <1>6 DEF WalkOK, ForkFails
  <2>. QED  BY <1>6, <2>2, <2>3, <2>5, <2>6, CliFrame DEF TypeOK, ForkFails
<1>7. CASE OpenGate
  <2>1. cur \in Jobs
    BY <1>7 DEF OpenGate, WalkOK
  <2>2. \A p \in Procs : [proc[p] EXCEPT !.gate = TRUE] \in ProcessTable
    <3>1. \A r \in ProcessTable : [r EXCEPT !.gate = TRUE] \in ProcessTable
      BY DEF ProcessTable
    <3>. QED  BY <3>1 DEF ProcOK
  <2>3. ProcOK'
    BY <1>7, <2>2 DEF OpenGate, ProcOK
  <2>4. live' \in [Jobs -> LiveJobs]
    <3>1. Spawned \in SUBSET Procs
      BY DEF Spawned
    <3>2. \A P \in SUBSET Procs, b \in BOOLEAN :
            [live[cur] EXCEPT !.procs = P, !.uses_slot = TRUE, !.deadline_id = b] \in LiveJobs
      BY <1>1, <2>1 DEF LiveJobs
    <3>3. PICK timer \in BOOLEAN :
            live' = [live EXCEPT ![cur].procs = Spawned, ![cur].uses_slot = TRUE,
                                 ![cur].deadline_id = timer]
      BY <1>7 DEF OpenGate
    <3>4. live' = [live EXCEPT ![cur] = [live[cur] EXCEPT !.procs = Spawned, !.uses_slot = TRUE,
                                                   !.deadline_id = timer]]
      BY <1>1, <2>1, <3>3
    <3>. QED  BY <1>1, <2>1, <3>1, <3>2, <3>4
  <2>5. slots_used' \in Int
    <3>1. slots_used \in Int
      BY DEF TableOK
    <3>2. slots_used' = slots_used + 1
      BY <1>7 DEF OpenGate
    <3>. QED  BY <3>1, <3>2
  <2>6. pid_owner' \in [Pids -> Jobs \cup {0}]
    <3>1. pid_owner \in [Pids -> Jobs \cup {0}]
      BY DEF TableOK
    <3>2. pid_owner' = [x \in Pids |-> IF \E p \in Spawned : proc[p].pid = x THEN cur
                                      ELSE pid_owner[x]]
      BY <1>7 DEF OpenGate
    <3>. QED  BY <2>1, <3>1, <3>2
  <2>7. TableOK'
    BY <1>7, <2>4, <2>5, <2>6, Zenon DEF TableOK, OpenGate
  <2>8. WalkOK'
    BY <1>7, <2>1 DEF WalkOK, OpenGate
  <2>. QED  BY <1>7, <2>3, <2>7, <2>8, DiskFrame, CliFrame DEF TypeOK, OpenGate
<1>8. CASE SaveRunning
  <2>1. cur \in Jobs
    BY <1>8 DEF SaveRunning, WalkOK
  <2>2. live[cur].procs \in SUBSET Procs /\ [live[cur] EXCEPT !.state = "running"] \in LiveJobs
    BY <1>1, <2>1 DEF LiveJobs
  <2>3. DiskOK'
    BY <1>1, <1>8, <2>2, SaveType DEF SaveRunning
  <2>4. TableOK'
    BY <1>1, <1>8, <2>1, <2>2, LiveType DEF SaveRunning
  <2>5. WalkOK'
    BY <1>8 DEF WalkOK, SaveRunning
  <2>. QED  BY <1>8, <2>3, <2>4, <2>5, CliFrame, ProcFrame DEF TypeOK, SaveRunning
<1>9. CASE GiveUp
  <2>1. \A p \in Procs : [proc[p] EXCEPT !.gate = TRUE] \in ProcessTable
    <3>1. \A r \in ProcessTable : [r EXCEPT !.gate = TRUE] \in ProcessTable
      BY DEF ProcessTable
    <3>. QED  BY <3>1 DEF ProcOK
  <2>2. ProcOK'
    BY <1>9, <2>1 DEF GiveUp, ProcOK
  <2>. QED  BY <1>9, <2>2, DiskFrame, CliFrame, TableFrame, WalkFrame DEF TypeOK, GiveUp
<1>. QED  BY <1>2, <1>3, <1>4, <1>5, <1>6, <1>7, <1>8, <1>9 DEF Launching

\* note_reap, and what finalize does at once.
LEMMA NoteReapType ==
    ASSUME DiskOK, CliOK, ProcOK, TableOK, WalkOK,
           NEW z \in Procs, NEW j \in Live, proc[z].phase = "zombie",
           NoteReap(z, j, Endings(z, j))
    PROVE  TypeOK'
<1>. DEFINE ended == Endings(z, j)
<1>1. j \in Jobs /\ live[j] \in LiveJobs
  BY DEF Live, TableOK
<1>2. DiskOK'
  <2>1. "persisting" \in States /\ live[j].procs \in SUBSET Procs
    BY <1>1 DEF States, InProgress, LiveJobs
  <2>2. Save(j, "persisting", live[j].procs) \/ UNCHANGED disk
    BY DEF NoteReap
  <2>. QED  BY <2>1, <2>2, SaveType, DiskFrame
<1>3. ProcOK'
  <2>. DEFINE f == IF FirstBad(j, ended) THEN Kill(Left(j, ended), "TERM") ELSE proc
  <2>1. f \in [Procs -> ProcessTable]
    BY KillType DEF ProcOK
  <2>2. proc' = [f EXCEPT ![z].phase = "gone"]
    BY DEF NoteReap
  <2>. HIDE DEF f
  <2>3. [f[z] EXCEPT !.phase = "gone"] \in ProcessTable
    BY <2>1 DEF ProcessTable
  <2>. QED  BY <2>1, <2>2, <2>3 DEF ProcOK
<1>4. TableOK'
  <2>1. how' \in [Procs -> {"", "exited:0", "exited:1", "killed"}]
    <3>. DEFINE S == {"", "exited:0", "exited:1", "killed"}
    <3>1. proc[z].exit \in S
      BY DEF ProcOK, ProcessTable
    <3>2. how' = Endings(z, j)
      BY DEF NoteReap
    <3>3. how \in [Procs -> S]
      BY DEF TableOK
    <3>. HIDE DEF S
    <3>4. Endings(z, j) \in [Procs -> S]
      BY <3>1, <3>3 DEF Endings
    <3>. QED  BY <3>2, <3>4 DEF S
  <2>2. live' \in [Jobs -> LiveJobs]
    <3>. DEFINE r == [live[j] EXCEPT
                         !.stop_reason = IF FirstBad(j, ended) THEN "failed" ELSE @,
                         !.state = IF Body(j, ended) THEN "persisting" ELSE @]
    <3>1. live \in [Jobs -> LiveJobs]
      BY DEF TableOK
    <3>2. r \in LiveJobs
      BY <1>1 DEF LiveJobs
    <3>3. live' = [live EXCEPT ![j] = r]
      BY <1>1, <3>1 DEF NoteReap
    <3>. QED  BY <3>1, <3>2, <3>3
  <2>. QED  BY <2>1, <2>2, Zenon DEF TableOK, NoteReap
<1>5. WalkOK'
  <2>1. StoppedAs(j) \in Terminal /\ "completed" \in Terminal
    BY DEF StoppedAs, Terminal
  <2>2. /\ todo' = todo /\ starts' = starts
        /\ \/ pc' = "reap" /\ cur' = 0 /\ outcome' = ""
           \/ pc' = "output" /\ cur' = j /\ outcome' = ""
           \/ pc' = "finish" /\ cur' = j /\ outcome' \in {"completed", StoppedAs(j)}
    BY DEF NoteReap
  <2>. QED  BY <1>1, <2>1, <2>2 DEF WalkOK
<1>6. CliOK'
  BY CliFrame DEF NoteReap
<1>. QED  BY <1>2, <1>3, <1>4, <1>5, <1>6 DEF TypeOK

LEMMA ReapingType == TypeOK /\ Reaping => TypeOK'
<1>. SUFFICES ASSUME DiskOK, CliOK, ProcOK, TableOK, WalkOK, Reaping PROVE TypeOK'
  BY DEF TypeOK
<1>1. CASE BeginReap \/ ReapDone
  <2>1. WalkOK'
    BY <1>1 DEF WalkOK, BeginReap, ReapDone
  <2>. QED  BY <1>1, <2>1, DiskFrame, CliFrame, ProcFrame, TableFrame
            DEF TypeOK, BeginReap, ReapDone
<1>2. CASE WriteOutput
  <2>1. cur \in Jobs
    BY <1>2 DEF WriteOutput, WalkOK
  <2>2. DiskOK'
    BY <1>2, <2>1 DEF WriteOutput, DiskOK
  <2>3. WalkOK'
    BY <1>2, <2>1 DEF WalkOK, WriteOutput, Terminal
  <2>. QED  BY <1>2, <2>2, <2>3, CliFrame, ProcFrame, TableFrame DEF TypeOK, WriteOutput
<1>3. CASE Finish
  <2>1. cur \in Jobs /\ outcome \in States
    BY <1>3, StatesFact DEF Finish, WalkOK
  <2>2. live \in [Jobs -> LiveJobs] /\ live[cur].procs \in SUBSET Procs
    BY <2>1 DEF TableOK, LiveJobs
  <2>3. DiskOK'
    BY <1>3, <2>1, <2>2, SaveType DEF Finish
  <2>4. live' \in [Jobs -> LiveJobs]
    BY <1>3, <2>2, AbsentType DEF Finish
  <2>5. queue' \subseteq Jobs /\ shutting_down' \in BOOLEAN
    BY <1>3 DEF Finish, TableOK
  <2>6. slots_used' \in Int
    <3>1. slots_used \in Int
      BY DEF TableOK
    <3>2. slots_used' = slots_used - 1 \/ slots_used' = slots_used
      BY <1>3 DEF Finish, SlotBack
    <3>. QED  BY <3>1, <3>2
  <2>7. pid_owner' \in [Pids -> Jobs \cup {0}]
    <3>1. pid_owner \in [Pids -> Jobs \cup {0}]
      BY DEF TableOK
    <3>2. pid_owner' = Disowned(cur)
      BY <1>3 DEF Finish
    <3>. QED  BY <3>1, <3>2 DEF Disowned
  <2>8. how' \in [Procs -> {"", "exited:0", "exited:1", "killed"}]
    BY <1>3 DEF Finish, TableOK
  <2>9. TableOK'
    BY <2>4, <2>5, <2>6, <2>7, <2>8, Zenon DEF TableOK
  <2>10. WalkOK'
    BY <1>3 DEF WalkOK, Finish
  <2>. QED  BY <1>3, <2>3, <2>9, <2>10, CliFrame, ProcFrame DEF TypeOK, Finish
<1>4. ASSUME NEW z \in Procs, ReapUnknown(z) PROVE TypeOK'
  <2>1. [proc[z] EXCEPT !.phase = "gone"] \in ProcessTable
    BY DEF ProcOK, ProcessTable
  <2>2. ProcOK'
    BY <1>4, <2>1 DEF ReapUnknown, ProcOK
  <2>. QED  BY <1>4, <2>2, DiskFrame, CliFrame, TableFrame, WalkFrame DEF TypeOK, ReapUnknown
<1>5. ASSUME NEW z \in Procs, ReapChild(z) PROVE TypeOK'
  BY <1>5, NoteReapType DEF ReapChild
<1>. QED  BY <1>1, <1>2, <1>3, <1>4, <1>5 DEF Reaping

LEMMA EventsType == TypeOK /\ Events => TypeOK'
<1>. SUFFICES ASSUME DiskOK, CliOK, ProcOK, TableOK, WalkOK, Events PROVE TypeOK'
  BY DEF TypeOK
<1>1. /\ live \in [Jobs -> LiveJobs] /\ queue \subseteq Jobs
      /\ \A j \in Jobs : meta_procs[j] \in SUBSET Procs
      /\ "cancelled" \in States
  BY DEF TableOK, DiskOK, States, Terminal
<1>2. ASSUME fifo # <<>>, fifo' = Tail(fifo), sent' = sent, asked' = asked
      PROVE  CliOK' /\ Head(fifo).job \in Jobs
  <2>1. fifo \in Seq(Lines)
    BY DEF CliOK
  <2>2. fifo' \in Seq(Lines) /\ Head(fifo) \in Lines
    BY <1>2, <2>1, SeqType
  <2>3. Head(fifo).job \in Jobs
    BY <2>2 DEF Lines
  <2>. QED  BY <1>2, <2>2, <2>3 DEF CliOK
<1>3. CASE OnSubmit
  <2>. DEFINE j == Head(fifo).job
  <2>1. CliOK' /\ j \in Jobs
    BY <1>2, <1>3 DEF OnSubmit
  <2>2. /\ UNCHANGED <<proc, cur, todo, outcome, starts>>
        /\ \/ Save(j, "cancelled", meta_procs[j]) /\ UNCHANGED <<table, pc>>
           \/ UNCHANGED <<disk, table, pc>>
           \/ Enqueue(j) /\ pc' = "schedule"
    BY <1>3, Zenon DEF OnSubmit
  <2>. HIDE DEF j
  <2>3. DiskOK' /\ TableOK'
    BY <1>1, <2>1, <2>2, SaveType, EnqueueType, DiskFrame, TableFrame
  <2>4. WalkOK'
    <3>1. pc' = pc \/ pc' = "schedule"
      BY <2>2
    <3>2. cur' = cur /\ todo' = todo /\ outcome' = outcome /\ starts' = starts
      BY <2>2
    <3>. QED  BY <3>1, <3>2 DEF WalkOK
  <2>. QED  BY <2>1, <2>2, <2>3, <2>4, ProcFrame DEF TypeOK
<1>4. CASE OnCancel
  <2>. DEFINE j == Head(fifo).job
  <2>1. CliOK' /\ j \in Jobs
    BY <1>2, <1>4 DEF OnCancel
  <2>2. /\ UNCHANGED <<how, slots_used, shutting_down, pid_owner, walk>>
        /\ Save(j, "cancelled", meta_procs[j]) \/ UNCHANGED disk
        /\ live' \in {live, [live EXCEPT ![j] = Absent], WithReason({j}, "cancelled")}
        /\ queue' \in {queue, queue \ {j}}
        /\ proc' \in {proc, Terminated({j})}
    BY <1>4 DEF OnCancel
  <2>. HIDE DEF j
  <2>3. DiskOK'
    BY <1>1, <2>1, <2>2, SaveType, DiskFrame
  <2>4. TableOK'
    BY <1>1, <2>2, AbsentType, WithReasonType, LiveType
  <2>5. ProcOK'
    BY <2>2, KillType, ProcFrame DEF ProcOK, Terminated
  <2>. QED  BY <2>1, <2>2, <2>3, <2>4, <2>5, WalkFrame DEF TypeOK
<1>5. CASE OnShutdown
  <2>1. DiskOK'
    <3>1. record \in [Jobs -> States \cup {"none"}]
      BY DEF DiskOK
    <3>2. \E S : record' = [j \in Jobs |-> IF j \in S THEN "cancelled" ELSE record[j]]
      BY <1>5 DEF OnShutdown
    <3>3. record' \in [Jobs -> States \cup {"none"}]
      BY <1>1, <3>1, <3>2
    <3>4. meta_procs' = meta_procs /\ output' = output
      BY <1>5 DEF OnShutdown
    <3>. QED  BY <3>3, <3>4 DEF DiskOK
  <2>2. live' \in [Jobs -> LiveJobs]
    <3>1. WithReason(Live, "shutdown") \in [Jobs -> LiveJobs]
      BY WithReasonType
    <3>2. live' = [j \in Jobs |-> IF j \in queue THEN Absent
                                  ELSE WithReason(Live, "shutdown")[j]]
      BY <1>5 DEF OnShutdown
    <3>. QED  BY <3>1, <3>2, AbsentType
  <2>3. queue' \subseteq Jobs /\ shutting_down' \in BOOLEAN
    BY <1>5 DEF OnShutdown
  <2>4. UNCHANGED <<how, slots_used, pid_owner>>
    BY <1>5 DEF OnShutdown
  <2>5. TableOK'
    BY <2>2, <2>3, <2>4, Zenon DEF TableOK
  <2>6. ProcOK'
    BY <1>5, KillType DEF OnShutdown, ProcOK, Terminated
  <2>. QED  BY <1>5, <2>1, <2>5, <2>6, CliFrame, WalkFrame DEF TypeOK, OnShutdown
<1>6. ASSUME NEW j \in Jobs, OnDeadline(j) PROVE TypeOK'
  <2>1. WithReason({j}, "timed_out") \in [Jobs -> LiveJobs]
    BY WithReasonType
  <2>2. \A r \in LiveJobs : [r EXCEPT !.deadline_id = FALSE] \in LiveJobs
    BY DEF LiveJobs
  <2>3. live' \in [Jobs -> LiveJobs]
    BY <1>6, <2>1, <2>2 DEF OnDeadline
  <2>4. TableOK'
    BY <1>1, <1>6, <2>3, LiveType DEF OnDeadline
  <2>5. ProcOK'
    BY <1>6, KillType DEF OnDeadline, ProcOK, Terminated
  <2>. QED  BY <1>6, <2>4, <2>5, DiskFrame, CliFrame, WalkFrame DEF TypeOK, OnDeadline
<1>7. ASSUME NEW j \in Jobs, OnTick(j) PROVE TypeOK'
  <2>1. \A r \in LiveJobs : [r EXCEPT !.kill_escalated = TRUE] \in LiveJobs
    BY DEF LiveJobs
  <2>2. live' \in [Jobs -> LiveJobs]
    BY <1>1, <1>7, <2>1 DEF OnTick
  <2>3. TableOK'
    BY <1>1, <1>7, <2>2, LiveType DEF OnTick
  <2>4. ProcOK'
    BY <1>7, KillType DEF OnTick, ProcOK
  <2>. QED  BY <1>7, <2>3, <2>4, DiskFrame, CliFrame, WalkFrame DEF TypeOK, OnTick
<1>. QED  BY <1>3, <1>4, <1>5, <1>6, <1>7 DEF Events

LEMMA ProcessesType == TypeOK /\ Processes => TypeOK'
<1>. SUFFICES ASSUME DiskOK, CliOK, ProcOK, TableOK, WalkOK, Processes PROVE TypeOK'
  BY DEF TypeOK
<1>1. ASSUME NEW p \in Procs, PassGate(p) PROVE ProcOK' /\ UNCHANGED disk
  <2>1. [proc[p] EXCEPT !.phase = "work"] \in ProcessTable
    BY DEF ProcOK, ProcessTable
  <2>. QED  BY <1>1, <2>1 DEF PassGate, Becomes, ProcOK
<1>2. ASSUME NEW p \in Procs, WorkerOutput(p) PROVE ProcOK' /\ DiskOK'
  <2>1. [proc[p] EXCEPT !.phase = "wrote"] \in ProcessTable
    BY DEF ProcOK, ProcessTable
  <2>2. ProcOK'
    BY <1>2, <2>1 DEF WorkerOutput, ProcOK
  <2>3. DiskOK'
    BY <1>2 DEF WorkerOutput, DiskOK
  <2>. QED  BY <2>2, <2>3
<1>3. ASSUME NEW p \in Procs, Publish(p) PROVE ProcOK' /\ UNCHANGED disk
  <2>1. \A r \in ProcessTable : [r EXCEPT !.phase = "published", !.chunk = "ok"] \in ProcessTable
    <3>1. \A r \in ProcessTable, c \in {"empty", "ok", "bad"}, f \in {"published"} :
            [r EXCEPT !.phase = f, !.chunk = c] \in ProcessTable
      BY ZenonT(30) DEF ProcessTable
    <3>. QED  BY <3>1
  <2>2. proc' = [proc EXCEPT ![p] = [proc[p] EXCEPT !.phase = "published", !.chunk = "ok"]]
    BY <1>3 DEF Publish
  <2>3. ProcOK'
    BY <2>1, <2>2 DEF ProcOK
  <2>. QED  BY <1>3, <2>3 DEF Publish
<1>4. ASSUME NEW p \in Procs, NEW e \in {"exited:0", "exited:1", "killed"},
             NEW c \in {"empty", "ok", "bad"}, Ends(p, e, c)
      PROVE  ProcOK' /\ UNCHANGED disk
  <2>1. \A r \in ProcessTable, f \in {"zombie", "gone"} :
          [r EXCEPT !.exit = e, !.chunk = c, !.sig = "none", !.phase = f] \in ProcessTable
    BY ZenonT(30) DEF ProcessTable
  <2>2. [proc[p] EXCEPT !.exit = e, !.chunk = c, !.sig = "none",
                        !.phase = IF proc[p].child THEN "zombie" ELSE "gone"] \in ProcessTable
    BY <2>1 DEF ProcOK
  <2>. QED  BY <1>4, <2>2 DEF Ends, ProcOK
<1>5. \A p \in Procs : proc[p].chunk \in {"empty", "ok", "bad"}
  BY DEF ProcOK, ProcessTable
<1>6. ASSUME NEW p \in Procs, NEW x \in Pids, Stranger(p, x) PROVE ProcOK' /\ UNCHANGED disk
  <2>1. [Unborn EXCEPT !.phase = "work", !.pid = x] \in ProcessTable
    BY DEF Unborn, ProcessTable
  <2>. QED  BY <1>6, <2>1 DEF Stranger, ProcOK
<1>7. ProcOK' /\ DiskOK'
  <2>1. ASSUME NEW p \in Procs, ExitZero(p) \/ FailChunk(p) \/ Die(p)
        PROVE  ProcOK' /\ UNCHANGED disk
    BY <1>4, <1>5, <2>1 DEF ExitZero, FailChunk, Die
  <2>. QED  BY <1>1, <1>2, <1>3, <1>6, <2>1, DiskFrame DEF Processes, Worker
<1>8. UNCHANGED <<cli, table, walk>>
  BY DEF Processes, Worker, PassGate, Becomes, WorkerOutput, Publish, ExitZero, FailChunk, Die,
         Ends, Stranger
<1>. QED  BY <1>7, <1>8, CliFrame, TableFrame, WalkFrame DEF TypeOK

\* In every reachable state every variable of the system has its type, and the
\* controller has a job at hand wherever launch_job and finalize use one.
THEOREM TypeCorrect == Spec => []TypeOK
<1>1. Init => TypeOK
  <2>. SUFFICES ASSUME Init PROVE TypeOK
    OBVIOUS
  <2>1. DiskOK
    BY DEF Init, DiskOK
  <2>2. CliOK
    <3>1. sent = {} /\ asked = {} /\ fifo = <<>>
      BY DEF Init
    <3>. QED  BY <3>1 DEF CliOK
  <2>3. ProcOK
    BY UnbornType DEF Init, ProcOK
  <2>4. TableOK
    <3>1. live \in [Jobs -> LiveJobs]
      BY AbsentType DEF Init
    <3>2. how \in [Procs -> {"", "exited:0", "exited:1", "killed"}]
      BY DEF Init
    <3>3. pid_owner \in [Pids -> Jobs \cup {0}]
      BY DEF Init
    <3>4. queue = {} /\ slots_used = 0
      BY DEF Init
    <3>5. shutting_down \in BOOLEAN
      BY DEF Init
    <3>6. slots_used \in Int /\ queue \subseteq Jobs
      BY <3>4
    <3>. QED  BY <3>1, <3>2, <3>3, <3>5, <3>6, Zenon DEF TableOK
  <2>5. WalkOK
    BY DEF Init, WalkOK
  <2>. QED  BY <2>1, <2>2, <2>3, <2>4, <2>5 DEF TypeOK
<1>2. TypeOK /\ [Next]_vars => TypeOK'
  <2>1. TypeOK /\ UNCHANGED vars => TypeOK'
    BY DiskFrame, CliFrame, ProcFrame, TableFrame, WalkFrame DEF TypeOK, vars
  <2>. QED  BY <2>1, CLIType, LifecycleType, LaunchingType, ReapingType, EventsType, ProcessesType
            DEF Next, Controller
<1>. QED  BY <1>1, <1>2, PTL DEF Spec

-----------------------------------------------------------------------------
(* Counting slots needs where a slot can be held and where it cannot: a job  *)
(* that is queued, or that recover has still to look at, holds none, and a   *)
(* job being launched has been promised one.                                 *)

SlotHolders    == {j \in Jobs : live[j].uses_slot}
LaunchedStates == {"starting", "running", "persisting"}

HoldersAreLaunched ==
    \A j \in Jobs : live[j].uses_slot => live[j].state \in LaunchedStates

QueuedWait == \A j \in queue : live[j].state # "absent" /\ ~live[j].uses_slot

UnseenAreAbsent ==
    /\ pc = "down" => Live = {}
    /\ pc \notin {"boot", "schedule", "fork", "launched"} => todo = {}
    /\ \A j \in todo : live[j].state = "absent"

CurIsLaunched ==
    /\ pc \in {"fork", "launched"} => live[cur].state \in LaunchedStates
    /\ pc \in {"output", "finish"} => live[cur].state # "absent"
    /\ pc = "fork" => ~live[cur].uses_slot /\ cur \notin queue /\ slots_used < slots_max

SlotInv == /\ HoldersAreLaunched /\ QueuedWait /\ UnseenAreAbsent /\ CurIsLaunched
           /\ SlotAccounting

-----------------------------------------------------------------------------
LEMMA HoldersFinite == IsFiniteSet(SlotHolders) /\ Cardinality(SlotHolders) \in Nat
<1>1. SlotHolders \subseteq Jobs /\ IsFiniteSet(Jobs)
  BY ConstantsAssumption DEF SlotHolders, ConstantsAssumption
<1>. QED  BY <1>1, FS_Subset, FS_CardinalityType

\* A step that hands out no slot and takes none back keeps the count.
LEMMA SameHolders ==
    ASSUME SlotAccounting, slots_used' = slots_used,
           \A j \in Jobs : live'[j].uses_slot = live[j].uses_slot
    PROVE  SlotAccounting'
BY DEF SlotAccounting

\* A step that moves no job to another state, whatever else it does to it.
LEMMA SameStates ==
    ASSUME SlotInv, TypeOK, todo' \subseteq todo, UNCHANGED <<queue, slots_used, pc, cur>>,
           \A j \in Jobs : /\ live'[j].uses_slot = live[j].uses_slot
                           /\ live'[j].state = live[j].state
    PROVE  SlotInv'
<1>1. cur \in Jobs \/ pc \notin {"fork", "launched", "output", "finish"}
  BY DEF TypeOK, WalkOK
<1>2. queue \subseteq Jobs /\ todo \subseteq Jobs
  BY DEF TypeOK, TableOK, WalkOK
<1>3. HoldersAreLaunched'
  BY DEF SlotInv, HoldersAreLaunched
<1>4. QueuedWait'
  BY <1>2 DEF SlotInv, QueuedWait
<1>5. UnseenAreAbsent'
  BY <1>2 DEF SlotInv, UnseenAreAbsent, Live
<1>6. CurIsLaunched'
  <2>1. CurIsLaunched /\ pc' = pc /\ cur' = cur /\ slots_used' = slots_used /\ queue' = queue
    BY DEF SlotInv
  <2>2. pc \in {"fork", "launched", "output", "finish"} =>
            live'[cur].state = live[cur].state /\ live'[cur].uses_slot = live[cur].uses_slot
    BY <1>1
  <2>3. /\ pc' \in {"fork", "launched"} => live'[cur'].state \in LaunchedStates
        /\ pc' \in {"output", "finish"} => live'[cur'].state # "absent"
    BY <2>1, <2>2 DEF CurIsLaunched
  <2>4. pc' = "fork" => cur' \notin queue' /\ slots_used' < slots_max
    BY <2>1 DEF CurIsLaunched
  <2>5. pc' = "fork" => ~live'[cur'].uses_slot
    BY <2>1, <2>2 DEF CurIsLaunched
  <2>. QED  BY <2>3, <2>4, <2>5 DEF CurIsLaunched
<1>7. SlotAccounting'
  BY SameHolders DEF SlotInv
<1>. QED  BY <1>3, <1>4, <1>5, <1>6, <1>7 DEF SlotInv

\* One job that holds no slot, before or after, becomes absent or queued, and no
\* job is at hand.
LEMMA Unlaunched ==
    ASSUME SlotInv, TypeOK, NEW j \in Jobs, NEW r \in {Absent, [Absent EXCEPT !.state = "queued"]},
           ~live[j].uses_slot, live' = [live EXCEPT ![j] = r],
           queue' \subseteq queue \cup {j}, j \in queue' => r.state = "queued",
           todo' \subseteq todo, r.state = "queued" => j \notin todo', 
           slots_used' = slots_used, pc' \in {"loop", "schedule"}, pc' = "loop" => todo' = {}
    PROVE  SlotInv'
<1>1. r.uses_slot = FALSE /\ r.state \in {"absent", "queued"}
  <2>1. CASE r = Absent
    BY <2>1 DEF Absent
  <2>2. CASE r = [Absent EXCEPT !.state = "queued"]
    BY <2>2 DEF Absent
  <2>. QED  BY <2>1, <2>2
<1>2. live \in [Jobs -> LiveJobs] /\ queue \subseteq Jobs /\ todo \subseteq Jobs
  BY DEF TypeOK, TableOK, WalkOK
<1>3. live'[j] = r /\ \A k \in Jobs \ {j} : live'[k] = live[k]
  BY <1>2
<1>4. HoldersAreLaunched'
  BY <1>1, <1>3 DEF SlotInv, HoldersAreLaunched
<1>5. QueuedWait'
  <2>1. SUFFICES ASSUME NEW k \in queue' PROVE live'[k].state # "absent" /\ ~live'[k].uses_slot
    BY DEF QueuedWait
  <2>2. CASE k = j
    BY <1>1, <1>3, <2>2
  <2>3. CASE k # j
    <3>1. k \in queue /\ k \in Jobs
      BY <1>2, <2>3
    <3>2. live[k].state # "absent" /\ ~live[k].uses_slot
      BY <3>1 DEF SlotInv, QueuedWait
    <3>3. live'[k] = live[k]
      BY <1>3, <2>3, <3>1
    <3>. QED  BY <3>2, <3>3
  <2>. QED  BY <2>2, <2>3
<1>6. UnseenAreAbsent'
  BY <1>1, <1>2, <1>3 DEF SlotInv, UnseenAreAbsent
<1>7. CurIsLaunched'
  BY DEF CurIsLaunched
<1>8. SlotAccounting'
  <2>1. live[j].uses_slot = FALSE
    BY <1>2 DEF LiveJobs
  <2>. QED  BY <1>1, <1>3, <2>1, SameHolders DEF SlotInv
<1>. QED  BY <1>4, <1>5, <1>6, <1>7, <1>8 DEF SlotInv

-----------------------------------------------------------------------------
(* The invariant is inductive, one lemma per part of Next. *)

\* A step that keeps the live jobs, the queue, the slots and the place of the controller.
LEMMA OutsideStep ==
    ASSUME SlotInv, TypeOK, todo' \subseteq todo, UNCHANGED <<live, queue, slots_used, pc, cur>>
    PROVE  SlotInv'
BY SameStates

LEMMA CLISlots == SlotInv /\ TypeOK /\ (CLI \/ Processes) => SlotInv'
<1>. SUFFICES ASSUME SlotInv, TypeOK, CLI \/ Processes PROVE SlotInv'
  OBVIOUS
<1>1. UNCHANGED <<table, walk>>
  <2>1. CASE CLI
    BY <2>1 DEF CLI, Submit, SendSubmit, CancelCommand
  <2>2. CASE Processes
    BY <2>2 DEF Processes, Worker, PassGate, Becomes, WorkerOutput, Publish, ExitZero, FailChunk,
                Die, Ends, Stranger
  <2>. QED  BY <2>1, <2>2
<1>. QED  BY <1>1, OutsideStep DEF table, walk

LEMMA LifecycleSlots == SlotInv /\ TypeOK /\ Lifecycle => SlotInv'
<1>. SUFFICES ASSUME SlotInv, TypeOK, Lifecycle PROVE SlotInv'
  OBVIOUS
<1>1. CASE Start
  <2>1. /\ UNCHANGED <<live, queue, slots_used>>
        /\ pc = "down" /\ pc' = "boot" /\ todo' \subseteq Jobs
    BY <1>1 DEF Start, table
  <2>2. \A j \in Jobs : live[j].state = "absent"
    BY <2>1 DEF SlotInv, UnseenAreAbsent, Live
  <2>3. HoldersAreLaunched' /\ QueuedWait' /\ SlotAccounting'
    BY <2>1 DEF SlotInv, HoldersAreLaunched, QueuedWait, SlotAccounting
  <2>4. UnseenAreAbsent' /\ CurIsLaunched'
    BY <2>1, <2>2 DEF UnseenAreAbsent, CurIsLaunched
  <2>. QED  BY <2>3, <2>4 DEF SlotInv
<1>2. ASSUME Forget PROVE SlotInv'
  <2>1. /\ live' = [j \in Jobs |-> Absent] /\ queue' = {} /\ todo' = {}
    BY <1>2 DEF Forget
  <2>2. pc' = "down" /\ slots_used' = 0
    BY <1>2 DEF Forget
  <2>3. \A j \in Jobs : live'[j].state = "absent" /\ live'[j].uses_slot = FALSE
    BY <2>1 DEF Absent
  <2>4. HoldersAreLaunched' /\ QueuedWait' /\ CurIsLaunched'
    BY <2>1, <2>2, <2>3 DEF HoldersAreLaunched, QueuedWait, CurIsLaunched
  <2>5. UnseenAreAbsent'
    BY <2>1, <2>2, <2>3 DEF UnseenAreAbsent, Live
  <2>6. SlotAccounting'
    <3>1. {j \in Jobs : live'[j].uses_slot} = {}
      BY <2>3
    <3>2. Cardinality({}) = 0
      BY FS_EmptySet
    <3>3. 0 <= slots_max
      BY ConstantsAssumption DEF ConstantsAssumption
    <3>. QED  BY <2>2, <3>1, <3>2, <3>3 DEF SlotAccounting
  <2>. QED  BY <2>4, <2>5, <2>6 DEF SlotInv
<1>3. CASE Crash \/ Exit
  BY <1>2, <1>3 DEF Crash, Exit
<1>4. CASE RecoverDone
  <2>1. /\ UNCHANGED <<live, queue, slots_used>>
        /\ pc' = "loop" /\ todo' = todo /\ todo = {}
    BY <1>4 DEF RecoverDone, table
  <2>2. HoldersAreLaunched' /\ QueuedWait' /\ SlotAccounting'
    BY <2>1 DEF SlotInv, HoldersAreLaunched, QueuedWait, SlotAccounting
  <2>3. UnseenAreAbsent' /\ CurIsLaunched'
    BY <2>1 DEF UnseenAreAbsent, CurIsLaunched
  <2>. QED  BY <2>2, <2>3 DEF SlotInv
<1>5. ASSUME NEW j \in Jobs, RecoverInProgress(j) \/ RecoverSettled(j) PROVE SlotInv'
  BY <1>5, OutsideStep DEF RecoverInProgress, RecoverSettled, table
<1>6. ASSUME NEW j \in Jobs, RecoverWaiting(j) PROVE SlotInv'
  <2>1. /\ j \in todo /\ pc' = "schedule" /\ todo' = todo \ {j}
        /\ slots_used' = slots_used
    BY <1>6 DEF RecoverWaiting, NextToRecover, Enqueue
  <2>2. ~live[j].uses_slot
    BY <2>1 DEF SlotInv, UnseenAreAbsent, HoldersAreLaunched, LaunchedStates
  <2>3. CASE j \in Malformed
    <3>1. UNCHANGED <<live, queue>>
      BY <1>6, <2>3 DEF RecoverWaiting, Enqueue
    <3>2. HoldersAreLaunched' /\ QueuedWait' /\ SlotAccounting'
      BY <2>1, <3>1 DEF SlotInv, HoldersAreLaunched, QueuedWait, SlotAccounting
    <3>3. UnseenAreAbsent' /\ CurIsLaunched'
      BY <2>1, <3>1 DEF SlotInv, UnseenAreAbsent, CurIsLaunched
    <3>. QED  BY <3>2, <3>3 DEF SlotInv
  <2>4. CASE j \notin Malformed
    <3>1. /\ live' = [live EXCEPT ![j] = [Absent EXCEPT !.state = "queued"]]
          /\ queue' = queue \cup {j}
      BY <1>6, <2>4 DEF RecoverWaiting, Enqueue
    <3>2. [Absent EXCEPT !.state = "queued"].state = "queued"
      BY DEF Absent
    <3>. QED  BY <2>1, <2>2, <3>1, <3>2, Unlaunched
  <2>. QED  BY <2>3, <2>4
<1>. QED  BY <1>1, <1>3, <1>4, <1>5, <1>6 DEF Lifecycle

\* A job at hand moves to another launched state.
LEMMA Moves ==
    ASSUME SlotInv, TypeOK, NEW j \in Jobs, NEW s \in LaunchedStates,
           live[j].state # "absent", live' = [live EXCEPT ![j].state = s]
    PROVE  /\ HoldersAreLaunched'
           /\ \A k \in Jobs : /\ live'[k].uses_slot = live[k].uses_slot
                              /\ (live'[k].state = "absent") = (live[k].state = "absent")
           /\ live'[j].state = s
<1>1. live \in [Jobs -> LiveJobs]
  BY DEF TypeOK, TableOK
<1>2. live'[j] = [live[j] EXCEPT !.state = s] /\ \A k \in Jobs \ {j} : live'[k] = live[k]
  BY <1>1
<1>3. live'[j].state = s /\ live'[j].uses_slot = live[j].uses_slot
  <2>1. \A r \in LiveJobs : /\ [r EXCEPT !.state = s].state = s
                           /\ [r EXCEPT !.state = s].uses_slot = r.uses_slot
    BY DEF LiveJobs
  <2>. QED  BY <1>1, <1>2, <2>1
<1>4. s # "absent"
  BY DEF LaunchedStates
<1>5. HoldersAreLaunched'
  BY <1>2, <1>3 DEF SlotInv, HoldersAreLaunched
<1>. QED  BY <1>2, <1>3, <1>4, <1>5

\* The queue and the jobs recover has not seen, when no job appears or disappears.
LEMMA SameLive ==
    ASSUME SlotInv, TypeOK, queue' \subseteq queue, todo' = todo,
           pc' # "down", pc' \in {"boot", "schedule", "fork", "launched"} \/ todo = {},
           \A k \in Jobs : /\ live'[k].uses_slot = live[k].uses_slot
                           /\ (live'[k].state = "absent") = (live[k].state = "absent")
    PROVE  QueuedWait' /\ UnseenAreAbsent'
<1>1. queue \subseteq Jobs /\ todo \subseteq Jobs
  BY DEF TypeOK, TableOK, WalkOK
<1>2. QueuedWait'
  BY <1>1 DEF SlotInv, QueuedWait
<1>3. UnseenAreAbsent'
  BY <1>1 DEF SlotInv, UnseenAreAbsent
<1>. QED  BY <1>2, <1>3

LEMMA LaunchStartsSlots ==
    ASSUME SlotInv, TypeOK, NEW j \in Jobs, LaunchStarts(j) PROVE SlotInv'
<1>1. /\ j \in queue /\ live[j].state = "queued" /\ slots_used < slots_max
      /\ live' = [live EXCEPT ![j].state = "starting"]
      /\ queue' = queue \ {j}
  BY DEF LaunchStarts, Schedules, Picked, Queued, FreeSlot
<1>2. pc' = "fork" /\ cur' = j /\ todo' = todo /\ slots_used' = slots_used
  BY DEF LaunchStarts
<1>3. /\ HoldersAreLaunched' /\ live'[j].state = "starting"
      /\ \A k \in Jobs : /\ live'[k].uses_slot = live[k].uses_slot
                         /\ (live'[k].state = "absent") = (live[k].state = "absent")
  BY <1>1, Moves DEF LaunchedStates
<1>4. QueuedWait' /\ UnseenAreAbsent'
  BY <1>1, <1>2, <1>3, SameLive
<1>5. ~live[j].uses_slot
  BY <1>1 DEF SlotInv, QueuedWait
<1>6. CurIsLaunched'
  BY <1>1, <1>2, <1>3, <1>5 DEF CurIsLaunched, LaunchedStates
<1>7. SlotAccounting'
  BY <1>2, <1>3, SameHolders DEF SlotInv
<1>. QED  BY <1>3, <1>4, <1>6, <1>7 DEF SlotInv

LEMMA OpenGateSlots ==
    ASSUME SlotInv, TypeOK, OpenGate PROVE SlotInv'
<1>1. PICK timer \in BOOLEAN :
        live' = [live EXCEPT ![cur].procs = Spawned, ![cur].uses_slot = TRUE,
                             ![cur].deadline_id = timer]
  BY DEF OpenGate
<1>2. /\ pc = "fork" /\ pc' = "launched" /\ cur' = cur /\ todo' = todo
      /\ queue' = queue /\ slots_used' = slots_used + 1
      /\ live' = [live EXCEPT ![cur].procs = Spawned, ![cur].uses_slot = TRUE,
                              ![cur].deadline_id = timer]
  BY <1>1 DEF OpenGate
<1>3. cur \in Jobs /\ live \in [Jobs -> LiveJobs] /\ queue \subseteq Jobs /\ todo \subseteq Jobs
  BY <1>2 DEF TypeOK, TableOK, WalkOK
<1>4. /\ live[cur].state \in LaunchedStates /\ ~live[cur].uses_slot /\ cur \notin queue
      /\ slots_used < slots_max
  BY <1>2 DEF SlotInv, CurIsLaunched
<1>5. /\ live'[cur].uses_slot = TRUE /\ live'[cur].state = live[cur].state
      /\ \A k \in Jobs \ {cur} : live'[k] = live[k]
  BY <1>2, <1>3 DEF LiveJobs
<1>6. HoldersAreLaunched'
  BY <1>4, <1>5 DEF SlotInv, HoldersAreLaunched
<1>7. QueuedWait'
  BY <1>2, <1>3, <1>4, <1>5 DEF SlotInv, QueuedWait
<1>8. UnseenAreAbsent'
  BY <1>2, <1>3, <1>5 DEF SlotInv, UnseenAreAbsent
<1>9. CurIsLaunched'
  BY <1>2, <1>4, <1>5 DEF CurIsLaunched
<1>10. SlotAccounting'
  <2>1. {k \in Jobs : live'[k].uses_slot} = SlotHolders \cup {cur}
    BY <1>3, <1>5 DEF SlotHolders
  <2>2. cur \notin SlotHolders
    BY <1>4 DEF SlotHolders
  <2>3. Cardinality(SlotHolders \cup {cur}) = Cardinality(SlotHolders) + 1
    BY <2>2, HoldersFinite, FS_AddElement
  <2>4. slots_used = Cardinality(SlotHolders)
    BY DEF SlotInv, SlotAccounting, SlotHolders
  <2>5. slots_used' = Cardinality({k \in Jobs : live'[k].uses_slot})
    BY <1>2, <2>1, <2>3, <2>4
  <2>6. slots_used \in Int /\ slots_max \in Int
    <3>1. kMaxSlots \in Nat /\ slots_max \in 1..kMaxSlots
      BY ConstantsAssumption DEF ConstantsAssumption
    <3>2. slots_used \in Int
      BY DEF TypeOK, TableOK
    <3>. QED  BY <3>1, <3>2
  <2>7. slots_used' <= slots_max
    BY <1>2, <1>4, <2>6
  <2>. QED  BY <2>5, <2>7 DEF SlotAccounting
<1>. QED  BY <1>6, <1>7, <1>8, <1>9, <1>10 DEF SlotInv

LEMMA LaunchingSlots == SlotInv /\ TypeOK /\ Launching => SlotInv'
<1>. SUFFICES ASSUME SlotInv, TypeOK, Launching PROVE SlotInv'
  OBVIOUS
<1>1. CASE ScheduleDone
  <2>1. /\ UNCHANGED <<live, queue, slots_used, todo>> /\ pc = "schedule"
        /\ pc' = IF todo = {} THEN "loop" ELSE "boot"
    BY <1>1 DEF ScheduleDone, table
  <2>2. HoldersAreLaunched' /\ QueuedWait' /\ SlotAccounting'
    BY <2>1 DEF SlotInv, HoldersAreLaunched, QueuedWait, SlotAccounting
  <2>3. UnseenAreAbsent' /\ CurIsLaunched'
    BY <2>1 DEF SlotInv, UnseenAreAbsent, CurIsLaunched
  <2>. QED  BY <2>2, <2>3 DEF SlotInv
<1>2. ASSUME NEW j \in Jobs, LaunchFails(j) PROVE SlotInv'
  <2>1. /\ live' = [live EXCEPT ![j] = Absent] /\ queue' = queue \ {j}
        /\ j \in queue /\ slots_used' = slots_used
    BY <1>2 DEF LaunchFails, Schedules, Picked, Queued
  <2>2. pc = "schedule" /\ pc' = pc /\ todo' = todo
    BY <1>2 DEF LaunchFails, Schedules, walk
  <2>3. ~live[j].uses_slot
    BY <2>1 DEF SlotInv, QueuedWait
  <2>4. Absent.state # "queued"
    BY DEF Absent
  <2>. QED  BY <2>1, <2>2, <2>3, <2>4, Unlaunched
<1>3. ASSUME NEW p \in Procs, NEW x \in Pids, Fork(p, x) PROVE SlotInv'
  BY <1>3, OutsideStep DEF Fork, table, walk
<1>4. CASE ForkFails
  <2>1. /\ live' = [live EXCEPT ![cur] = Absent] /\ queue' = queue
        /\ slots_used' = slots_used
    BY <1>4 DEF ForkFails
  <2>2. pc = "fork" /\ pc' = "schedule" /\ todo' = todo
    BY <1>4 DEF ForkFails
  <2>3. cur \in Jobs /\ ~live[cur].uses_slot /\ cur \notin queue
    BY <2>2 DEF SlotInv, CurIsLaunched, TypeOK, WalkOK
  <2>4. Absent.state # "queued"
    BY DEF Absent
  <2>. QED  BY <2>1, <2>2, <2>3, <2>4, Unlaunched
<1>5. CASE SaveRunning
  <2>1. /\ live' = [live EXCEPT ![cur].state = "running"] /\ queue' = queue
        /\ slots_used' = slots_used
    BY <1>5 DEF SaveRunning
  <2>2. pc = "launched" /\ pc' = "schedule" /\ todo' = todo
    BY <1>5 DEF SaveRunning
  <2>3. cur \in Jobs /\ live[cur].state \in LaunchedStates
    BY <2>2 DEF SlotInv, CurIsLaunched, TypeOK, WalkOK
  <2>4. "running" \in LaunchedStates /\ live[cur].state # "absent"
    BY <2>3 DEF LaunchedStates
  <2>5. /\ HoldersAreLaunched'
        /\ \A k \in Jobs : /\ live'[k].uses_slot = live[k].uses_slot
                           /\ (live'[k].state = "absent") = (live[k].state = "absent")
    BY <2>1, <2>3, <2>4, Moves
  <2>6. QueuedWait' /\ UnseenAreAbsent'
    BY <2>1, <2>2, <2>5, SameLive
  <2>7. CurIsLaunched'
    BY <2>2 DEF CurIsLaunched
  <2>8. SlotAccounting'
    BY <2>1, <2>5, SameHolders DEF SlotInv
  <2>. QED  BY <2>5, <2>6, <2>7, <2>8 DEF SlotInv
<1>6. CASE GiveUp
  BY <1>6, OutsideStep DEF GiveUp, table, walk
<1>. QED  BY <1>1, <1>2, <1>3, <1>4, <1>5, <1>6, LaunchStartsSlots, OpenGateSlots DEF Launching

LEMMA NoteReapSlots ==
    ASSUME SlotInv, TypeOK, pc = "reap", NEW z \in Procs, NEW j \in Live, NEW ended,
           NoteReap(z, j, ended)
    PROVE  SlotInv'
<1>. DEFINE r == [live[j] EXCEPT
                     !.stop_reason = IF FirstBad(j, ended) THEN "failed" ELSE @,
                     !.state = IF Body(j, ended) THEN "persisting" ELSE @]
<1>1. j \in Jobs /\ live[j] \in LiveJobs /\ live[j].state # "absent" /\ live \in [Jobs -> LiveJobs]
  BY DEF Live, TypeOK, TableOK
<1>2. live' = [live EXCEPT ![j] = r]
  BY <1>1 DEF NoteReap
<1>3. r.uses_slot = live[j].uses_slot /\ r.state \in {live[j].state, "persisting"}
  BY <1>1 DEF LiveJobs
<1>. HIDE DEF r
<1>4. live'[j] = r /\ \A k \in Jobs \ {j} : live'[k] = live[k]
  BY <1>1, <1>2
<1>5. \A k \in Jobs : /\ live'[k].uses_slot = live[k].uses_slot
                      /\ (live'[k].state = "absent") = (live[k].state = "absent")
  BY <1>1, <1>3, <1>4
<1>6. HoldersAreLaunched'
  BY <1>3, <1>4 DEF SlotInv, HoldersAreLaunched, LaunchedStates
<1>7. /\ queue' = queue /\ slots_used' = slots_used /\ todo' = todo
      /\ \/ pc' = "reap"
         \/ pc' \in {"output", "finish"} /\ cur' = j
  BY DEF NoteReap
<1>8. todo = {}
  BY DEF SlotInv, UnseenAreAbsent
<1>9. QueuedWait' /\ UnseenAreAbsent'
  BY <1>5, <1>7, <1>8, SameLive
<1>10. CurIsLaunched'
  BY <1>1, <1>5, <1>7 DEF CurIsLaunched
<1>11. SlotAccounting'
  BY <1>5, <1>7, SameHolders DEF SlotInv
<1>. QED  BY <1>6, <1>9, <1>10, <1>11 DEF SlotInv

LEMMA FinishSlots ==
    ASSUME SlotInv, TypeOK, Finish PROVE SlotInv'
<1>1. /\ pc = "finish" /\ pc' = "reap" /\ todo' = todo
      /\ live' = [live EXCEPT ![cur] = Absent] /\ queue' = queue \ {cur}
  BY DEF Finish
<1>2. /\ cur \in Jobs /\ live \in [Jobs -> LiveJobs] /\ queue \subseteq Jobs
  BY <1>1 DEF TypeOK, TableOK, WalkOK
<1>3. /\ live'[cur] = Absent /\ \A k \in Jobs \ {cur} : live'[k] = live[k]
  BY <1>1, <1>2
<1>4. Absent.uses_slot = FALSE
  BY DEF Absent
<1>5. HoldersAreLaunched'
  BY <1>3, <1>4 DEF SlotInv, HoldersAreLaunched
<1>6. QueuedWait'
  BY <1>1, <1>2, <1>3 DEF SlotInv, QueuedWait
<1>7. UnseenAreAbsent' /\ CurIsLaunched'
  BY <1>1 DEF SlotInv, UnseenAreAbsent, CurIsLaunched
<1>8. SlotAccounting'
  <2>1. {k \in Jobs : live'[k].uses_slot} = SlotHolders \ {cur}
    BY <1>2, <1>3, <1>4 DEF SlotHolders
  <2>2. /\ slots_used = Cardinality(SlotHolders) /\ slots_used <= slots_max
    BY DEF SlotInv, SlotAccounting, SlotHolders
  <2>3. slots_max \in Int
    <3>1. kMaxSlots \in Nat /\ slots_max \in 1..kMaxSlots
      BY ConstantsAssumption DEF ConstantsAssumption
    <3>. QED  BY <3>1
  <2>4. slots_used' = SlotBack(cur)
    BY DEF Finish
  <2>5. CASE live[cur].uses_slot
    <3>1. Cardinality(SlotHolders \ {cur}) = Cardinality(SlotHolders) - 1
      BY <1>2, <2>5, HoldersFinite, FS_RemoveElement DEF SlotHolders
    <3>2. slots_used' = slots_used - 1
      BY <2>4, <2>5 DEF SlotBack
    <3>3. slots_used' = Cardinality({k \in Jobs : live'[k].uses_slot})
      BY <2>1, <2>2, <3>1, <3>2
    <3>4. slots_used' <= slots_max
      BY <2>2, <2>3, <3>2, HoldersFinite
    <3>. QED  BY <3>3, <3>4 DEF SlotAccounting
  <2>6. CASE ~live[cur].uses_slot
    <3>1. SlotHolders \ {cur} = SlotHolders
      BY <2>6 DEF SlotHolders
    <3>2. slots_used' = slots_used
      BY <2>4, <2>6 DEF SlotBack
    <3>. QED  BY <2>1, <2>2, <3>1, <3>2 DEF SlotAccounting
  <2>. QED  BY <2>5, <2>6
<1>. QED  BY <1>5, <1>6, <1>7, <1>8 DEF SlotInv

LEMMA ReapingSlots == SlotInv /\ TypeOK /\ Reaping => SlotInv'
<1>. SUFFICES ASSUME SlotInv, TypeOK, Reaping PROVE SlotInv'
  OBVIOUS
<1>1. CASE BeginReap \/ ReapDone \/ WriteOutput
  <2>1. UNCHANGED <<live, queue, slots_used, todo, cur>>
    BY <1>1 DEF BeginReap, ReapDone, WriteOutput, table
  <2>2. \/ pc = "loop" /\ pc' = "reap"
        \/ pc = "reap" /\ pc' = "schedule"
        \/ pc = "output" /\ pc' = "finish"
    BY <1>1 DEF BeginReap, ReapDone, WriteOutput
  <2>3. HoldersAreLaunched' /\ QueuedWait' /\ SlotAccounting'
    BY <2>1 DEF SlotInv, HoldersAreLaunched, QueuedWait, SlotAccounting
  <2>4. UnseenAreAbsent' /\ CurIsLaunched'
    BY <2>1, <2>2 DEF SlotInv, UnseenAreAbsent, CurIsLaunched
  <2>. QED  BY <2>3, <2>4 DEF SlotInv
<1>2. ASSUME NEW z \in Procs, ReapUnknown(z) PROVE SlotInv'
  BY <1>2, OutsideStep DEF ReapUnknown, table, walk
<1>3. ASSUME NEW z \in Procs, ReapChild(z) PROVE SlotInv'
  BY <1>3, NoteReapSlots DEF ReapChild
<1>. QED  BY <1>1, <1>2, <1>3, FinishSlots DEF Reaping

\* request_stop changes neither the state nor the slot of a job.
LEMMA WithReasonSlots ==
    ASSUME TypeOK, NEW S, NEW reason, NEW k \in Jobs
    PROVE  /\ WithReason(S, reason)[k].uses_slot = live[k].uses_slot
           /\ WithReason(S, reason)[k].state = live[k].state
<1>1. live[k] \in LiveJobs
  BY DEF TypeOK, TableOK
<1>2. WithReason(S, reason)[k] \in {live[k], [live[k] EXCEPT !.stop_reason = reason]}
  BY DEF WithReason
<1>3. \A r \in LiveJobs : /\ [r EXCEPT !.stop_reason = reason].uses_slot = r.uses_slot
                          /\ [r EXCEPT !.stop_reason = reason].state = r.state
  BY DEF LiveJobs
<1>. QED  BY <1>1, <1>2, <1>3

LEMMA OnSubmitSlots ==
    ASSUME SlotInv, TypeOK, OnSubmit PROVE SlotInv'
<1>. DEFINE j == Head(fifo).job
<1>1. /\ pc = "loop" /\ todo' = todo /\ cur' = cur
      /\ \/ UNCHANGED <<table, pc>>
         \/ j \notin Live /\ Enqueue(j) /\ pc' = "schedule"
  BY DEF OnSubmit, Queues
<1>2. j \in Jobs
  <2>1. fifo \in Seq(Lines) /\ fifo # <<>>
    BY DEF OnSubmit, TypeOK, CliOK
  <2>2. Head(fifo) \in Lines
    BY <2>1, SeqType
  <2>. QED  BY <2>2 DEF Lines
<1>. HIDE DEF j
<1>3. todo = {}
  BY <1>1 DEF SlotInv, UnseenAreAbsent
<1>4. CASE UNCHANGED <<table, pc>>
  BY <1>1, <1>4, OutsideStep DEF table
<1>5. CASE j \notin Live /\ Enqueue(j) /\ pc' = "schedule"
  <2>1. ~live[j].uses_slot
    BY <1>2, <1>5 DEF SlotInv, HoldersAreLaunched, LaunchedStates, Live
  <2>2. CASE j \in Malformed
    <3>1. UNCHANGED <<live, queue, slots_used>>
      BY <1>5, <2>2 DEF Enqueue
    <3>2. HoldersAreLaunched' /\ QueuedWait' /\ SlotAccounting'
      BY <3>1 DEF SlotInv, HoldersAreLaunched, QueuedWait, SlotAccounting
    <3>3. UnseenAreAbsent' /\ CurIsLaunched'
      BY <1>1, <1>3, <1>5 DEF UnseenAreAbsent, CurIsLaunched
    <3>. QED  BY <3>2, <3>3 DEF SlotInv
  <2>3. CASE j \notin Malformed
    <3>1. /\ live' = [live EXCEPT ![j] = [Absent EXCEPT !.state = "queued"]]
          /\ queue' = queue \cup {j} /\ slots_used' = slots_used
      BY <1>5, <2>3 DEF Enqueue
    <3>2. [Absent EXCEPT !.state = "queued"].state = "queued"
      BY DEF Absent
    <3>. QED  BY <1>1, <1>2, <1>3, <1>5, <2>1, <3>1, <3>2, Unlaunched
  <2>. QED  BY <2>2, <2>3
<1>. QED  BY <1>1, <1>4, <1>5

LEMMA OnCancelSlots ==
    ASSUME SlotInv, TypeOK, OnCancel PROVE SlotInv'
<1>. DEFINE j == Head(fifo).job
<1>1. /\ pc = "loop" /\ pc' = "loop" /\ todo' = todo /\ cur' = cur /\ slots_used' = slots_used
  BY DEF OnCancel, walk
<1>2. \/ UNCHANGED <<live, queue>>
      \/ /\ live[j].state = "queued"
         /\ live' = [live EXCEPT ![j] = Absent] /\ queue' = queue \ {j}
      \/ live' = WithReason({j}, "cancelled") /\ queue' = queue
  BY DEF OnCancel
<1>3. j \in Jobs
  <2>1. fifo \in Seq(Lines) /\ fifo # <<>>
    BY DEF OnCancel, TypeOK, CliOK
  <2>2. Head(fifo) \in Lines
    BY <2>1, SeqType
  <2>. QED  BY <2>2 DEF Lines
<1>. HIDE DEF j
<1>4. CASE UNCHANGED <<live, queue>>
  BY <1>1, <1>4, OutsideStep
<1>5. CASE /\ live[j].state = "queued"
           /\ live' = [live EXCEPT ![j] = Absent] /\ queue' = queue \ {j}
  <2>1. ~live[j].uses_slot
    BY <1>3, <1>5 DEF SlotInv, HoldersAreLaunched, LaunchedStates
  <2>2. todo = {} /\ Absent.state # "queued"
    BY <1>1 DEF SlotInv, UnseenAreAbsent, Absent
  <2>. QED  BY <1>1, <1>3, <1>5, <2>1, <2>2, Unlaunched
<1>6. CASE live' = WithReason({j}, "cancelled") /\ queue' = queue
  BY <1>1, <1>6, WithReasonSlots, SameStates
<1>. QED  BY <1>2, <1>4, <1>5, <1>6

LEMMA OnShutdownSlots ==
    ASSUME SlotInv, TypeOK, OnShutdown PROVE SlotInv'
<1>1. /\ pc = "loop" /\ pc' = pc /\ todo' = todo /\ queue' = {} /\ slots_used' = slots_used
      /\ live' = [k \in Jobs |-> IF k \in queue THEN Absent
                                 ELSE WithReason(Live, "shutdown")[k]]
  BY DEF OnShutdown, walk
<1>2. todo = {}
  BY <1>1 DEF SlotInv, UnseenAreAbsent
<1>3. \A k \in Jobs : /\ live'[k].uses_slot = live[k].uses_slot
                      /\ live'[k].uses_slot => live'[k].state = live[k].state
  <2>1. SUFFICES ASSUME NEW k \in Jobs
                 PROVE  /\ live'[k].uses_slot = live[k].uses_slot
                        /\ live'[k].uses_slot => live'[k].state = live[k].state
    OBVIOUS
  <2>2. CASE k \in queue
    <3>1. live'[k].uses_slot = FALSE
      BY <1>1, <2>2 DEF Absent
    <3>2. live[k].uses_slot = FALSE
      BY <2>2 DEF SlotInv, QueuedWait, TypeOK, TableOK, LiveJobs
    <3>. QED  BY <3>1, <3>2
  <2>3. CASE k \notin queue
    <3>1. live'[k] = WithReason(Live, "shutdown")[k]
      BY <1>1, <2>3
    <3>. QED  BY <3>1, WithReasonSlots
  <2>. QED  BY <2>2, <2>3
<1>4. HoldersAreLaunched'
  BY <1>3 DEF SlotInv, HoldersAreLaunched
<1>5. QueuedWait' /\ UnseenAreAbsent' /\ CurIsLaunched'
  BY <1>1, <1>2 DEF QueuedWait, UnseenAreAbsent, CurIsLaunched
<1>6. SlotAccounting'
  BY <1>1, <1>3, SameHolders DEF SlotInv
<1>. QED  BY <1>4, <1>5, <1>6 DEF SlotInv

LEMMA EventsSlots == SlotInv /\ TypeOK /\ Events => SlotInv'
<1>. SUFFICES ASSUME SlotInv, TypeOK, Events PROVE SlotInv'
  OBVIOUS
<1>1. live \in [Jobs -> LiveJobs]
  BY DEF TypeOK, TableOK
<1>2. ASSUME NEW j \in Jobs, OnDeadline(j) PROVE SlotInv'
  <2>1. UNCHANGED <<queue, slots_used, pc, cur, todo>>
    BY <1>2 DEF OnDeadline, walk
  <2>2. WithReason({j}, "timed_out") \in [Jobs -> LiveJobs]
    BY WithReasonType DEF TypeOK
  <2>3. \A r \in LiveJobs : /\ [r EXCEPT !.deadline_id = FALSE].uses_slot = r.uses_slot
                            /\ [r EXCEPT !.deadline_id = FALSE].state = r.state
    BY DEF LiveJobs
  <2>4. \A k \in Jobs : /\ live'[k].uses_slot = WithReason({j}, "timed_out")[k].uses_slot
                        /\ live'[k].state = WithReason({j}, "timed_out")[k].state
    BY <1>2, <2>2, <2>3 DEF OnDeadline
  <2>. QED  BY <2>1, <2>4, WithReasonSlots, SameStates
<1>3. ASSUME NEW j \in Jobs, OnTick(j) PROVE SlotInv'
  <2>1. UNCHANGED <<queue, slots_used, pc, cur, todo>>
    BY <1>3 DEF OnTick, walk
  <2>2. \A r \in LiveJobs : /\ [r EXCEPT !.kill_escalated = TRUE].uses_slot = r.uses_slot
                            /\ [r EXCEPT !.kill_escalated = TRUE].state = r.state
    BY DEF LiveJobs
  <2>3. \A k \in Jobs : /\ live'[k].uses_slot = live[k].uses_slot
                        /\ live'[k].state = live[k].state
    BY <1>1, <1>3, <2>2 DEF OnTick
  <2>. QED  BY <2>1, <2>3, SameStates
<1>. QED  BY <1>2, <1>3, OnSubmitSlots, OnCancelSlots, OnShutdownSlots DEF Events

LEMMA SlotInvariant == Spec => [](TypeOK /\ SlotInv)
<1>1. Init => SlotInv
  <2>. SUFFICES ASSUME Init PROVE SlotInv
    OBVIOUS
  <2>1. live = [j \in Jobs |-> Absent] /\ queue = {} /\ todo = {}
    BY DEF Init
  <2>2. pc = "down" /\ slots_used = 0
    BY DEF Init
  <2>3. \A j \in Jobs : live[j].state = "absent" /\ live[j].uses_slot = FALSE
    BY <2>1 DEF Absent
  <2>4. HoldersAreLaunched /\ QueuedWait /\ UnseenAreAbsent /\ CurIsLaunched
    BY <2>1, <2>2, <2>3 DEF HoldersAreLaunched, QueuedWait, UnseenAreAbsent, CurIsLaunched, Live
  <2>5. SlotAccounting
    <3>1. {j \in Jobs : live[j].uses_slot} = {}
      BY <2>3
    <3>2. Cardinality({}) = 0
      BY FS_EmptySet
    <3>3. 0 <= slots_max
      <4>1. kMaxSlots \in Nat /\ slots_max \in 1..kMaxSlots
        BY ConstantsAssumption DEF ConstantsAssumption
      <4>. QED  BY <4>1
    <3>. QED  BY <2>2, <3>1, <3>2, <3>3 DEF SlotAccounting
  <2>. QED  BY <2>4, <2>5 DEF SlotInv
<1>2. TypeOK /\ SlotInv /\ [Next]_vars => SlotInv'
  <2>1. ASSUME TypeOK, SlotInv, UNCHANGED vars PROVE SlotInv'
    BY <2>1, OutsideStep DEF vars, table, walk
  <2>. QED  BY <2>1, CLISlots, LifecycleSlots, LaunchingSlots, ReapingSlots, EventsSlots
            DEF Next, Controller
<1>. QED  BY <1>1, <1>2, TypeCorrect, PTL DEF Spec

-----------------------------------------------------------------------------
(* The theorems. *)

\* slots_used counts exactly the jobs that hold a slot and never passes slots_max, on
\* every path of launch_job, finalize and release_runtime, with failing saves and
\* forks, cancels, deadlines, shutdowns and crashes.
THEOREM SlotsAreCounted == Spec => []SlotAccounting
<1>1. SlotInv => SlotAccounting
  BY DEF SlotInv
<1>. QED  BY <1>1, SlotInvariant, PTL

\* A step of the controller or the CLI rewrites no record that says how a job ended,
\* unless the job is live.
LEMMA SettledStep ==
    ASSUME TypeOK, SlotInv, Next, NEW j \in Jobs, record[j] \in Terminal, j \notin Live
    PROVE  record'[j] = record[j]
<1>1. record \in [Jobs -> States \cup {"none"}]
  BY DEF TypeOK, DiskOK
<1>2. ASSUME NEW k, NEW s, NEW P, Save(k, s, P), k # j PROVE record'[j] = record[j]
  BY <1>1, <1>2 DEF Save
<1>3. /\ record[j] \notin InProgress /\ record[j] \notin Waiting /\ record[j] # "none"
      /\ live[j].state = "absent"
  BY DEF Terminal, InProgress, Waiting, Live
<1>4. CASE CLI
  <2>1. ASSUME NEW k \in Jobs, Submit(k) PROVE record'[j] = record[j]
    <3>1. k # j
      BY <1>3, <2>1 DEF Submit
    <3>. QED  BY <1>1, <2>1, <3>1 DEF Submit
  <2>. QED  BY <1>4, <2>1 DEF CLI, SendSubmit, CancelCommand, disk
<1>5. ASSUME NEW k \in Jobs, Enqueue(k), k # j PROVE record'[j] = record[j]
  BY <1>2, <1>5 DEF Enqueue
<1>6. CASE Lifecycle
  <2>1. ASSUME NEW k \in Jobs, RecoverInProgress(k) PROVE record'[j] = record[j]
    BY <1>2, <1>3, <2>1 DEF RecoverInProgress
  <2>2. ASSUME NEW k \in Jobs, RecoverWaiting(k) PROVE record'[j] = record[j]
    BY <1>3, <1>5, <2>2 DEF RecoverWaiting
  <2>. QED  BY <1>6, <2>1, <2>2
            DEF Lifecycle, Start, Crash, Exit, Forget, RecoverDone, RecoverSettled, disk
<1>7. CASE Launching
  <2>1. ASSUME NEW k \in Jobs, Schedules(k) PROVE k # j
    BY <1>3, <2>1 DEF Schedules, Picked, Queued
  <2>2. ASSUME pc \in {"fork", "launched"} PROVE cur # j
    BY <1>3, <2>2 DEF SlotInv, CurIsLaunched, LaunchedStates
  <2>3. ASSUME NEW k \in Jobs, LaunchFails(k) \/ LaunchStarts(k) PROVE record'[j] = record[j]
    BY <1>2, <2>1, <2>3 DEF LaunchFails, LaunchStarts
  <2>4. CASE ForkFails \/ SaveRunning
    BY <1>2, <2>2, <2>4 DEF ForkFails, SaveRunning
  <2>. QED  BY <1>7, <2>3, <2>4 DEF Launching, ScheduleDone, GiveUp, OpenGate, Fork, disk
<1>8. CASE Reaping
  <2>1. ASSUME NEW z \in Procs, ReapChild(z) PROVE record'[j] = record[j]
    <3>1. PICK k \in Live : NoteReap(z, k, Endings(z, k))
      BY <2>1 DEF ReapChild
    <3>2. Save(k, "persisting", live[k].procs) \/ UNCHANGED disk
      BY <3>1 DEF NoteReap
    <3>. QED  BY <1>2, <3>2 DEF disk
  <2>2. CASE Finish
    <3>1. cur # j
      BY <1>3, <2>2 DEF Finish, SlotInv, CurIsLaunched
    <3>. QED  BY <1>2, <2>2, <3>1 DEF Finish
  <2>. QED  BY <1>8, <2>1, <2>2 DEF Reaping, BeginReap, ReapDone, WriteOutput, ReapUnknown, disk
<1>9. CASE Events
  <2>1. CASE OnSubmit
    <3>. DEFINE k == Head(fifo).job
    <3>1. \/ record[k] \notin Terminal /\ Save(k, "cancelled", meta_procs[k])
          \/ UNCHANGED disk
          \/ record[k] \notin Terminal /\ Enqueue(k)
      BY <2>1 DEF OnSubmit, Queues
    <3>2. k \in Jobs
      <4>1. fifo \in Seq(Lines) /\ fifo # <<>>
        BY <2>1 DEF OnSubmit, TypeOK, CliOK
      <4>2. Head(fifo) \in Lines
        BY <4>1, SeqType
      <4>. QED  BY <4>2 DEF Lines
    <3>. HIDE DEF k
    <3>. QED  BY <1>2, <1>5, <3>1, <3>2 DEF disk
  <2>2. CASE OnCancel
    <3>. DEFINE k == Head(fifo).job
    <3>1. \/ (record[k] \notin Terminal \/ live[k].state = "queued")
             /\ Save(k, "cancelled", meta_procs[k])
          \/ UNCHANGED disk
      BY <2>2 DEF OnCancel, CancelsNotLive
    <3>. HIDE DEF k
    <3>. QED  BY <1>2, <1>3, <3>1 DEF disk
  <2>3. CASE OnShutdown
    <3>1. \E S \in SUBSET queue :
             record' = [k \in Jobs |-> IF k \in S THEN "cancelled" ELSE record[k]]
      BY <2>3 DEF OnShutdown
    <3>2. j \notin queue
      BY <1>3 DEF SlotInv, QueuedWait
    <3>. QED  BY <3>1, <3>2
  <2>. QED  BY <1>9, <2>1, <2>2, <2>3 DEF Events, OnDeadline, OnTick, disk
<1>10. CASE Processes
  BY <1>10 DEF Processes, Worker, PassGate, Becomes, WorkerOutput, Publish, ExitZero, FailChunk,
              Die, Ends, Stranger, disk
<1>. QED  BY <1>4, <1>6, <1>7, <1>8, <1>9, <1>10 DEF Next, Controller

\* The record of a job that has ended and is not live never changes again: late lines
\* of the fifo, restarts and shutdowns leave it alone.
THEOREM OutcomesAreKept == Spec => SettledStays
<1>1. /\ TypeOK /\ SlotInv /\ [Next]_vars
      => [\A j \in Jobs : record[j] \in Terminal /\ j \notin Live => record'[j] = record[j]]_vars
  BY SettledStep
<1>. QED  BY <1>1, SlotInvariant, PTL DEF Spec, SettledStays

-----------------------------------------------------------------------------
(* The output of a completed job: finalize is about to say "completed" only of *)
(* a job whose output it wrote or found.                                       *)

OutputInv ==
    /\ CompletedHasOutput
    /\ pc = "finish" /\ outcome = "completed" /\ Op[cur] # "exec" => output[cur]

\* Nothing removes an output.
LEMMA OutputStays ==
    ASSUME TypeOK, Next, NEW j \in Jobs, output[j] PROVE output'[j]
<1>1. output \in [Jobs -> BOOLEAN]
  BY DEF TypeOK, DiskOK
<1>2. ASSUME NEW k, NEW s, NEW P, Save(k, s, P) PROVE output' = output
  BY <1>2 DEF Save
<1>3. ASSUME NEW k, output' = [output EXCEPT ![k] = TRUE] PROVE output'[j]
  BY <1>1, <1>3
<1>4. CASE CLI
  BY <1>4 DEF CLI, Submit, SendSubmit, CancelCommand, disk
<1>5. ASSUME NEW k, Enqueue(k) PROVE output' = output
  BY <1>2, <1>5 DEF Enqueue
<1>6. CASE Lifecycle
  <2>1. ASSUME NEW k \in Jobs, RecoverInProgress(k) \/ RecoverWaiting(k) PROVE output' = output
    BY <1>2, <1>5, <2>1 DEF RecoverInProgress, RecoverWaiting
  <2>. QED  BY <1>6, <2>1 DEF Lifecycle, Start, Crash, Exit, Forget, RecoverDone, RecoverSettled, disk
<1>7. CASE Launching
  <2>1. ASSUME NEW k \in Jobs, LaunchFails(k) \/ LaunchStarts(k) PROVE output' = output
    BY <1>2, <2>1 DEF LaunchFails, LaunchStarts
  <2>2. CASE ForkFails \/ SaveRunning
    BY <1>2, <2>2 DEF ForkFails, SaveRunning
  <2>. QED  BY <1>7, <2>1, <2>2 DEF Launching, ScheduleDone, GiveUp, OpenGate, Fork, disk
<1>8. CASE Reaping
  <2>1. ASSUME NEW z \in Procs, ReapChild(z) PROVE output' = output
    BY <1>2, <2>1 DEF ReapChild, NoteReap, disk
  <2>2. CASE WriteOutput
    <3>1. output' \in {output, [output EXCEPT ![cur] = TRUE]}
      BY <2>2 DEF WriteOutput
    <3>. QED  BY <1>3, <3>1
  <2>3. CASE Finish
    BY <1>2, <2>3 DEF Finish
  <2>. QED  BY <1>8, <2>1, <2>2, <2>3 DEF Reaping, BeginReap, ReapDone, ReapUnknown, disk
<1>9. CASE Events
  <2>1. CASE OnSubmit
    BY <1>2, <1>5, <2>1 DEF OnSubmit, disk
  <2>2. CASE OnCancel
    BY <1>2, <2>2 DEF OnCancel, disk
  <2>. QED  BY <1>9, <2>1, <2>2 DEF Events, OnShutdown, OnDeadline, OnTick, disk
<1>10. CASE Processes
  <2>1. ASSUME NEW p \in Procs, WorkerOutput(p) PROVE output'[j]
    BY <1>3, <2>1 DEF WorkerOutput
  <2>. QED  BY <1>10, <2>1 DEF Processes, Worker, PassGate, Becomes, Publish, ExitZero, FailChunk,
                              Die, Ends, Stranger, disk
<1>. QED  BY <1>4, <1>6, <1>7, <1>8, <1>9, <1>10 DEF Next, Controller

\* Only finalize writes "completed".
LEMMA OnlyFinishCompletes ==
    ASSUME TypeOK, Next, NEW j \in Jobs, record'[j] = "completed", record[j] # "completed"
    PROVE  Finish /\ cur = j /\ outcome = "completed"
<1>1. record \in [Jobs -> States \cup {"none"}]
  BY DEF TypeOK, DiskOK
<1>2. ASSUME NEW k, NEW s, NEW P, Save(k, s, P) PROVE k = j /\ s = "completed"
  BY <1>1, <1>2 DEF Save
<1>3. CASE CLI
  <2>1. ASSUME NEW k \in Jobs, Submit(k) PROVE FALSE
    BY <1>1, <2>1 DEF Submit
  <2>. QED  BY <1>3, <2>1 DEF CLI, SendSubmit, CancelCommand, disk
<1>4. ASSUME NEW k, Enqueue(k) PROVE FALSE
  BY <1>2, <1>4 DEF Enqueue
<1>5. CASE Lifecycle
  <2>1. ASSUME NEW k \in Jobs, RecoverInProgress(k) \/ RecoverWaiting(k) PROVE FALSE
    BY <1>2, <1>4, <2>1 DEF RecoverInProgress, RecoverWaiting
  <2>. QED  BY <1>5, <2>1 DEF Lifecycle, Start, Crash, Exit, Forget, RecoverDone, RecoverSettled, disk
<1>6. CASE Launching
  <2>1. ASSUME NEW k \in Jobs, LaunchFails(k) \/ LaunchStarts(k) PROVE FALSE
    BY <1>2, <2>1 DEF LaunchFails, LaunchStarts
  <2>2. ASSUME ForkFails \/ SaveRunning PROVE FALSE
    BY <1>2, <2>2 DEF ForkFails, SaveRunning
  <2>. QED  BY <1>6, <2>1, <2>2 DEF Launching, ScheduleDone, GiveUp, OpenGate, Fork, disk
<1>7. CASE Reaping
  <2>1. ASSUME NEW z \in Procs, ReapChild(z) PROVE FALSE
    BY <1>2, <2>1 DEF ReapChild, NoteReap, disk
  <2>2. CASE Finish
    BY <1>2, <2>2 DEF Finish
  <2>. QED  BY <1>7, <2>1, <2>2 DEF Reaping, BeginReap, ReapDone, WriteOutput, ReapUnknown, disk
<1>8. CASE Events
  <2>1. ASSUME OnSubmit PROVE FALSE
    BY <1>2, <1>4, <2>1 DEF OnSubmit, disk
  <2>2. ASSUME OnCancel PROVE FALSE
    BY <1>2, <2>2 DEF OnCancel, disk
  <2>3. ASSUME OnShutdown PROVE FALSE
    <3>1. \E S : record' = [k \in Jobs |-> IF k \in S THEN "cancelled" ELSE record[k]]
      BY <2>3 DEF OnShutdown
    <3>. QED  BY <3>1
  <2>. QED  BY <1>8, <2>1, <2>2, <2>3 DEF Events, OnDeadline, OnTick, disk
<1>9. CASE Processes
  BY <1>9 DEF Processes, Worker, PassGate, Becomes, WorkerOutput, Publish, ExitZero, FailChunk,
              Die, Ends, Stranger, disk
<1>. QED  BY <1>3, <1>5, <1>6, <1>7, <1>8, <1>9 DEF Next, Controller

LEMMA OutputStep == TypeOK /\ OutputInv /\ Next => OutputInv'
<1>. SUFFICES ASSUME TypeOK, OutputInv, Next PROVE OutputInv'
  OBVIOUS
<1>1. CompletedHasOutput'
  <2>1. SUFFICES ASSUME NEW j \in Jobs, record'[j] = "completed", Op[j] # "exec"
                 PROVE  output'[j]
    BY DEF CompletedHasOutput
  <2>2. output[j]
    <3>1. CASE record[j] = "completed"
      BY <2>1, <3>1 DEF OutputInv, CompletedHasOutput
    <3>2. CASE record[j] # "completed"
      BY <2>1, <3>2, OnlyFinishCompletes DEF OutputInv, Finish
    <3>. QED  BY <3>1, <3>2
  <2>. QED  BY <2>2, OutputStays
<1>2. ASSUME pc' = "finish", outcome' = "completed", Op[cur'] # "exec" PROVE output'[cur']
  <2>1. CASE UNCHANGED walk
    <3>1. output[cur] /\ cur \in Jobs /\ cur' = cur
      BY <1>2, <2>1 DEF walk, OutputInv, TypeOK, WalkOK
    <3>. QED  BY <3>1, OutputStays
  <2>2. CASE WriteOutput
    <3>1. output' = [output EXCEPT ![cur] = TRUE] /\ cur' = cur /\ cur \in Jobs
      BY <1>2, <2>2 DEF WriteOutput, TypeOK, WalkOK
    <3>. QED  BY <3>1 DEF TypeOK, DiskOK
  <2>3. ASSUME NEW z \in Procs, ReapChild(z) PROVE output'[cur']
    <3>1. PICK j \in Live : NoteReap(z, j, Endings(z, j))
      BY <2>3 DEF ReapChild
    <3>. DEFINE ended == Endings(z, j)
    <3>2. cur' = j /\ ~Body(j, ended) /\ output' = output
      BY <1>2, <3>1 DEF NoteReap, disk
    <3>3. Ok(j, ended)
      BY <1>2, <3>1 DEF NoteReap, StoppedAs
    <3>4. Op[j] \in Ops /\ Op[j] # "exec"
      BY <1>2, <3>2, ConstantsAssumption DEF ConstantsAssumption, Live
    <3>5. Op[j] = "copy"
      BY <3>2, <3>3, <3>4 DEF Body, HasBody, Ops
    <3>. QED  BY <3>2, <3>3, <3>5 DEF Ok, ResultsOk
  <2>4. CASE CLI \/ Processes
    BY <2>1, <2>4 DEF CLI, Submit, SendSubmit, CancelCommand, Processes, Worker, PassGate, Becomes,
                      WorkerOutput, Publish, ExitZero, FailChunk, Die, Ends, Stranger
  <2>5. CASE Lifecycle
    BY <1>2, <2>5 DEF Lifecycle, Start, Crash, Exit, Forget, RecoverDone, RecoverInProgress,
                      RecoverWaiting, RecoverSettled
  <2>6. CASE Launching
    BY <1>2, <2>6 DEF Launching, ScheduleDone, GiveUp, LaunchFails, LaunchStarts, Schedules, Fork,
                      ForkFails, OpenGate, SaveRunning, walk
  <2>7. CASE Reaping
    BY <1>2, <2>2, <2>3, <2>7 DEF Reaping, BeginReap, ReapDone, Finish, ReapUnknown, walk
  <2>8. CASE Events
    BY <1>2, <2>8 DEF Events, OnSubmit, OnCancel, OnShutdown, OnDeadline, OnTick, walk
  <2>. QED  BY <2>4, <2>5, <2>6, <2>7, <2>8 DEF Next, Controller
<1>. QED  BY <1>1, <1>2 DEF OutputInv

\* A record says "completed" only when the output is there, for the jobs whose output
\* finalize writes or results_ok looks for, whatever fails or crashes.
THEOREM CompletedJobsHaveOutput == Spec => []CompletedHasOutput
<1>1. Init => OutputInv
  BY DEF Init, OutputInv, CompletedHasOutput
<1>2. TypeOK /\ OutputInv /\ [Next]_vars => OutputInv'
  <2>1. OutputInv /\ UNCHANGED vars => OutputInv'
    BY DEF vars, disk, walk, OutputInv, CompletedHasOutput
  <2>. QED  BY <2>1, OutputStep
<1>3. OutputInv => CompletedHasOutput
  BY DEF OutputInv
<1>. QED  BY <1>1, <1>2, <1>3, TypeCorrect, PTL DEF Spec

-----------------------------------------------------------------------------
(* What is always true of the processes, even where the kernel reuses pids. *)

\* FreePids gives the pid of p to no other process.
PidTaken(p) == proc[p].phase # "unborn" /\ (ReusePids => HasPid(p))

UnbornAreNobodys == \A p \in Procs : proc[p].phase = "unborn" => proc[p].job = 0 /\ ~proc[p].child

PidsAreReal == \A p \in Procs : HasPid(p) => proc[p].pid \in Pids

PidsAreDistinct ==
    \A p, q \in Procs : PidTaken(p) /\ PidTaken(q) /\ proc[p].pid = proc[q].pid => p = q

\* wait4 was called for a worker whose ending is known, and told how it ended.
ReapedAreGone ==
    \A p \in Procs : how[p] # "" => proc[p].phase = "gone" /\ how[p] = proc[p].exit

\* The workers of a job are its own, and were alive together.
WorkersAreTheJobs ==
    \A j \in Jobs : \A p \in live[j].procs :
        /\ live[j].uses_slot /\ proc[p].job = j /\ proc[p].child /\ proc[p].phase # "unborn"
        /\ \A q \in live[j].procs : proc[p].pid = proc[q].pid => p = q

ChildrenHaveJobs ==
    \A p \in Procs : proc[p].child /\ HasPid(p) =>
        /\ proc[p].job \in Jobs
        /\ \/ pc = "fork" /\ proc[p].job = cur
           \/ p \in live[proc[p].job].procs

\* pid_owner never names another job than the one of a worker not reaped yet.
OwnersAreRight ==
    \A p \in Procs : \A j \in Jobs : HasPid(p) /\ p \in live[j].procs =>
        pid_owner[proc[p].pid] \in {0, j}

LastIsReaped == pc \in {"output", "finish"} => \A p \in live[cur].procs : how[p] # ""

ProcInv == /\ UnbornAreNobodys /\ PidsAreReal /\ PidsAreDistinct /\ ReapedAreGone
           /\ WorkersAreTheJobs /\ ChildrenHaveJobs /\ OwnersAreRight /\ LastIsReaped

-----------------------------------------------------------------------------
(* Most steps change of a process at most its phase, its signal and what it  *)
(* published, take a pid only from an orphan or a stranger that ends, and    *)
(* move no worker from one job to another.                                   *)

SameIdentity(p) ==
    /\ proc'[p].pid = proc[p].pid /\ proc'[p].job = proc[p].job
    /\ proc'[p].child = proc[p].child

SameProcesses ==
    \A p \in Procs : /\ SameIdentity(p)
                     /\ proc'[p].phase = "unborn" <=> proc[p].phase = "unborn"
                     /\ proc[p].phase \in {"unborn", "gone"} => proc'[p] = proc[p]
                     /\ HasPid(p)' => HasPid(p)
                     /\ proc[p].child /\ HasPid(p) => HasPid(p)'

SameWorkers ==
    \A j \in Jobs : /\ live'[j].procs = live[j].procs
                    /\ live'[j].uses_slot = live[j].uses_slot

SamePlace ==
    /\ pc = "fork" => pc' = "fork" /\ cur' = cur
    /\ pc' \in {"output", "finish"} <=> pc \in {"output", "finish"}
    /\ pc \in {"output", "finish"} => cur' = cur

QuietStep == SameProcesses /\ SameWorkers /\ SamePlace /\ UNCHANGED <<how, pid_owner>>

LEMMA QuietStepKeeps ==
    ASSUME TypeOK, TypeOK', ProcInv, QuietStep PROVE ProcInv'
<1>1. /\ \A j \in Jobs : live[j].procs \subseteq Procs
      /\ \A p \in Procs : /\ proc[p].phase # "unborn" <=> proc'[p].phase # "unborn"
                          /\ SameIdentity(p)
      /\ pc \in {"output", "finish"} => cur \in Jobs
  BY DEF TypeOK, TableOK, LiveJobs, WalkOK, QuietStep, SameProcesses
<1>2. UnbornAreNobodys' /\ PidsAreReal'
  BY DEF ProcInv, UnbornAreNobodys, PidsAreReal, QuietStep, SameProcesses, SameIdentity
<1>3. PidsAreDistinct'
  <2>1. \A p \in Procs : PidTaken(p)' => PidTaken(p)
    BY DEF PidTaken, QuietStep, SameProcesses
  <2>. QED  BY <1>1, <2>1 DEF ProcInv, PidsAreDistinct, SameIdentity
<1>4. ReapedAreGone'
  BY DEF ProcInv, ReapedAreGone, QuietStep, SameProcesses
<1>5. WorkersAreTheJobs'
  BY <1>1 DEF ProcInv, WorkersAreTheJobs, QuietStep, SameWorkers, SameIdentity
<1>6. ChildrenHaveJobs'
  BY <1>1 DEF ProcInv, ChildrenHaveJobs, QuietStep, SameProcesses, SameWorkers, SamePlace,
              SameIdentity
<1>7. OwnersAreRight'
  BY <1>1 DEF ProcInv, OwnersAreRight, QuietStep, SameProcesses, SameWorkers, SameIdentity
<1>8. LastIsReaped'
  BY <1>1 DEF ProcInv, LastIsReaped, QuietStep, SameWorkers, SamePlace
<1>. QED  BY <1>2, <1>3, <1>4, <1>5, <1>6, <1>7, <1>8 DEF ProcInv

LEMMA KillIsQuiet ==
    ASSUME TypeOK, NEW S, NEW s, proc' = Kill(S, s) PROVE SameProcesses
<1>. SUFFICES ASSUME NEW p \in Procs
              PROVE  /\ SameIdentity(p)
                     /\ proc'[p].phase = proc[p].phase
                     /\ proc[p].phase \in {"unborn", "gone"} => proc'[p] = proc[p]
  BY DEF SameProcesses, HasPid, Alive
<1>1. proc[p] \in ProcessTable
  BY DEF TypeOK, ProcOK
<1>2. \/ proc'[p] = proc[p]
      \/ Alive(p) /\ proc'[p] = [proc[p] EXCEPT !.sig = s]
  BY DEF Kill
<1>. QED  BY <1>1, <1>2 DEF SameIdentity, ProcessTable, Alive

LEMMA NoProcessMoves == TypeOK /\ proc' = proc => SameProcesses
BY DEF SameProcesses, SameIdentity, HasPid, Alive

LEMMA OneProcessMoves ==
    ASSUME TypeOK, NEW p \in Procs, Alive(p), NEW r, proc' = [proc EXCEPT ![p] = r],
           r.pid = proc[p].pid, r.job = proc[p].job, r.child = proc[p].child,
           \/ r.phase \in {"work", "wrote", "published"}
           \/ r.phase = IF proc[p].child THEN "zombie" ELSE "gone"
    PROVE  SameProcesses
<1>1. proc'[p] = r /\ \A q \in Procs \ {p} : proc'[q] = proc[q]
  BY DEF TypeOK, ProcOK
<1>. QED  BY <1>1 DEF SameProcesses, SameIdentity, HasPid, Alive

\* What a process does by itself, or what befalls it.
LEMMA WorkerIsQuiet ==
    ASSUME TypeOK, NEW p \in Procs, Worker(p) \/ Die(p) PROVE SameProcesses
<1>1. proc[p] \in ProcessTable
  BY DEF TypeOK, ProcOK
<1>2. ASSUME NEW f \in {"work", "wrote"}, Alive(p), proc' = [proc EXCEPT ![p].phase = f]
      PROVE  SameProcesses
  <2>. DEFINE n == [proc[p] EXCEPT !.phase = f]
  <2>1. proc' = [proc EXCEPT ![p] = n]
    BY <1>2
  <2>2. n.pid = proc[p].pid /\ n.job = proc[p].job /\ n.child = proc[p].child /\ n.phase = f
    BY <1>1 DEF ProcessTable
  <2>. HIDE DEF n
  <2>. QED  BY <1>2, <2>1, <2>2, OneProcessMoves
<1>3. ASSUME NEW e, NEW c, Alive(p), Ends(p, e, c) PROVE SameProcesses
  <2>. DEFINE f == IF proc[p].child THEN "zombie" ELSE "gone"
  <2>. DEFINE n == [proc[p] EXCEPT !.exit = e, !.chunk = c, !.sig = "none", !.phase = f]
  <2>1. proc' = [proc EXCEPT ![p] = n]
    BY <1>3 DEF Ends
  <2>2. n.pid = proc[p].pid /\ n.job = proc[p].job /\ n.child = proc[p].child /\ n.phase = f
    BY <1>1 DEF ProcessTable
  <2>. HIDE DEF n
  <2>. QED  BY <1>3, <2>1, <2>2, OneProcessMoves
<1>4. CASE PassGate(p)
  BY <1>2, <1>4 DEF PassGate, Becomes, Alive
<1>5. CASE WorkerOutput(p)
  BY <1>2, <1>5, NoProcessMoves DEF WorkerOutput, Alive
<1>6. CASE Publish(p)
  <2>1. proc' = [proc EXCEPT ![p] = [proc[p] EXCEPT !.phase = "published", !.chunk = "ok"]]
    BY <1>6 DEF Publish
  <2>2. \A r \in ProcessTable : LET n == [r EXCEPT !.phase = "published", !.chunk = "ok"] IN
            n.pid = r.pid /\ n.job = r.job /\ n.child = r.child /\ n.phase = "published"
    BY DEF ProcessTable
  <2>3. Alive(p)
    BY <1>6 DEF Publish, Alive
  <2>. QED  BY <1>1, <2>1, <2>2, <2>3, OneProcessMoves
<1>7. CASE ExitZero(p) \/ FailChunk(p) \/ Die(p)
  BY <1>3, <1>7 DEF ExitZero, FailChunk, Die, Alive
<1>. QED  BY <1>4, <1>5, <1>6, <1>7 DEF Worker

\* What the table keeps of the workers.
LEMMA NoWorkerMoves == live' = live => SameWorkers
BY DEF SameWorkers

\* request_stop, and the flags of on_deadline and on_tick, leave the workers alone.
LEMMA WithReasonKeepsWorkers ==
    ASSUME TypeOK, NEW S, NEW reason, NEW j \in Jobs
    PROVE  /\ WithReason(S, reason)[j].procs = live[j].procs
           /\ WithReason(S, reason)[j].uses_slot = live[j].uses_slot
           /\ WithReason(S, reason)[j].state = live[j].state
<1>1. live[j] \in LiveJobs
  BY DEF TypeOK, TableOK
<1>2. WithReason(S, reason)[j] \in {live[j], [live[j] EXCEPT !.stop_reason = reason]}
  BY DEF WithReason
<1>. QED  BY <1>1, <1>2 DEF LiveJobs

\* A job without a slot has no workers, so that it may come and go.
LEMMA NoSlotNoWorkers ==
    ASSUME TypeOK, SlotInv, ProcInv, NEW j \in Jobs, ~live[j].uses_slot
    PROVE  live[j].procs = {} /\ live[j].uses_slot = FALSE
<1>1. live[j].uses_slot = FALSE /\ live[j].procs \subseteq Procs
  BY DEF TypeOK, TableOK, LiveJobs
<1>. QED  BY <1>1 DEF ProcInv, WorkersAreTheJobs

LEMMA OneJobMoves ==
    ASSUME TypeOK, SlotInv, ProcInv, NEW j \in Jobs, ~live[j].uses_slot,
           NEW r, live' = [live EXCEPT ![j] = r], r.procs = {}, r.uses_slot = FALSE
    PROVE  SameWorkers
<1>1. live'[j] = r /\ \A k \in Jobs \ {j} : live'[k] = live[k]
  BY DEF TypeOK, TableOK
<1>. QED  BY <1>1, NoSlotNoWorkers DEF SameWorkers

LEMMA EnqueueIsQuiet ==
    ASSUME TypeOK, SlotInv, ProcInv, NEW j \in Jobs, live[j].state = "absent", Enqueue(j)
    PROVE  SameWorkers /\ UNCHANGED <<how, pid_owner>>
<1>1. ~live[j].uses_slot
  BY DEF SlotInv, HoldersAreLaunched, LaunchedStates
<1>2. CASE j \in Malformed
  BY <1>2, NoWorkerMoves DEF Enqueue
<1>3. CASE j \notin Malformed
  <2>1. live' = [live EXCEPT ![j] = [Absent EXCEPT !.state = "queued"]]
    BY <1>3 DEF Enqueue
  <2>2. /\ [Absent EXCEPT !.state = "queued"].procs = {}
        /\ [Absent EXCEPT !.state = "queued"].uses_slot = FALSE
    BY DEF Absent
  <2>3. SameWorkers
    BY <1>1, <2>1, <2>2, OneJobMoves
  <2>. QED  BY <2>3 DEF Enqueue
<1>. QED  BY <1>2, <1>3

Loud ==
    \/ Crash \/ Exit \/ ForkFails \/ OpenGate \/ Finish
    \/ \E p \in Procs, x \in Pids : Fork(p, x) \/ Stranger(p, x)
    \/ \E z \in Procs : ReapUnknown(z) \/ ReapChild(z)

LEMMA GiveUpFacts ==
    ASSUME TypeOK, GiveUp
    PROVE  /\ UNCHANGED <<disk, cli, table, walk>>
           /\ \A p \in Procs : /\ SameIdentity(p) /\ proc'[p].sig = proc[p].sig
                               /\ proc'[p].phase = proc[p].phase
                               /\ proc'[p].exit = proc[p].exit /\ proc'[p].chunk = proc[p].chunk
                               /\ ~HasPid(p) => proc'[p] = proc[p]
<1>1. UNCHANGED <<disk, cli, table, walk>>
  BY DEF GiveUp
<1>. SUFFICES ASSUME NEW p \in Procs
              PROVE  /\ SameIdentity(p) /\ proc'[p].sig = proc[p].sig
                     /\ proc'[p].phase = proc[p].phase
                     /\ proc'[p].exit = proc[p].exit /\ proc'[p].chunk = proc[p].chunk
                     /\ ~HasPid(p) => proc'[p] = proc[p]
  BY <1>1
<1>2. proc'[p] = IF p \in Spawned THEN [proc[p] EXCEPT !.gate = TRUE] ELSE proc[p]
  BY DEF GiveUp
<1>3. p \in Spawned => HasPid(p)
  BY DEF Spawned
<1>. QED  BY <1>2, <1>3 DEF SameIdentity, TypeOK, ProcOK, ProcessTable

LEMMA ControllerIsQuiet ==
    ASSUME TypeOK, SlotInv, ProcInv, Lifecycle \/ Launching \/ Reaping, ~Loud PROVE QuietStep
<1>1. live \in [Jobs -> LiveJobs]
  BY DEF TypeOK, TableOK
<1>2. CASE Start \/ RecoverDone \/ ScheduleDone \/ BeginReap \/ ReapDone \/ WriteOutput
  <2>1. proc' = proc /\ live' = live /\ UNCHANGED <<how, pid_owner>>
    BY <1>2 DEF Start, RecoverDone, ScheduleDone, BeginReap, ReapDone, WriteOutput, table
  <2>2. SamePlace
    BY <1>2 DEF SamePlace, Start, RecoverDone, ScheduleDone, BeginReap, ReapDone, WriteOutput
  <2>. QED  BY <2>1, <2>2, NoProcessMoves, NoWorkerMoves DEF QuietStep
<1>3. ASSUME NEW j \in Jobs, RecoverInProgress(j) \/ RecoverSettled(j) PROVE QuietStep
  <2>1. SameProcesses
    BY <1>3, KillIsQuiet, NoProcessMoves DEF RecoverInProgress, RecoverSettled
  <2>2. SamePlace
    BY <1>3 DEF SamePlace, RecoverInProgress, RecoverSettled
  <2>. QED  BY <1>3, <2>1, <2>2, NoWorkerMoves
            DEF QuietStep, RecoverInProgress, RecoverSettled, table
<1>4. ASSUME NEW j \in Jobs, RecoverWaiting(j) PROVE QuietStep
  <2>1. live[j].state = "absent"
    BY <1>4 DEF RecoverWaiting, NextToRecover, SlotInv, UnseenAreAbsent
  <2>2. SamePlace
    BY <1>4 DEF SamePlace, RecoverWaiting
  <2>. QED  BY <1>4, <2>1, <2>2, NoProcessMoves, EnqueueIsQuiet DEF QuietStep, RecoverWaiting
<1>5. ASSUME NEW j \in Jobs, Schedules(j) PROVE pc = "schedule" /\ ~live[j].uses_slot
  BY <1>5 DEF Schedules, Picked, Queued, SlotInv, QueuedWait
<1>6. ASSUME NEW j \in Jobs, LaunchFails(j) PROVE QuietStep
  <2>1. live' = [live EXCEPT ![j] = Absent] /\ pc = "schedule" /\ pc' = pc
    BY <1>5, <1>6 DEF LaunchFails, walk
  <2>2. SameWorkers
    <3>1. ~live[j].uses_slot
      BY <1>5, <1>6 DEF LaunchFails
    <3>2. Absent.procs = {} /\ Absent.uses_slot = FALSE
      BY DEF Absent
    <3>. QED  BY <2>1, <3>1, <3>2, OneJobMoves
  <2>. QED  BY <1>6, <2>1, <2>2, NoProcessMoves DEF QuietStep, SamePlace, LaunchFails
<1>7. ASSUME NEW j \in Jobs, live' = [live EXCEPT ![j].state = "starting"]
      PROVE  SameWorkers
  BY <1>1, <1>7 DEF SameWorkers, LiveJobs
<1>8. ASSUME NEW j \in Jobs, LaunchStarts(j) PROVE QuietStep
  BY <1>5, <1>7, <1>8, NoProcessMoves DEF QuietStep, SamePlace, LaunchStarts
<1>9. CASE SaveRunning
  <2>1. cur \in Jobs
    BY <1>9 DEF SaveRunning, TypeOK, WalkOK
  <2>2. SameWorkers
    BY <1>1, <1>9, <2>1 DEF SaveRunning, SameWorkers, LiveJobs
  <2>. QED  BY <1>9, <2>2, NoProcessMoves DEF QuietStep, SamePlace, SaveRunning
<1>10. CASE GiveUp
  <2>1. SameProcesses
    BY <1>10, GiveUpFacts DEF SameProcesses, HasPid, Alive
  <2>. QED  BY <1>10, <2>1, GiveUpFacts, NoWorkerMoves DEF QuietStep, SamePlace, table, walk
<1>. QED  BY <1>2, <1>3, <1>4, <1>6, <1>8, <1>9, <1>10 DEF Loud, Lifecycle, Launching, Reaping

LEMMA EventsAreQuiet ==
    ASSUME TypeOK, SlotInv, ProcInv, Events PROVE QuietStep
<1>1. live \in [Jobs -> LiveJobs]
  BY DEF TypeOK, TableOK
<1>2. CASE OnSubmit
  <2>. DEFINE j == Head(fifo).job
  <2>1. j \in Jobs
    <3>1. fifo \in Seq(Lines) /\ fifo # <<>>
      BY <1>2 DEF OnSubmit, TypeOK, CliOK
    <3>2. Head(fifo) \in Lines
      BY <3>1, SeqType
    <3>. QED  BY <3>2 DEF Lines
  <2>2. /\ pc = "loop" /\ pc' \in {"loop", "schedule"} /\ proc' = proc
        /\ UNCHANGED table \/ (j \notin Live /\ Enqueue(j))
    BY <1>2 DEF OnSubmit, Queues
  <2>. HIDE DEF j
  <2>3. SameWorkers /\ UNCHANGED <<how, pid_owner>>
    BY <2>1, <2>2, NoWorkerMoves, EnqueueIsQuiet DEF table, Live
  <2>. QED  BY <2>2, <2>3, NoProcessMoves DEF QuietStep, SamePlace
<1>3. CASE OnCancel
  <2>. DEFINE j == Head(fifo).job
  <2>1. j \in Jobs
    <3>1. fifo \in Seq(Lines) /\ fifo # <<>>
      BY <1>3 DEF OnCancel, TypeOK, CliOK
    <3>2. Head(fifo) \in Lines
      BY <3>1, SeqType
    <3>. QED  BY <3>2 DEF Lines
  <2>2. /\ pc = "loop" /\ pc' = "loop" /\ UNCHANGED <<how, pid_owner>>
        /\ proc' \in {proc, Terminated({j})}
        /\ \/ live' = live
           \/ live[j].state = "queued" /\ live' = [live EXCEPT ![j] = Absent]
           \/ live' = WithReason({j}, "cancelled")
    BY <1>3 DEF OnCancel, walk
  <2>. HIDE DEF j
  <2>3. SameWorkers
    <3>1. live[j].state = "queued" => ~live[j].uses_slot
      BY <2>1 DEF SlotInv, HoldersAreLaunched, LaunchedStates
    <3>2. Absent.procs = {} /\ Absent.uses_slot = FALSE
      BY DEF Absent
    <3>3. CASE live[j].state = "queued" /\ live' = [live EXCEPT ![j] = Absent]
      BY <2>1, <3>1, <3>2, <3>3, OneJobMoves
    <3>4. CASE live' = WithReason({j}, "cancelled")
      BY <3>4, WithReasonKeepsWorkers DEF SameWorkers
    <3>. QED  BY <2>2, <3>3, <3>4, NoWorkerMoves
  <2>4. SameProcesses
    BY <2>2, KillIsQuiet, NoProcessMoves DEF Terminated
  <2>. QED  BY <2>2, <2>3, <2>4 DEF QuietStep, SamePlace
<1>4. CASE OnShutdown
  <2>1. \A j \in queue : j \in Jobs /\ ~live[j].uses_slot
    BY DEF SlotInv, QueuedWait, TypeOK, TableOK
  <2>2. \A j \in queue : live[j].procs = {} /\ live[j].uses_slot = FALSE
    BY <2>1, NoSlotNoWorkers
  <2>3. \A j \in Jobs : live'[j] = IF j \in queue THEN Absent ELSE WithReason(Live, "shutdown")[j]
    BY <1>4 DEF OnShutdown
  <2>4. Absent.procs = {} /\ Absent.uses_slot = FALSE
    BY DEF Absent
  <2>5. SameWorkers
    <3>1. ASSUME NEW j \in Jobs, j \in queue
          PROVE  live'[j].procs = live[j].procs /\ live'[j].uses_slot = live[j].uses_slot
      BY <2>2, <2>3, <2>4, <3>1
    <3>2. ASSUME NEW j \in Jobs, j \notin queue
          PROVE  live'[j].procs = live[j].procs /\ live'[j].uses_slot = live[j].uses_slot
      BY <2>3, <3>2, WithReasonKeepsWorkers
    <3>. QED  BY <3>1, <3>2 DEF SameWorkers
  <2>6. SameProcesses /\ UNCHANGED <<how, pid_owner>> /\ pc = "loop" /\ pc' = pc
    BY <1>4, KillIsQuiet DEF OnShutdown, Terminated, walk
  <2>. QED  BY <2>5, <2>6 DEF QuietStep, SamePlace
<1>5. ASSUME NEW j \in Jobs, OnDeadline(j) PROVE QuietStep
  <2>1. WithReason({j}, "timed_out") \in [Jobs -> LiveJobs]
    BY WithReasonType DEF TypeOK
  <2>2. SameWorkers
    <3>1. \A r \in LiveJobs : LET n == [r EXCEPT !.deadline_id = FALSE] IN
              n.procs = r.procs /\ n.uses_slot = r.uses_slot
      BY DEF LiveJobs
    <3>2. \A k \in Jobs : /\ live'[k].procs = WithReason({j}, "timed_out")[k].procs
                          /\ live'[k].uses_slot = WithReason({j}, "timed_out")[k].uses_slot
      BY <1>5, <2>1, <3>1 DEF OnDeadline
    <3>. QED  BY <3>2, WithReasonKeepsWorkers DEF SameWorkers
  <2>3. SameProcesses /\ UNCHANGED <<how, pid_owner>> /\ pc = "loop" /\ pc' = pc
    BY <1>5, KillIsQuiet DEF OnDeadline, Terminated, walk
  <2>. QED  BY <2>2, <2>3 DEF QuietStep, SamePlace
<1>6. ASSUME NEW j \in Jobs, OnTick(j) PROVE QuietStep
  <2>1. SameWorkers
    BY <1>1, <1>6 DEF OnTick, SameWorkers, LiveJobs
  <2>2. SameProcesses /\ UNCHANGED <<how, pid_owner>> /\ pc = "loop" /\ pc' = pc
    BY <1>6, KillIsQuiet DEF OnTick, walk
  <2>. QED  BY <2>1, <2>2 DEF QuietStep, SamePlace
<1>. QED  BY <1>2, <1>3, <1>4, <1>5, <1>6 DEF Events

LEMMA MostStepsAreQuiet ==
    ASSUME TypeOK, SlotInv, ProcInv, Next PROVE QuietStep \/ Loud
<1>1. CASE CLI
  <2>1. proc' = proc /\ UNCHANGED <<table, walk>>
    BY <1>1 DEF CLI, Submit, SendSubmit, CancelCommand
  <2>. QED  BY <2>1, NoProcessMoves, NoWorkerMoves DEF QuietStep, SamePlace, table, walk
<1>2. ASSUME NEW p \in Procs, Worker(p) \/ Die(p) PROVE QuietStep
  <2>1. UNCHANGED <<table, walk>>
    BY <1>2 DEF Worker, PassGate, Becomes, WorkerOutput, Publish, ExitZero, FailChunk, Die, Ends
  <2>. QED  BY <1>2, <2>1, WorkerIsQuiet, NoWorkerMoves DEF QuietStep, SamePlace, table, walk
<1>3. CASE Processes
  BY <1>2, <1>3 DEF Processes, Loud
<1>. QED  BY <1>1, <1>3, ControllerIsQuiet, EventsAreQuiet DEF Next, Controller

-----------------------------------------------------------------------------
(* The other steps, one lemma each. *)

\* A process is born, with a pid nobody goes by.
LEMMA BirthFacts ==
    ASSUME TypeOK, ProcInv, NEW p \in Procs, NEW x \in FreePids, NextBorn(p),
           NEW r, proc' = [proc EXCEPT ![p] = r], r.pid = x, r.phase \in {"gate", "work"}
    PROVE  /\ proc'[p] = r /\ \A q \in Procs \ {p} : proc'[q] = proc[q]
           /\ x \in Pids /\ \A q \in Procs : PidTaken(q) => proc[q].pid # x
           /\ \A j \in Jobs : p \notin live[j].procs
           /\ HasPid(p)' /\ ~HasPid(p) /\ \A q \in Procs \ {p} : HasPid(q)' <=> HasPid(q)
<1>1. proc'[p] = r /\ \A q \in Procs \ {p} : proc'[q] = proc[q]
  BY DEF TypeOK, ProcOK
<1>2. proc[p].phase = "unborn"
  BY DEF NextBorn
<1>3. x \in Pids /\ \A q \in Procs : PidTaken(q) => proc[q].pid # x
  BY DEF FreePids, PidTaken
<1>4. \A j \in Jobs : p \notin live[j].procs
  BY <1>2 DEF ProcInv, WorkersAreTheJobs
<1>. QED  BY <1>1, <1>2, <1>3, <1>4 DEF HasPid, Alive

LEMMA BirthKeeps ==
    ASSUME TypeOK, ProcInv, NEW p \in Procs, NEW x \in FreePids, NextBorn(p),
           NEW r, proc' = [proc EXCEPT ![p] = r], r.pid = x, r.phase \in {"gate", "work"},
           UNCHANGED <<live, how, pid_owner, pc, cur>>,
           r.child => r.job \in Jobs /\ pc = "fork" /\ r.job = cur
    PROVE  ProcInv'
<1>1. /\ proc'[p] = r /\ \A q \in Procs \ {p} : proc'[q] = proc[q]
      /\ x \in Pids /\ \A q \in Procs : PidTaken(q) => proc[q].pid # x
      /\ \A j \in Jobs : p \notin live[j].procs
      /\ HasPid(p)' /\ ~HasPid(p) /\ \A q \in Procs \ {p} : HasPid(q)' <=> HasPid(q)
  BY BirthFacts, Zenon
<1>2. \A j \in Jobs : live[j].procs \subseteq Procs
  BY DEF TypeOK, TableOK, LiveJobs
<1>3. UnbornAreNobodys' /\ PidsAreReal'
  BY <1>1 DEF ProcInv, UnbornAreNobodys, PidsAreReal
<1>4. PidsAreDistinct'
  <2>1. \A q \in Procs \ {p} : PidTaken(q)' <=> PidTaken(q)
    BY <1>1 DEF PidTaken
  <2>2. \A q \in Procs \ {p} : PidTaken(q)' => proc'[q].pid # proc'[p].pid
    BY <1>1, <2>1
  <2>. QED  BY <1>1, <2>1, <2>2 DEF ProcInv, PidsAreDistinct
<1>5. ReapedAreGone'
  BY <1>1 DEF ProcInv, ReapedAreGone, NextBorn
<1>6. WorkersAreTheJobs'
  BY <1>1, <1>2 DEF ProcInv, WorkersAreTheJobs
<1>7. ChildrenHaveJobs'
  BY <1>1 DEF ProcInv, ChildrenHaveJobs
<1>8. OwnersAreRight'
  BY <1>1 DEF ProcInv, OwnersAreRight
<1>9. LastIsReaped'
  BY DEF ProcInv, LastIsReaped
<1>. QED  BY <1>3, <1>4, <1>5, <1>6, <1>7, <1>8, <1>9 DEF ProcInv

LEMMA ForkProcs ==
    ASSUME TypeOK, ProcInv, NEW p \in Procs, NEW x \in Pids, Fork(p, x) PROVE ProcInv'
<1>. DEFINE r == [Unborn EXCEPT !.phase = IF Op[cur] = "exec" THEN "work" ELSE "gate",
                                !.pid = x, !.job = cur, !.child = TRUE]
<1>1. r.pid = x /\ r.phase \in {"gate", "work"} /\ r.job = cur
  BY DEF Unborn
<1>2. NextBorn(p) /\ x \in FreePids /\ proc' = [proc EXCEPT ![p] = r] /\ pc = "fork"
  BY DEF Fork
<1>3. UNCHANGED <<live, how, pid_owner, pc, cur>> /\ cur \in Jobs
  BY <1>2 DEF Fork, table, walk, TypeOK, WalkOK
<1>. HIDE DEF r
<1>. QED  BY <1>1, <1>2, <1>3, BirthKeeps

LEMMA StrangerProcs ==
    ASSUME TypeOK, ProcInv, NEW p \in Procs, NEW x \in Pids, Stranger(p, x) PROVE ProcInv'
<1>. DEFINE r == [Unborn EXCEPT !.phase = "work", !.pid = x]
<1>1. r.pid = x /\ r.phase = "work" /\ r.child = FALSE
  BY DEF Unborn
<1>2. NextBorn(p) /\ x \in FreePids /\ proc' = [proc EXCEPT ![p] = r]
  BY DEF Stranger
<1>3. UNCHANGED <<live, how, pid_owner, pc, cur>>
  BY DEF Stranger, table, walk
<1>. HIDE DEF r
<1>. QED  BY <1>1, <1>2, <1>3, BirthKeeps

\* A dead controller has no children.
LEMMA ForgetProcs ==
    ASSUME TypeOK, ProcInv, Forget PROVE ProcInv'
<1>1. \A p \in Procs :
        proc'[p] = [proc[p] EXCEPT !.child = FALSE,
                                   !.phase = IF proc[p].phase = "zombie" THEN "gone"
                                             ELSE proc[p].phase]
  <2>1. SUFFICES ASSUME NEW p \in Procs
                 PROVE  proc'[p] = [proc[p] EXCEPT !.child = FALSE,
                                   !.phase = IF proc[p].phase = "zombie" THEN "gone"
                                             ELSE proc[p].phase]
    OBVIOUS
  <2>2. proc[p] \in ProcessTable
    BY DEF TypeOK, ProcOK
  <2>3. proc'[p] = [proc[p] EXCEPT !.child = FALSE,
                                   !.phase = IF @ = "zombie" THEN "gone" ELSE @]
    BY DEF Forget
  <2>. QED  BY <2>2, <2>3 DEF ProcessTable
<1>2. \A p \in Procs :
        /\ proc'[p].child = FALSE /\ proc'[p].pid = proc[p].pid /\ proc'[p].job = proc[p].job
        /\ proc'[p].phase = IF proc[p].phase = "zombie" THEN "gone" ELSE proc[p].phase
  <2>1. SUFFICES ASSUME NEW p \in Procs
                 PROVE  /\ proc'[p].child = FALSE /\ proc'[p].pid = proc[p].pid
                        /\ proc'[p].job = proc[p].job
                        /\ proc'[p].phase = IF proc[p].phase = "zombie" THEN "gone"
                                            ELSE proc[p].phase
    OBVIOUS
  <2>2. proc[p] \in ProcessTable
    BY DEF TypeOK, ProcOK
  <2>. QED  BY <1>1, <2>2 DEF ProcessTable
<1>3. \A p \in Procs : HasPid(p)' => HasPid(p)
  BY <1>2 DEF HasPid, Alive
<1>4. UnbornAreNobodys'
  BY <1>2 DEF ProcInv, UnbornAreNobodys
<1>5. PidsAreReal'
  BY <1>2, <1>3 DEF ProcInv, PidsAreReal
<1>6. PidsAreDistinct'
  <2>1. \A p \in Procs : PidTaken(p)' => PidTaken(p)
    BY <1>2, <1>3 DEF PidTaken
  <2>. QED  BY <1>2, <2>1 DEF ProcInv, PidsAreDistinct
<1>7. live' = [j \in Jobs |-> Absent] /\ how' = [p \in Procs |-> ""] /\ pc' = "down"
  BY DEF Forget
<1>8. \A j \in Jobs : live'[j].procs = {}
  BY <1>7 DEF Absent
<1>9. WorkersAreTheJobs' /\ OwnersAreRight'
  BY <1>8 DEF WorkersAreTheJobs, OwnersAreRight
<1>10. ReapedAreGone' /\ ChildrenHaveJobs' /\ LastIsReaped'
  BY <1>2, <1>7 DEF ReapedAreGone, ChildrenHaveJobs, LastIsReaped
<1>. QED  BY <1>4, <1>5, <1>6, <1>9, <1>10 DEF ProcInv

\* A zombie of no live job is reaped.
LEMMA ReapUnknownProcs ==
    ASSUME TypeOK, ProcInv, NEW z \in Procs, ReapUnknown(z) PROVE ProcInv'
<1>1. /\ proc' = [proc EXCEPT ![z].phase = "gone"] /\ proc[z].phase = "zombie" /\ pc = "reap"
      /\ UNCHANGED <<live, how, pid_owner, pc, cur>>
  BY DEF ReapUnknown, table, walk
<1>2. proc[z] \in ProcessTable /\ proc \in [Procs -> ProcessTable]
  BY DEF TypeOK, ProcOK
<1>3. \A p \in Procs : /\ SameIdentity(p) /\ proc'[p].exit = proc[p].exit
                       /\ p # z => proc'[p] = proc[p]
                       /\ proc'[z].phase = "gone"
  BY <1>1, <1>2 DEF SameIdentity, ProcessTable
<1>4. \A p \in Procs : HasPid(p)' => HasPid(p)
  BY <1>3 DEF HasPid, Alive
<1>5. \A p \in Procs : PidTaken(p)' => PidTaken(p)
  BY <1>1, <1>3, <1>4 DEF PidTaken
<1>6. UnbornAreNobodys' /\ PidsAreReal'
  BY <1>1, <1>3, <1>4 DEF ProcInv, UnbornAreNobodys, PidsAreReal, SameIdentity
<1>7. ReapedAreGone'
  BY <1>1, <1>3 DEF ProcInv, ReapedAreGone
<1>8. PidsAreDistinct'
  BY <1>3, <1>5 DEF ProcInv, PidsAreDistinct, SameIdentity
<1>9. \A j \in Jobs : live[j].procs \subseteq Procs
  BY DEF TypeOK, TableOK, LiveJobs
<1>10. WorkersAreTheJobs' /\ OwnersAreRight'
  BY <1>1, <1>3, <1>4, <1>9 DEF ProcInv, WorkersAreTheJobs, OwnersAreRight, SameIdentity
<1>11. ChildrenHaveJobs' /\ LastIsReaped'
  BY <1>1, <1>3, <1>4 DEF ProcInv, ChildrenHaveJobs, LastIsReaped, SameIdentity
<1>. QED  BY <1>6, <1>8, <1>10, <1>11, <1>7 DEF ProcInv

LEMMA ForkFailsProcs ==
    ASSUME TypeOK, SlotInv, ProcInv, ForkFails PROVE ProcInv'
<1>1. /\ pc = "fork" /\ pc' = "schedule" /\ UNCHANGED <<how, pid_owner>>
      /\ live' = [live EXCEPT ![cur] = Absent]
      /\ proc' = [p \in Procs |-> IF p \in Spawned THEN [proc[p] EXCEPT !.phase = "gone"]
                                  ELSE proc[p]]
  BY DEF ForkFails
<1>2. cur \in Jobs /\ ~live[cur].uses_slot
  BY <1>1 DEF TypeOK, WalkOK, SlotInv, CurIsLaunched
<1>3. Absent.procs = {} /\ Absent.uses_slot = FALSE
  BY DEF Absent
<1>4. SameWorkers
  BY <1>1, <1>2, <1>3, OneJobMoves
<1>5. \A p \in Procs : proc[p] \in ProcessTable
  BY DEF TypeOK, ProcOK
<1>6. \A p \in Procs :
        /\ SameIdentity(p) /\ proc'[p].exit = proc[p].exit
        /\ p \in Spawned => proc'[p].phase = "gone" /\ HasPid(p)
        /\ p \notin Spawned => proc'[p] = proc[p]
  <2>1. SUFFICES ASSUME NEW p \in Procs
                 PROVE  /\ SameIdentity(p) /\ proc'[p].exit = proc[p].exit
                        /\ p \in Spawned => proc'[p].phase = "gone" /\ HasPid(p)
                        /\ p \notin Spawned => proc'[p] = proc[p]
    OBVIOUS
  <2>2. p \in Spawned => HasPid(p)
    BY DEF Spawned
  <2>3. proc'[p] = IF p \in Spawned THEN [proc[p] EXCEPT !.phase = "gone"] ELSE proc[p]
    BY <1>1
  <2>. QED  BY <1>5, <2>2, <2>3 DEF SameIdentity, ProcessTable
<1>7. \A p \in Procs : HasPid(p)' => HasPid(p) /\ p \notin Spawned
  BY <1>6 DEF HasPid, Alive
<1>8. \A p \in Procs : /\ PidTaken(p)' => PidTaken(p)
                       /\ proc'[p].phase = "unborn" <=> proc[p].phase = "unborn"
  BY <1>6, <1>7 DEF PidTaken, HasPid, Alive
<1>9. UnbornAreNobodys' /\ PidsAreReal'
  BY <1>6, <1>7, <1>8 DEF ProcInv, UnbornAreNobodys, PidsAreReal, SameIdentity
<1>10. PidsAreDistinct'
  BY <1>6, <1>8 DEF ProcInv, PidsAreDistinct, SameIdentity
<1>11. ReapedAreGone'
  BY <1>1, <1>6 DEF ProcInv, ReapedAreGone
<1>12. \A j \in Jobs : live[j].procs \subseteq Procs
  BY DEF TypeOK, TableOK, LiveJobs
<1>13. WorkersAreTheJobs'
  BY <1>4, <1>6, <1>8, <1>12 DEF ProcInv, WorkersAreTheJobs, SameWorkers, SameIdentity
<1>14. OwnersAreRight'
  BY <1>1, <1>4, <1>6, <1>7 DEF ProcInv, OwnersAreRight, SameWorkers, SameIdentity
<1>15. ChildrenHaveJobs' /\ LastIsReaped'
  <2>1. \A p \in Procs : HasPid(p)' /\ proc'[p].child => proc[p].job # cur
    BY <1>6, <1>7 DEF Spawned, SameIdentity
  <2>. QED  BY <1>1, <1>4, <1>6, <1>7, <2>1
            DEF ProcInv, ChildrenHaveJobs, LastIsReaped, SameWorkers, SameIdentity
<1>. QED  BY <1>9, <1>10, <1>11, <1>13, <1>14, <1>15 DEF ProcInv

\* What OpenGate makes of the children of the job at hand.
LEMMA OpenGateFacts ==
    ASSUME TypeOK, OpenGate
    PROVE  /\ pc = "fork" /\ pc' = "launched" /\ cur \in Jobs /\ cur' = cur
           /\ UNCHANGED <<how, record, shutting_down, fifo, sent>>
           /\ live'[cur].procs = Spawned /\ live'[cur].uses_slot
           /\ live'[cur].state = live[cur].state
           /\ \A j \in Jobs \ {cur} : live'[j] = live[j]
           /\ \A x \in Pids : pid_owner'[x] = IF \E p \in Spawned : proc[p].pid = x THEN cur
                                             ELSE pid_owner[x]
           /\ \A p \in Procs : /\ SameIdentity(p) /\ proc'[p].phase = proc[p].phase
                               /\ proc'[p].exit = proc[p].exit
                               /\ proc'[p].chunk = proc[p].chunk
<1>1. pc = "fork" /\ cur \in Jobs
  BY DEF OpenGate, TypeOK, WalkOK
<1>2. /\ \A p \in Procs : proc[p] \in ProcessTable
      /\ live \in [Jobs -> LiveJobs]
  BY DEF TypeOK, ProcOK, TableOK
<1>3. PICK timer \in BOOLEAN :
        live' = [live EXCEPT ![cur].procs = Spawned, ![cur].uses_slot = TRUE,
                             ![cur].deadline_id = timer]
  BY DEF OpenGate
<1>4. /\ live'[cur].procs = Spawned /\ live'[cur].uses_slot
      /\ live'[cur].state = live[cur].state
      /\ \A j \in Jobs \ {cur} : live'[j] = live[j]
  BY <1>1, <1>2, <1>3 DEF LiveJobs
<1>5. \A p \in Procs : /\ SameIdentity(p) /\ proc'[p].phase = proc[p].phase
                       /\ proc'[p].exit = proc[p].exit /\ proc'[p].chunk = proc[p].chunk
  <2>1. SUFFICES ASSUME NEW p \in Procs
                 PROVE  /\ SameIdentity(p) /\ proc'[p].phase = proc[p].phase
                        /\ proc'[p].exit = proc[p].exit /\ proc'[p].chunk = proc[p].chunk
    OBVIOUS
  <2>2. proc'[p] = IF p \in Spawned THEN [proc[p] EXCEPT !.gate = TRUE] ELSE proc[p]
    BY DEF OpenGate
  <2>. QED  BY <1>2, <2>2 DEF SameIdentity, ProcessTable
<1>6. \A x \in Pids : pid_owner'[x] = IF \E p \in Spawned : proc[p].pid = x THEN cur
                                      ELSE pid_owner[x]
  BY DEF OpenGate
<1>7. pc' = "launched" /\ cur' = cur /\ UNCHANGED <<how, record, shutting_down, fifo, sent>>
  BY DEF OpenGate, disk, cli
<1>. QED  BY <1>1, <1>4, <1>5, <1>6, <1>7

LEMMA OpenGateProcs ==
    ASSUME TypeOK, SlotInv, ProcInv, OpenGate PROVE ProcInv'
<1>1. /\ pc = "fork" /\ pc' = "launched" /\ cur \in Jobs /\ cur' = cur /\ how' = how
      /\ live'[cur].procs = Spawned /\ live'[cur].uses_slot
      /\ \A j \in Jobs \ {cur} : live'[j] = live[j]
      /\ \A x \in Pids : pid_owner'[x] = IF \E p \in Spawned : proc[p].pid = x THEN cur
                                        ELSE pid_owner[x]
      /\ \A p \in Procs : /\ SameIdentity(p) /\ proc'[p].phase = proc[p].phase
                          /\ proc'[p].exit = proc[p].exit
  BY OpenGateFacts, Zenon
<1>2. \A p \in Procs : /\ HasPid(p)' <=> HasPid(p)
                       /\ PidTaken(p)' <=> PidTaken(p)
  BY <1>1 DEF PidTaken, HasPid, Alive
<1>3. \A p \in Procs : p \in Spawned <=> proc[p].child /\ proc[p].job = cur /\ HasPid(p)
  BY DEF Spawned
<1>4. Spawned \subseteq Procs /\ \A j \in Jobs : live[j].procs \subseteq Procs
  BY DEF Spawned, TypeOK, TableOK, LiveJobs
<1>5. UnbornAreNobodys' /\ PidsAreReal'
  BY <1>1, <1>2 DEF ProcInv, UnbornAreNobodys, PidsAreReal, SameIdentity
<1>6. PidsAreDistinct'
  BY <1>1, <1>2 DEF ProcInv, PidsAreDistinct, SameIdentity
<1>7. ReapedAreGone'
  BY <1>1 DEF ProcInv, ReapedAreGone
<1>8. \A p, q \in Spawned : proc[p].pid = proc[q].pid => p = q
  BY <1>3, <1>4 DEF ProcInv, PidsAreDistinct, PidTaken, HasPid, Alive
<1>9. WorkersAreTheJobs'
  <2>1. ASSUME NEW p \in Spawned
        PROVE  /\ proc'[p].job = cur /\ proc'[p].child /\ proc'[p].phase # "unborn"
               /\ \A q \in Spawned : proc'[p].pid = proc'[q].pid => p = q
    BY <1>1, <1>3, <1>4, <1>8 DEF SameIdentity, HasPid, Alive
  <2>2. ASSUME NEW j \in Jobs \ {cur}, NEW p \in live[j].procs
        PROVE  /\ live[j].uses_slot
               /\ proc'[p].job = j /\ proc'[p].child /\ proc'[p].phase # "unborn"
               /\ \A q \in live[j].procs : proc'[p].pid = proc'[q].pid => p = q
    BY <1>1, <1>4 DEF ProcInv, WorkersAreTheJobs, SameIdentity
  <2>. QED  BY <1>1, <2>1, <2>2 DEF WorkersAreTheJobs
<1>10. ChildrenHaveJobs' /\ LastIsReaped'
  BY <1>1, <1>2, <1>3 DEF ProcInv, ChildrenHaveJobs, LastIsReaped, SameIdentity
<1>11. OwnersAreRight'
  <2>1. SUFFICES ASSUME NEW p \in Procs, NEW j \in Jobs, HasPid(p)', p \in live'[j].procs
                 PROVE  pid_owner'[proc'[p].pid] \in {0, j}
    BY DEF OwnersAreRight
  <2>2. proc'[p].pid = proc[p].pid /\ HasPid(p) /\ proc[p].pid \in Pids
    BY <1>1, <1>2, <2>1 DEF ProcInv, PidsAreReal, SameIdentity
  <2>3. CASE j = cur
    BY <1>1, <2>1, <2>2, <2>3
  <2>4. CASE j # cur
    <3>1. p \in live[j].procs /\ proc[p].job = j
      BY <1>1, <2>1, <2>4 DEF ProcInv, WorkersAreTheJobs
    <3>2. \A q \in Spawned : proc[q].pid # proc[p].pid
      BY <1>3, <1>4, <2>2, <2>4, <3>1 DEF ProcInv, PidsAreDistinct, PidTaken, HasPid, Alive
    <3>3. pid_owner[proc[p].pid] \in {0, j}
      BY <2>2, <3>1 DEF ProcInv, OwnersAreRight
    <3>. QED  BY <1>1, <2>2, <3>2, <3>3
  <2>. QED  BY <2>3, <2>4
<1>. QED  BY <1>5, <1>6, <1>7, <1>9, <1>10, <1>11 DEF ProcInv

\* What note_reap learns and does when it reaps z.
LEMMA ReapChildFacts ==
    ASSUME TypeOK, SlotInv, ProcInv, NEW z \in Procs, ReapChild(z)
    PROVE  \E j \in Live :
           /\ j \in Jobs /\ j = proc[z].job /\ z \in live[j].procs
           /\ pc = "reap" /\ proc[z].phase = "zombie" /\ NoteReap(z, j, how')
           /\ how' = [how EXCEPT ![z] = proc[z].exit]
           /\ SameWorkers /\ \A k \in Jobs \ {j} : live'[k] = live[k]
           /\ \A p \in Procs : /\ SameIdentity(p)
                               /\ proc'[p].exit = proc[p].exit /\ proc'[p].chunk = proc[p].chunk
                               /\ proc'[p].phase = IF p = z THEN "gone" ELSE proc[p].phase
<1>1. PICK j \in Live : j = pid_owner[proc[z].pid] /\ NoteReap(z, j, Endings(z, j))
  BY DEF ReapChild
<1>2. pc = "reap" /\ proc[z].phase = "zombie" /\ proc[z].child /\ HasPid(z)
  BY DEF ReapChild, HasPid
<1>3. proc[z].job \in Jobs /\ z \in live[proc[z].job].procs
  BY <1>2 DEF ProcInv, ChildrenHaveJobs
<1>4. j \in Jobs /\ j # 0
  BY ConstantsAssumption DEF ConstantsAssumption, Live
<1>5. j = proc[z].job
  BY <1>1, <1>2, <1>3, <1>4 DEF ProcInv, OwnersAreRight
<1>6. /\ live \in [Jobs -> LiveJobs] /\ live[j].procs \subseteq Procs
      /\ how \in [Procs -> {"", "exited:0", "exited:1", "killed"}]
  BY <1>4 DEF TypeOK, TableOK, LiveJobs
<1>7. \A p \in Procs : p \in live[j].procs /\ proc[p].pid = proc[z].pid <=> p = z
  BY <1>3, <1>4, <1>5 DEF ProcInv, WorkersAreTheJobs
<1>8. Endings(z, j) = [how EXCEPT ![z] = proc[z].exit]
  BY <1>6, <1>7 DEF Endings
<1>9. how' = Endings(z, j) /\ NoteReap(z, j, how')
  BY <1>1 DEF NoteReap
<1>10. SameWorkers /\ \A k \in Jobs \ {j} : live'[k] = live[k]
  <2>. DEFINE r == [live[j] EXCEPT
                       !.stop_reason = IF FirstBad(j, how') THEN "failed" ELSE @,
                       !.state = IF Body(j, how') THEN "persisting" ELSE @]
  <2>1. live' = [live EXCEPT ![j] = r]
    BY <1>4, <1>6, <1>9 DEF NoteReap
  <2>2. r.procs = live[j].procs /\ r.uses_slot = live[j].uses_slot
    BY <1>4, <1>6 DEF LiveJobs
  <2>. HIDE DEF r
  <2>. QED  BY <1>4, <1>6, <2>1, <2>2 DEF SameWorkers
<1>11. ASSUME NEW p \in Procs
       PROVE  /\ SameIdentity(p)
              /\ proc'[p].exit = proc[p].exit /\ proc'[p].chunk = proc[p].chunk
              /\ proc'[p].phase = IF p = z THEN "gone" ELSE proc[p].phase
  <2>. DEFINE f == IF FirstBad(j, how') THEN Kill(Left(j, how'), "TERM") ELSE proc
  <2>1. proc' = [f EXCEPT ![z].phase = "gone"]
    BY <1>9 DEF NoteReap
  <2>2. f \in [Procs -> ProcessTable]
    BY KillType DEF TypeOK, ProcOK
  <2>3. \/ f[p] = proc[p]
        \/ f[p] = [proc[p] EXCEPT !.sig = "TERM"]
    BY DEF Kill
  <2>. HIDE DEF f
  <2>4. proc[p] \in ProcessTable
    BY DEF TypeOK, ProcOK
  <2>5. /\ f[p].pid = proc[p].pid /\ f[p].job = proc[p].job /\ f[p].child = proc[p].child
        /\ f[p].exit = proc[p].exit /\ f[p].chunk = proc[p].chunk /\ f[p].phase = proc[p].phase
    BY <2>3, <2>4 DEF ProcessTable
  <2>6. proc'[p] = IF p = z THEN [f[p] EXCEPT !.phase = "gone"] ELSE f[p]
    BY <2>1, <2>2
  <2>7. f[p] \in ProcessTable
    BY <2>2
  <2>. QED  BY <2>5, <2>6, <2>7 DEF SameIdentity, ProcessTable
<1>. QED  BY <1>2, <1>3, <1>4, <1>5, <1>8, <1>9, <1>10, <1>11

LEMMA ReapChildProcs ==
    ASSUME TypeOK, SlotInv, ProcInv, NEW z \in Procs, ReapChild(z) PROVE ProcInv'
<1>1. PICK j \in Live :
           /\ j \in Jobs /\ j = proc[z].job /\ z \in live[j].procs
           /\ pc = "reap" /\ proc[z].phase = "zombie" /\ NoteReap(z, j, how')
           /\ how' = [how EXCEPT ![z] = proc[z].exit]
           /\ SameWorkers
           /\ \A p \in Procs : /\ SameIdentity(p) /\ proc'[p].exit = proc[p].exit
                               /\ proc'[p].phase = IF p = z THEN "gone" ELSE proc[p].phase
  BY ReapChildFacts
<1>2. \A p \in Procs : /\ HasPid(p)' => HasPid(p) /\ p # z
                       /\ PidTaken(p)' => PidTaken(p)
  BY <1>1 DEF PidTaken, HasPid, Alive
<1>3. \A p \in Procs : how'[p] = IF p = z THEN proc[z].exit ELSE how[p]
  BY <1>1 DEF TypeOK, TableOK
<1>4. \A k \in Jobs : live[k].procs \subseteq Procs
  BY DEF TypeOK, TableOK, LiveJobs
<1>5. UnbornAreNobodys' /\ PidsAreReal'
  BY <1>1, <1>2 DEF ProcInv, UnbornAreNobodys, PidsAreReal, SameIdentity
<1>6. PidsAreDistinct'
  BY <1>1, <1>2 DEF ProcInv, PidsAreDistinct, SameIdentity
<1>7. ReapedAreGone'
  BY <1>1, <1>3 DEF ProcInv, ReapedAreGone
<1>8. WorkersAreTheJobs'
  BY <1>1, <1>4 DEF ProcInv, WorkersAreTheJobs, SameWorkers, SameIdentity
<1>9. pid_owner' = pid_owner /\ pc' \in {"reap", "output", "finish"}
  BY <1>1 DEF NoteReap
<1>10. ChildrenHaveJobs'
  BY <1>1, <1>2 DEF ProcInv, ChildrenHaveJobs, SameWorkers, SameIdentity
<1>11. OwnersAreRight'
  BY <1>1, <1>2, <1>9 DEF ProcInv, OwnersAreRight, SameWorkers, SameIdentity
<1>12. LastIsReaped'
  <2>1. SUFFICES ASSUME pc' \in {"output", "finish"}
                 PROVE  \A p \in live'[cur'].procs : how'[p] # ""
    BY DEF LastIsReaped
  <2>2. cur' = j /\ Left(j, how') = {}
    BY <1>1, <2>1 DEF NoteReap, Body, Ok
  <2>. QED  BY <1>1, <2>2 DEF Left, SameWorkers
<1>. QED  BY <1>5, <1>6, <1>7, <1>8, <1>10, <1>11, <1>12 DEF ProcInv

LEMMA FinishProcs ==
    ASSUME TypeOK, ProcInv, Finish PROVE ProcInv'
<1>1. /\ pc = "finish" /\ pc' = "reap" /\ UNCHANGED <<proc, how>>
      /\ live' = [live EXCEPT ![cur] = Absent] /\ pid_owner' = Disowned(cur)
  BY DEF Finish
<1>2. cur \in Jobs /\ live \in [Jobs -> LiveJobs] /\ Absent.procs = {}
  BY <1>1 DEF TypeOK, TableOK, WalkOK, Absent
<1>3. live'[cur].procs = {} /\ \A j \in Jobs \ {cur} : live'[j] = live[j]
  BY <1>1, <1>2
<1>4. \A p \in live[cur].procs : ~HasPid(p)
  BY <1>1, <1>2 DEF ProcInv, LastIsReaped, ReapedAreGone, HasPid, Alive, TypeOK, TableOK, LiveJobs
<1>5. UnbornAreNobodys' /\ PidsAreReal' /\ ReapedAreGone'
  BY <1>1 DEF ProcInv, UnbornAreNobodys, PidsAreReal, ReapedAreGone, HasPid, Alive
<1>6. PidsAreDistinct'
  BY <1>1 DEF ProcInv, PidsAreDistinct, PidTaken, HasPid, Alive
<1>7. WorkersAreTheJobs'
  BY <1>1, <1>3 DEF ProcInv, WorkersAreTheJobs
<1>8. ChildrenHaveJobs' /\ LastIsReaped'
  <2>1. ChildrenHaveJobs'
    BY <1>1, <1>3, <1>4 DEF ProcInv, ChildrenHaveJobs, HasPid, Alive
  <2>2. LastIsReaped'
    BY <1>1, <1>3, <1>4 DEF ProcInv, LastIsReaped, HasPid, Alive
  <2>. QED  BY <2>1, <2>2
<1>9. OwnersAreRight'
  <2>1. \A x \in Pids : pid_owner'[x] \in {0, pid_owner[x]}
    BY <1>1 DEF Disowned
  <2>2. \A p \in Procs : HasPid(p)' <=> HasPid(p)
    BY <1>1 DEF HasPid, Alive
  <2>. QED  BY <1>1, <1>3, <2>1, <2>2 DEF ProcInv, OwnersAreRight, PidsAreReal
<1>. QED  BY <1>5, <1>6, <1>7, <1>8, <1>9 DEF ProcInv

LEMMA ProcStep == TypeOK /\ TypeOK' /\ SlotInv /\ ProcInv /\ [Next]_vars => ProcInv'
<1>. SUFFICES ASSUME TypeOK, TypeOK', SlotInv, ProcInv, [Next]_vars PROVE ProcInv'
  OBVIOUS
<1>1. CASE Next
  BY <1>1, MostStepsAreQuiet, QuietStepKeeps, ForgetProcs, ForkFailsProcs, OpenGateProcs,
     FinishProcs, ForkProcs, StrangerProcs, ReapUnknownProcs, ReapChildProcs
     DEF Loud, Crash, Exit
<1>2. CASE UNCHANGED vars
  <2>1. UNCHANGED <<proc, live, how, pid_owner, pc, cur>>
    BY <1>2 DEF vars, table, walk
  <2>. QED  BY <2>1, NoProcessMoves, NoWorkerMoves, QuietStepKeeps DEF QuietStep, SamePlace
<1>. QED  BY <1>1, <1>2

LEMMA ProcInvariant == Spec => [](TypeOK /\ SlotInv /\ ProcInv)
<1>1. Init => ProcInv
  <2>. SUFFICES ASSUME Init PROVE ProcInv
    OBVIOUS
  <2>1. /\ \A p \in Procs : proc[p].phase = "unborn" /\ proc[p].job = 0 /\ proc[p].child = FALSE
        /\ \A j \in Jobs : live[j].procs = {}
        /\ \A p \in Procs : how[p] = ""
    BY DEF Init, Unborn, Absent
  <2>2. pc = "down"
    BY DEF Init
  <2>. QED  BY <2>1, <2>2
            DEF ProcInv, UnbornAreNobodys, PidsAreReal, PidsAreDistinct, PidTaken, ReapedAreGone,
                WorkersAreTheJobs, ChildrenHaveJobs, OwnersAreRight, LastIsReaped, HasPid, Alive
<1>. QED  BY <1>1, ProcStep, SlotInvariant, PTL DEF Spec

-----------------------------------------------------------------------------
(* Only finitely many processes have been born, so that they can be counted. *)

BornAreFinite == IsFiniteSet({p \in Procs : proc[p].phase # "unborn"})

LEMMA BornStep == TypeOK /\ SlotInv /\ ProcInv /\ BornAreFinite /\ [Next]_vars => BornAreFinite'
<1>. SUFFICES ASSUME TypeOK, SlotInv, ProcInv, BornAreFinite, [Next]_vars PROVE BornAreFinite'
  OBVIOUS
<1>. DEFINE born == {p \in Procs : proc[p].phase # "unborn"}
<1>1. ASSUME \A p \in Procs : proc'[p].phase # "unborn" => proc[p].phase # "unborn"
      PROVE  BornAreFinite'
  <2>1. {p \in Procs : proc'[p].phase # "unborn"} \subseteq born
    BY <1>1
  <2>. QED  BY <2>1, FS_Subset DEF BornAreFinite
<1>2. ASSUME NEW q \in Procs, NEW r, proc' = [proc EXCEPT ![q] = r] PROVE BornAreFinite'
  <2>1. {p \in Procs : proc'[p].phase # "unborn"} \subseteq born \cup {q}
    BY <1>2 DEF TypeOK, ProcOK
  <2>2. IsFiniteSet(born \cup {q})
    BY FS_AddElement DEF BornAreFinite
  <2>. QED  BY <2>1, <2>2, FS_Subset DEF BornAreFinite
<1>3. CASE QuietStep
  BY <1>1, <1>3 DEF QuietStep, SameProcesses
<1>4. CASE ForkFails
  BY <1>1, <1>4 DEF ForkFails, Spawned, HasPid, Alive
<1>5. CASE OpenGate
  BY <1>1, <1>5, OpenGateFacts
<1>6. ASSUME NEW p \in Procs, NEW x \in Pids, Fork(p, x) \/ Stranger(p, x) PROVE BornAreFinite'
  BY <1>2, <1>6 DEF Fork, Stranger
<1>7. ASSUME NEW z \in Procs, ReapUnknown(z) PROVE BornAreFinite'
  <2>1. proc' = [proc EXCEPT ![z] = [proc[z] EXCEPT !.phase = "gone"]]
    BY <1>7 DEF ReapUnknown
  <2>. QED  BY <1>2, <2>1
<1>8. ASSUME NEW z \in Procs, ReapChild(z) PROVE BornAreFinite'
  BY <1>1, <1>8, ReapChildFacts
<1>9. CASE Forget
  <2>1. \A p \in Procs : /\ proc[p] \in ProcessTable
                         /\ proc'[p] = [proc[p] EXCEPT !.child = FALSE,
                                            !.phase = IF @ = "zombie" THEN "gone" ELSE @]
    BY <1>9 DEF Forget, TypeOK, ProcOK
  <2>2. \A p \in Procs : proc'[p].phase # "unborn" => proc[p].phase # "unborn"
    BY <2>1 DEF ProcessTable
  <2>. QED  BY <1>1, <2>2
<1>10. CASE proc' = proc
  BY <1>1, <1>10
<1>. QED  BY <1>3, <1>4, <1>5, <1>6, <1>7, <1>8, <1>9, <1>10, MostStepsAreQuiet
          DEF Loud, Crash, Exit, Finish, vars

LEMMA ProcCounts == Spec => [](TypeOK /\ SlotInv /\ ProcInv /\ BornAreFinite)
<1>1. Init => BornAreFinite
  <2>. SUFFICES ASSUME Init PROVE BornAreFinite
    OBVIOUS
  <2>1. \A p \in Procs : proc[p].phase = "unborn"
    BY DEF Init, Unborn
  <2>2. {p \in Procs : proc[p].phase # "unborn"} = {}
    BY <2>1
  <2>. QED  BY <2>2, FS_EmptySet DEF BornAreFinite
<1>. QED  BY <1>1, BornStep, ProcInvariant, PTL DEF Spec

\* The workers a job has, or had.
LEMMA SpawnedFinite ==
    ASSUME BornAreFinite PROVE IsFiniteSet(Spawned) /\ Cardinality(Spawned) \in Nat
<1>1. Spawned \subseteq {p \in Procs : proc[p].phase # "unborn"}
  BY DEF Spawned, HasPid, Alive
<1>. QED  BY <1>1, FS_Subset, FS_CardinalityType DEF BornAreFinite

-----------------------------------------------------------------------------
(* Where no pid is reused, or every job has one worker, a pid leads note_reap *)
(* to the job, and signal_job to the worker: pid_owner and the pids of the    *)
(* workers not reaped yet are never out of date.                              *)

PidsIdentify == ~ReusePids \/ \A j \in Jobs : Fan[j] = 1

OwnersAreKnown ==
    \A p \in Procs : \A j \in Jobs : HasPid(p) /\ p \in live[j].procs =>
        pid_owner[proc[p].pid] = j

UnreapedHavePids == \A j \in Jobs : \A p \in live[j].procs : how[p] = "" => HasPid(p)

\* With pid reuse: the only worker of a job is waited for, or the job is being finalized.
OneWorker ==
    ReusePids => \A j \in Jobs : \A p \in live[j].procs :
        /\ \A q \in live[j].procs : p = q
        /\ how[p] = "" \/ (pc \in {"output", "finish"} /\ j = cur)

\* No child has got the pid of a worker that release_runtime has yet to forget.
NoPidShared ==
    \A j \in Jobs : \A p \in live[j].procs : \A q \in Procs :
        proc[q].child /\ HasPid(q) /\ proc[q].pid = proc[p].pid => p = q

PidInv == OwnersAreKnown /\ UnreapedHavePids /\ OneWorker /\ NoPidShared

LEMMA QuietStepPids ==
    ASSUME TypeOK, ProcInv, PidInv, QuietStep PROVE PidInv'
<1>1. \A j \in Jobs : live[j].procs \subseteq Procs
  BY DEF TypeOK, TableOK, LiveJobs
<1>2. \A j \in Jobs : \A p \in live[j].procs : proc[p].child
  BY DEF ProcInv, WorkersAreTheJobs
<1>3. OwnersAreKnown' /\ UnreapedHavePids'
  BY <1>1, <1>2 DEF PidInv, OwnersAreKnown, UnreapedHavePids, QuietStep, SameProcesses,
                    SameWorkers, SameIdentity
<1>4. OneWorker'
  BY DEF PidInv, OneWorker, QuietStep, SameWorkers, SamePlace
<1>5. NoPidShared'
  BY <1>1 DEF PidInv, NoPidShared, QuietStep, SameProcesses, SameWorkers, SameIdentity
<1>. QED  BY <1>3, <1>4, <1>5 DEF PidInv

LEMMA BirthPids ==
    ASSUME TypeOK, ProcInv, PidInv, NEW p \in Procs, NEW x \in FreePids, NextBorn(p),
           NEW r, proc' = [proc EXCEPT ![p] = r], r.pid = x, r.phase \in {"gate", "work"},
           UNCHANGED <<live, how, pid_owner, pc, cur>>, r.child => pc = "fork"
    PROVE  PidInv'
<1>1. /\ proc'[p] = r /\ \A q \in Procs \ {p} : proc'[q] = proc[q]
      /\ \A q \in Procs : PidTaken(q) => proc[q].pid # x
      /\ \A j \in Jobs : p \notin live[j].procs
      /\ HasPid(p)' /\ ~HasPid(p) /\ \A q \in Procs \ {p} : HasPid(q)' <=> HasPid(q)
  BY BirthFacts, Zenon
<1>2. \A j \in Jobs : live[j].procs \subseteq Procs
  BY DEF TypeOK, TableOK, LiveJobs
<1>3. OwnersAreKnown'
  BY <1>1 DEF PidInv, OwnersAreKnown
<1>4. UnreapedHavePids'
  BY <1>1, <1>2 DEF PidInv, UnreapedHavePids
<1>5. OneWorker'
  BY DEF PidInv, OneWorker
<1>6. NoPidShared'
  <2>1. SUFFICES ASSUME NEW j \in Jobs, NEW w \in live[j].procs, NEW q \in Procs,
                        proc'[q].child, HasPid(q)', proc'[q].pid = proc'[w].pid
                 PROVE  w = q
    BY DEF NoPidShared
  <2>2. w \in Procs /\ w # p /\ proc'[w] = proc[w]
    BY <1>1, <1>2
  <2>3. CASE q = p
    <3>1. pc = "fork" /\ proc[w].pid = x
      BY <1>1, <2>1, <2>2, <2>3
    <3>2. ReusePids => HasPid(w)
      BY <3>1 DEF PidInv, OneWorker, UnreapedHavePids
    <3>3. PidTaken(w)
      BY <3>2 DEF PidTaken, ProcInv, WorkersAreTheJobs
    <3>. QED  BY <1>1, <2>2, <3>1, <3>3
  <2>4. CASE q # p
    BY <1>1, <2>1, <2>2, <2>4 DEF PidInv, NoPidShared
  <2>. QED  BY <2>3, <2>4
<1>. QED  BY <1>3, <1>6, <1>4, <1>5 DEF PidInv

LEMMA ForkPids ==
    ASSUME TypeOK, ProcInv, PidInv, NEW p \in Procs, NEW x \in Pids, Fork(p, x) \/ Stranger(p, x)
    PROVE  PidInv'
<1>1. NextBorn(p) /\ x \in FreePids /\ UNCHANGED <<live, how, pid_owner, pc, cur>>
  BY DEF Fork, Stranger, table, walk
<1>2. CASE Fork(p, x)
  <2>. DEFINE r == [Unborn EXCEPT !.phase = IF Op[cur] = "exec" THEN "work" ELSE "gate",
                                  !.pid = x, !.job = cur, !.child = TRUE]
  <2>1. r.pid = x /\ r.phase \in {"gate", "work"}
    BY DEF Unborn
  <2>2. proc' = [proc EXCEPT ![p] = r] /\ pc = "fork"
    BY <1>2 DEF Fork
  <2>. HIDE DEF r
  <2>. QED  BY <1>1, <2>1, <2>2, BirthPids
<1>3. CASE Stranger(p, x)
  <2>. DEFINE r == [Unborn EXCEPT !.phase = "work", !.pid = x]
  <2>1. r.pid = x /\ r.phase = "work" /\ r.child = FALSE
    BY DEF Unborn
  <2>2. proc' = [proc EXCEPT ![p] = r]
    BY <1>3 DEF Stranger
  <2>. HIDE DEF r
  <2>. QED  BY <1>1, <2>1, <2>2, BirthPids
<1>. QED  BY <1>2, <1>3

LEMMA ForkFailsPids ==
    ASSUME TypeOK, SlotInv, ProcInv, PidInv, ForkFails PROVE PidInv'
<1>1. /\ pc = "fork" /\ pc' = "schedule" /\ UNCHANGED <<how, pid_owner>>
      /\ live' = [live EXCEPT ![cur] = Absent]
      /\ \A p \in Procs : proc'[p] = IF p \in Spawned THEN [proc[p] EXCEPT !.phase = "gone"]
                                     ELSE proc[p]
  BY DEF ForkFails
<1>2. cur \in Jobs /\ ~live[cur].uses_slot
  BY <1>1 DEF TypeOK, WalkOK, SlotInv, CurIsLaunched
<1>3. Absent.procs = {} /\ Absent.uses_slot = FALSE
  BY DEF Absent
<1>4. SameWorkers /\ live[cur].procs = {}
  BY <1>1, <1>2, <1>3, OneJobMoves, NoSlotNoWorkers
<1>5. \A p \in Spawned : /\ [proc[p] EXCEPT !.phase = "gone"].phase = "gone"
                         /\ proc[p].job = cur
  BY DEF TypeOK, ProcOK, ProcessTable, Spawned
<1>6. \A j \in Jobs : \A p \in live[j].procs : p \in Procs /\ p \notin Spawned
  <2>1. SUFFICES ASSUME NEW j \in Jobs, NEW p \in live[j].procs
                 PROVE  p \in Procs /\ p \notin Spawned
    OBVIOUS
  <2>2. p \in Procs
    BY DEF TypeOK, TableOK, LiveJobs
  <2>3. proc[p].job = j /\ j # cur
    BY <1>4, <2>1 DEF ProcInv, WorkersAreTheJobs
  <2>. QED  BY <1>5, <2>2, <2>3
<1>7. \A p \in Procs : /\ HasPid(p)' => proc'[p] = proc[p] /\ HasPid(p)
                       /\ p \notin Spawned => proc'[p] = proc[p] /\ (HasPid(p)' <=> HasPid(p))
  BY <1>1, <1>5 DEF HasPid, Alive
<1>8. OwnersAreKnown' /\ UnreapedHavePids'
  <2>1. ASSUME NEW j \in Jobs, NEW p \in live'[j].procs
        PROVE  p \in live[j].procs /\ p \in Procs /\ proc'[p] = proc[p] /\ (HasPid(p)' <=> HasPid(p))
    <3>1. p \in live[j].procs
      BY <1>4 DEF SameWorkers
    <3>. QED  BY <1>6, <1>7, <3>1
  <2>2. OwnersAreKnown'
    <3>1. ASSUME NEW p \in Procs, NEW j \in Jobs, HasPid(p)', p \in live'[j].procs
          PROVE  pid_owner'[proc'[p].pid] = j
      <4>1. p \in live[j].procs /\ proc'[p] = proc[p] /\ HasPid(p)
        BY <2>1, <3>1
      <4>2. pid_owner[proc[p].pid] = j
        BY <4>1 DEF PidInv, OwnersAreKnown
      <4>. QED  BY <1>1, <4>1, <4>2
    <3>. QED  BY <3>1 DEF OwnersAreKnown
  <2>3. UnreapedHavePids'
    BY <1>1, <2>1 DEF PidInv, UnreapedHavePids
  <2>. QED  BY <2>2, <2>3
<1>9. OneWorker'
  <2>1. ASSUME ReusePids, NEW j \in Jobs, NEW p \in live'[j].procs
        PROVE  (\A q \in live'[j].procs : p = q) /\ how'[p] = ""
    <3>1. live'[j].procs = live[j].procs /\ how'[p] = how[p] /\ pc \notin {"output", "finish"}
      BY <1>1, <1>4 DEF SameWorkers
    <3>. QED  BY <2>1, <3>1 DEF PidInv, OneWorker
  <2>. QED  BY <2>1 DEF OneWorker
<1>10. NoPidShared'
  BY <1>4, <1>6, <1>7 DEF PidInv, NoPidShared, SameWorkers
<1>. QED  BY <1>8, <1>9, <1>10 DEF PidInv

LEMMA OpenGatePids ==
    ASSUME PidsIdentify, TypeOK, SlotInv, ProcInv, BornAreFinite, PidInv, OpenGate
    PROVE  PidInv'
<1>1. /\ pc = "fork" /\ pc' = "launched" /\ cur \in Jobs /\ cur' = cur /\ how' = how
      /\ live'[cur].procs = Spawned
      /\ \A j \in Jobs \ {cur} : live'[j] = live[j]
      /\ \A x \in Pids : pid_owner'[x] = IF \E p \in Spawned : proc[p].pid = x THEN cur
                                        ELSE pid_owner[x]
      /\ \A p \in Procs : SameIdentity(p) /\ proc'[p].phase = proc[p].phase
  BY OpenGateFacts, Zenon
<1>2. \A p \in Procs : HasPid(p)' <=> HasPid(p)
  BY <1>1 DEF HasPid, Alive
<1>3. \A p \in Spawned : p \in Procs /\ proc[p].child /\ proc[p].job = cur /\ HasPid(p)
  BY DEF Spawned
<1>4. \A j \in Jobs : live[j].procs \subseteq Procs
  BY DEF TypeOK, TableOK, LiveJobs
<1>5. \A p, q \in Procs : HasPid(p) /\ HasPid(q) /\ proc[p].pid = proc[q].pid => p = q
  BY DEF ProcInv, PidsAreDistinct, PidTaken, HasPid, Alive
<1>6. OwnersAreKnown'
  <2>1. SUFFICES ASSUME NEW p \in Procs, NEW j \in Jobs, HasPid(p)', p \in live'[j].procs
                 PROVE  pid_owner'[proc'[p].pid] = j
    BY DEF OwnersAreKnown
  <2>2. proc'[p].pid = proc[p].pid /\ HasPid(p) /\ proc[p].pid \in Pids
    BY <1>1, <1>2, <2>1 DEF ProcInv, PidsAreReal, SameIdentity
  <2>3. CASE j = cur
    BY <1>1, <2>1, <2>2, <2>3
  <2>4. CASE j # cur
    <3>1. p \in live[j].procs /\ proc[p].job = j
      BY <1>1, <2>1, <2>4 DEF ProcInv, WorkersAreTheJobs
    <3>2. \A q \in Spawned : proc[q].pid # proc[p].pid
      BY <1>3, <1>5, <2>2, <2>4, <3>1
    <3>3. pid_owner[proc[p].pid] = j
      BY <2>2, <3>1 DEF PidInv, OwnersAreKnown
    <3>. QED  BY <1>1, <2>2, <3>2, <3>3
  <2>. QED  BY <2>3, <2>4
<1>7. UnreapedHavePids'
  BY <1>1, <1>2, <1>3, <1>4 DEF PidInv, UnreapedHavePids
<1>8. OneWorker'
  <2>1. SUFFICES ASSUME ReusePids PROVE \A p, q \in Spawned : p = q /\ how[p] = ""
    BY <1>1 DEF PidInv, OneWorker
  <2>2. Cardinality(Spawned) = 1
    BY <1>1, <2>1 DEF PidsIdentify, OpenGate
  <2>3. \E p : Spawned = {p}
    BY <2>2, SpawnedFinite, FS_Singleton
  <2>4. \A p \in Spawned : how[p] = ""
    BY <1>3 DEF ProcInv, ReapedAreGone, HasPid, Alive
  <2>. QED  BY <2>3, <2>4
<1>9. NoPidShared'
  <2>1. SUFFICES ASSUME NEW j \in Jobs, NEW p \in live'[j].procs, NEW q \in Procs,
                        proc[q].child, HasPid(q), proc[q].pid = proc'[p].pid
                 PROVE  p = q
    BY <1>1, <1>2 DEF NoPidShared, SameIdentity
  <2>2. CASE j = cur
    BY <1>1, <1>3, <1>5, <2>1, <2>2 DEF SameIdentity
  <2>3. CASE j # cur
    BY <1>1, <1>4, <2>1, <2>3 DEF PidInv, NoPidShared, SameIdentity
  <2>. QED  BY <2>2, <2>3
<1>. QED  BY <1>6, <1>7, <1>8, <1>9 DEF PidInv

\* A zombie has an owner.
LEMMA NoneUnknown ==
    ASSUME TypeOK, SlotInv, ProcInv, PidInv, NEW z \in Procs PROVE ~ReapUnknown(z)
<1>1. SUFFICES ASSUME ReapUnknown(z) PROVE FALSE
  OBVIOUS
<1>2. /\ pc = "reap" /\ HasPid(z) /\ proc[z].child /\ pid_owner[proc[z].pid] \notin Live
  BY <1>1 DEF ReapUnknown, HasPid
<1>3. proc[z].job \in Jobs /\ z \in live[proc[z].job].procs
  BY <1>2 DEF ProcInv, ChildrenHaveJobs
<1>4. pid_owner[proc[z].pid] = proc[z].job
  BY <1>2, <1>3 DEF PidInv, OwnersAreKnown
<1>5. proc[z].job \in Live
  BY <1>3 DEF ProcInv, WorkersAreTheJobs, SlotInv, HoldersAreLaunched, LaunchedStates, Live
<1>. QED  BY <1>2, <1>4, <1>5

LEMMA ReapChildPids ==
    ASSUME TypeOK, SlotInv, ProcInv, PidInv, NEW z \in Procs, ReapChild(z) PROVE PidInv'
<1>1. PICK j \in Live :
           /\ j \in Jobs /\ z \in live[j].procs
           /\ pc = "reap" /\ proc[z].phase = "zombie" /\ NoteReap(z, j, how')
           /\ how' = [how EXCEPT ![z] = proc[z].exit]
           /\ SameWorkers
           /\ \A p \in Procs : /\ SameIdentity(p)
                               /\ proc'[p].phase = IF p = z THEN "gone" ELSE proc[p].phase
  BY ReapChildFacts
<1>2. \A p \in Procs : HasPid(p)' <=> HasPid(p) /\ p # z
  BY <1>1 DEF HasPid, Alive
<1>3. \A p \in Procs : how'[p] = IF p = z THEN proc[z].exit ELSE how[p]
  BY <1>1 DEF TypeOK, TableOK
<1>4. proc[z].exit # ""
  BY DEF TypeOK, ProcOK, ProcessTable
<1>5. \A k \in Jobs : live[k].procs \subseteq Procs
  BY DEF TypeOK, TableOK, LiveJobs
<1>6. pid_owner' = pid_owner /\ pc' \in {"reap", "output", "finish"}
  BY <1>1 DEF NoteReap
<1>7. OwnersAreKnown'
  BY <1>1, <1>2, <1>6 DEF PidInv, OwnersAreKnown, SameWorkers, SameIdentity
<1>8. UnreapedHavePids'
  BY <1>1, <1>2, <1>3, <1>4, <1>5 DEF PidInv, UnreapedHavePids, SameWorkers
<1>9. NoPidShared'
  BY <1>1, <1>2, <1>5 DEF PidInv, NoPidShared, SameWorkers, SameIdentity
<1>10. OneWorker'
  <2>1. SUFFICES ASSUME ReusePids, NEW k \in Jobs, NEW p \in live'[k].procs
                 PROVE  /\ \A q \in live'[k].procs : p = q
                        /\ how'[p] = "" \/ (pc' \in {"output", "finish"} /\ k = cur')
    BY DEF OneWorker
  <2>2. live'[k].procs = live[k].procs /\ pc \notin {"output", "finish"}
    BY <1>1 DEF SameWorkers
  <2>3. /\ \A q \in live'[k].procs : p = q
        /\ how[p] = "" /\ p \in Procs /\ p \in live[k].procs
    BY <1>5, <2>1, <2>2 DEF PidInv, OneWorker
  <2>4. CASE p = z
    <3>1. k = j
      <4>1. \A i \in Jobs : \A w \in live[i].procs : proc[w].job = i
        BY DEF ProcInv, WorkersAreTheJobs
      <4>2. z \in live[k].procs /\ z \in live[j].procs /\ j \in Jobs
        BY <1>1, <2>3, <2>4
      <4>. QED  BY <4>1, <4>2
    <3>2. Left(j, how') = {}
      BY <1>3, <1>4, <2>3, <2>4, <2>2, <3>1 DEF Left
    <3>3. pc' \in {"output", "finish"} /\ cur' = j
      BY <1>1, <3>2 DEF NoteReap
    <3>. QED  BY <2>3, <3>1, <3>3
  <2>5. CASE p # z
    BY <1>3, <2>3, <2>5
  <2>. QED  BY <2>4, <2>5
<1>. QED  BY <1>7, <1>8, <1>9, <1>10 DEF PidInv

LEMMA FinishPids ==
    ASSUME TypeOK, ProcInv, PidInv, Finish PROVE PidInv'
<1>1. /\ pc = "finish" /\ pc' = "reap" /\ UNCHANGED <<proc, how>>
      /\ live' = [live EXCEPT ![cur] = Absent]
  BY DEF Finish
<1>2. cur \in Jobs /\ live \in [Jobs -> LiveJobs] /\ Absent.procs = {}
  BY <1>1 DEF TypeOK, TableOK, WalkOK, Absent
<1>3. live'[cur].procs = {} /\ \A j \in Jobs \ {cur} : live'[j] = live[j]
  BY <1>1, <1>2
<1>4. \A p \in Procs : HasPid(p)' <=> HasPid(p)
  BY <1>1 DEF HasPid, Alive
<1>5. \A x \in Pids : pid_owner'[x] = IF \E p \in live[cur].procs : proc[p].pid = x THEN 0
                                      ELSE pid_owner[x]
  BY DEF Finish, Disowned
<1>6. OwnersAreKnown'
  <2>1. SUFFICES ASSUME NEW p \in Procs, NEW j \in Jobs, HasPid(p), p \in live'[j].procs
                 PROVE  pid_owner'[proc[p].pid] = j
    BY <1>1, <1>4 DEF OwnersAreKnown
  <2>2. j # cur /\ p \in live[j].procs
    BY <1>3, <2>1
  <2>3. proc[p].job = j /\ proc[p].child /\ proc[p].pid \in Pids
    BY <2>1, <2>2 DEF ProcInv, WorkersAreTheJobs, PidsAreReal
  <2>4. \A q \in live[cur].procs : proc[q].pid # proc[p].pid
    <3>1. SUFFICES ASSUME NEW q \in live[cur].procs, proc[p].pid = proc[q].pid PROVE FALSE
      OBVIOUS
    <3>2. q = p
      BY <1>2, <2>1, <2>3, <3>1 DEF PidInv, NoPidShared
    <3>3. proc[q].job = cur
      BY <1>2 DEF ProcInv, WorkersAreTheJobs
    <3>. QED  BY <2>2, <2>3, <3>2, <3>3
  <2>. QED  BY <1>5, <2>1, <2>2, <2>3, <2>4 DEF PidInv, OwnersAreKnown
<1>7. UnreapedHavePids'
  <2>1. \A j \in Jobs : \A p \in live[j].procs : p \in Procs
    BY DEF TypeOK, TableOK, LiveJobs
  <2>. QED  BY <1>1, <1>3, <1>4, <2>1 DEF PidInv, UnreapedHavePids
<1>8. NoPidShared'
  BY <1>1, <1>3, <1>4 DEF PidInv, NoPidShared
<1>9. OneWorker'
  BY <1>1, <1>3 DEF PidInv, OneWorker
<1>. QED  BY <1>6, <1>7, <1>9, <1>8 DEF PidInv

LEMMA PidStep ==
    ASSUME PidsIdentify
    PROVE  TypeOK /\ SlotInv /\ ProcInv /\ BornAreFinite /\ PidInv /\ [Next]_vars => PidInv'
<1>. SUFFICES ASSUME TypeOK, SlotInv, ProcInv, BornAreFinite, PidInv, [Next]_vars PROVE PidInv'
  OBVIOUS
<1>1. CASE Forget
  <2>1. live' = [j \in Jobs |-> Absent]
    BY <1>1 DEF Forget
  <2>2. \A j \in Jobs : live'[j].procs = {}
    BY <2>1 DEF Absent
  <2>. QED  BY <2>2 DEF PidInv, OwnersAreKnown, UnreapedHavePids, OneWorker, NoPidShared
<1>2. CASE Next
  BY <1>1, <1>2, MostStepsAreQuiet, QuietStepPids, ForkFailsPids, OpenGatePids, FinishPids,
     ForkPids, NoneUnknown, ReapChildPids DEF Loud, Crash, Exit
<1>3. CASE UNCHANGED vars
  <2>1. UNCHANGED <<proc, live, how, pid_owner, pc, cur>>
    BY <1>3 DEF vars, table, walk
  <2>. QED  BY <2>1, NoProcessMoves, NoWorkerMoves, QuietStepPids DEF QuietStep, SamePlace
<1>. QED  BY <1>2, <1>3

LEMMA PidInvariant ==
    ASSUME PidsIdentify
    PROVE  Spec => [](TypeOK /\ SlotInv /\ ProcInv /\ PidInv)
<1>1. Init => PidInv
  <2>. SUFFICES ASSUME Init PROVE PidInv
    OBVIOUS
  <2>1. \A j \in Jobs : live[j].procs = {}
    BY DEF Init, Absent
  <2>. QED  BY <2>1 DEF PidInv, OwnersAreKnown, UnreapedHavePids, OneWorker, NoPidShared
<1>. QED  BY <1>1, PidStep, ProcCounts, PTL DEF Spec

\* Where no pid is reused, or every job has one worker, every child that exists and is
\* past launch_job is a worker of a live job that still waits for it, under its pid: no
\* exit is "unknown pid".
THEOREM ExitsAreAccountedFor ==
    ASSUME ~ReusePids \/ \A j \in Jobs : Fan[j] = 1
    PROVE  Spec => []ChildrenAccountedFor
<1>1. TypeOK /\ ProcInv /\ PidInv => ChildrenAccountedFor
  <2>. SUFFICES ASSUME ProcInv, PidInv, NEW p \in Procs, proc[p].child, HasPid(p),
                       ~(pc = "fork" /\ proc[p].job = cur)
                PROVE  /\ p \in live[proc[p].job].procs /\ how[p] = ""
                       /\ pid_owner[proc[p].pid] = proc[p].job
    BY DEF ChildrenAccountedFor
  <2>1. proc[p].job \in Jobs /\ p \in live[proc[p].job].procs
    BY DEF ProcInv, ChildrenHaveJobs
  <2>2. how[p] = ""
    BY DEF ProcInv, ReapedAreGone, HasPid, Alive
  <2>. QED  BY <2>1, <2>2 DEF PidInv, OwnersAreKnown
<1>2. PidsIdentify
  BY DEF PidsIdentify
<1>. QED  BY <1>1, <1>2, PidInvariant, PTL

-----------------------------------------------------------------------------
(* Who is signalled. *)

\* meta: the processes of a procs= line, this controller's or an earlier one's, were
\* forked for that job.
RecordedAreTheJobs == \A j \in Jobs : \A p \in meta_procs[j] : proc[p].job = j

\* What a step may make of a procs= line.
MetaStep == \A j \in Jobs : meta_procs'[j] \in {meta_procs[j], live[j].procs}

LEMMA SaveMeta ==
    ASSUME TypeOK, NEW j \in Jobs, NEW s, NEW P \in {meta_procs[j], live[j].procs}, Save(j, s, P)
    PROVE  MetaStep
<1>1. meta_procs' \in {meta_procs, [meta_procs EXCEPT ![j] = P]}
  BY DEF Save
<1>. QED  BY <1>1 DEF MetaStep, TypeOK, DiskOK

LEMMA MetaSteps ==
    ASSUME TypeOK, Next PROVE MetaStep
<1>1. meta_procs' = meta_procs => MetaStep
  BY DEF MetaStep
<1>2. ASSUME NEW j \in Jobs, Enqueue(j) PROVE MetaStep
  BY <1>2, SaveMeta DEF Enqueue
<1>3. pc \in {"fork", "launched", "output", "finish"} => cur \in Jobs
  BY DEF TypeOK, WalkOK
<1>4. CASE CLI
  BY <1>1, <1>4 DEF CLI, Submit, SendSubmit, CancelCommand, disk
<1>5. CASE Lifecycle
  <2>1. ASSUME NEW j \in Jobs, RecoverInProgress(j) \/ RecoverWaiting(j) PROVE MetaStep
    BY <1>2, <2>1, SaveMeta DEF RecoverInProgress, RecoverWaiting
  <2>. QED  BY <1>1, <1>5, <2>1
            DEF Lifecycle, Start, Crash, Exit, Forget, RecoverDone, RecoverSettled, disk
<1>6. CASE Launching
  <2>1. ASSUME NEW j \in Jobs, LaunchFails(j) \/ LaunchStarts(j) PROVE MetaStep
    BY <2>1, SaveMeta DEF LaunchFails, LaunchStarts
  <2>2. CASE ForkFails \/ SaveRunning
    BY <1>3, <2>2, SaveMeta DEF ForkFails, SaveRunning
  <2>. QED  BY <1>1, <1>6, <2>1, <2>2 DEF Launching, ScheduleDone, GiveUp, OpenGate, Fork, disk
<1>7. CASE Reaping
  <2>1. ASSUME NEW z \in Procs, ReapChild(z) PROVE MetaStep
    <3>1. PICK j \in Live : NoteReap(z, j, Endings(z, j))
      BY <2>1 DEF ReapChild
    <3>2. j \in Jobs /\ (Save(j, "persisting", live[j].procs) \/ UNCHANGED disk)
      BY <3>1 DEF NoteReap, Live
    <3>. QED  BY <1>1, <3>2, SaveMeta DEF disk
  <2>2. CASE Finish
    BY <1>3, <2>2, SaveMeta DEF Finish
  <2>. QED  BY <1>1, <1>7, <2>1, <2>2 DEF Reaping, BeginReap, ReapDone, WriteOutput, ReapUnknown, disk
<1>8. CASE Events
  <2>1. ASSUME fifo # <<>> PROVE Head(fifo).job \in Jobs
    <3>1. fifo \in Seq(Lines)
      BY DEF TypeOK, CliOK
    <3>2. Head(fifo) \in Lines
      BY <2>1, <3>1, SeqType
    <3>. QED  BY <3>2 DEF Lines
  <2>. DEFINE j == Head(fifo).job
  <2>2. ASSUME OnSubmit \/ OnCancel
        PROVE  j \in Jobs /\ (Save(j, "cancelled", meta_procs[j]) \/ Enqueue(j) \/ UNCHANGED disk)
    BY <2>1, <2>2 DEF OnSubmit, OnCancel
  <2>. HIDE DEF j
  <2>3. CASE OnSubmit \/ OnCancel
    BY <1>1, <1>2, <2>2, <2>3, SaveMeta DEF disk
  <2>. QED  BY <1>1, <1>8, <2>3 DEF Events, OnShutdown, OnDeadline, OnTick, disk
<1>9. CASE Processes
  BY <1>1, <1>9 DEF Processes, Worker, PassGate, Becomes, WorkerOutput, Publish, ExitZero, FailChunk,
                    Die, Ends, Stranger, disk
<1>. QED  BY <1>4, <1>5, <1>6, <1>7, <1>8, <1>9 DEF Next, Controller

\* A process that was born keeps its job, its pid and, once it is gone, its ending.
LEMMA BornStay ==
    ASSUME TypeOK, SlotInv, ProcInv, [Next]_vars, NEW p \in Procs, proc[p].phase # "unborn"
    PROVE  /\ proc'[p].job = proc[p].job /\ proc'[p].pid = proc[p].pid
           /\ proc'[p].phase # "unborn"
           /\ proc'[p].child => proc[p].child
           /\ HasPid(p)' => HasPid(p)
           /\ proc[p].phase = "gone" => /\ proc'[p].phase = "gone"
                                        /\ proc'[p].exit = proc[p].exit
                                        /\ proc'[p].chunk = proc[p].chunk
<1>. DEFINE Stays == /\ proc'[p].job = proc[p].job /\ proc'[p].pid = proc[p].pid
                     /\ proc'[p].phase # "unborn"
                     /\ proc'[p].child => proc[p].child
                     /\ HasPid(p)' => HasPid(p)
                     /\ proc[p].phase = "gone" => /\ proc'[p].phase = "gone"
                                                  /\ proc'[p].exit = proc[p].exit
                                                  /\ proc'[p].chunk = proc[p].chunk
<1>1. proc[p] \in ProcessTable
  BY DEF TypeOK, ProcOK
<1>2. CASE QuietStep
  BY <1>2 DEF QuietStep, SameProcesses, SameIdentity
<1>3. CASE ForkFails
  <2>1. proc'[p] = IF p \in Spawned THEN [proc[p] EXCEPT !.phase = "gone"] ELSE proc[p]
    BY <1>3 DEF ForkFails
  <2>2. p \in Spawned => HasPid(p)
    BY DEF Spawned
  <2>. QED  BY <1>1, <2>1, <2>2 DEF ProcessTable, HasPid, Alive
<1>4. CASE OpenGate
  <2>1. /\ SameIdentity(p) /\ proc'[p].phase = proc[p].phase
        /\ proc'[p].exit = proc[p].exit /\ proc'[p].chunk = proc[p].chunk
    BY <1>4, OpenGateFacts
  <2>. QED  BY <2>1 DEF SameIdentity, HasPid, Alive
<1>5. ASSUME NEW q \in Procs, NEW x \in Pids, Fork(q, x) \/ Stranger(q, x) PROVE Stays
  <2>1. p # q
    BY <1>5 DEF Fork, Stranger, NextBorn
  <2>2. proc'[p] = proc[p]
    BY <1>5, <2>1 DEF Fork, Stranger, TypeOK, ProcOK
  <2>. QED  BY <2>2 DEF HasPid, Alive
<1>6. ASSUME NEW z \in Procs, ReapUnknown(z) PROVE Stays
  <2>1. /\ proc[z].phase = "zombie"
        /\ proc'[p] = IF p = z THEN [proc[p] EXCEPT !.phase = "gone"] ELSE proc[p]
    BY <1>6 DEF ReapUnknown, TypeOK, ProcOK
  <2>. QED  BY <1>1, <2>1 DEF ProcessTable, HasPid, Alive
<1>7. ASSUME NEW z \in Procs, ReapChild(z) PROVE Stays
  <2>1. /\ proc[z].phase = "zombie" /\ SameIdentity(p)
        /\ proc'[p].exit = proc[p].exit /\ proc'[p].chunk = proc[p].chunk
        /\ proc'[p].phase = IF p = z THEN "gone" ELSE proc[p].phase
    BY <1>7, ReapChildFacts
  <2>. QED  BY <2>1 DEF SameIdentity, HasPid, Alive
<1>8. CASE Forget
  <2>1. proc'[p] = [proc[p] EXCEPT !.child = FALSE, !.phase = IF @ = "zombie" THEN "gone" ELSE @]
    BY <1>8 DEF Forget
  <2>2. proc'[p] = [proc[p] EXCEPT !.child = FALSE,
                                   !.phase = IF proc[p].phase = "zombie" THEN "gone"
                                             ELSE proc[p].phase]
    BY <1>1, <2>1 DEF ProcessTable
  <2>. QED  BY <1>1, <2>2 DEF ProcessTable, HasPid, Alive
<1>9. CASE proc' = proc
  BY <1>9 DEF HasPid, Alive
<1>. QED  BY <1>2, <1>3, <1>4, <1>5, <1>6, <1>7, <1>8, <1>9, MostStepsAreQuiet
          DEF Loud, Crash, Exit, Finish, vars

LEMMA RecordedStep ==
    TypeOK /\ SlotInv /\ ProcInv /\ RecordedAreTheJobs /\ [Next]_vars => RecordedAreTheJobs'
<1>. SUFFICES ASSUME TypeOK, SlotInv, ProcInv, RecordedAreTheJobs, [Next]_vars
              PROVE  RecordedAreTheJobs'
  OBVIOUS
<1>1. MetaStep
  BY MetaSteps DEF vars, disk, MetaStep
<1>2. ASSUME NEW j \in Jobs, NEW p \in meta_procs'[j] PROVE proc'[p].job = j
  <2>1. p \in Procs /\ proc[p].job = j
    BY <1>1, <1>2 DEF MetaStep, RecordedAreTheJobs, ProcInv, WorkersAreTheJobs, TypeOK, DiskOK,
                      TableOK, LiveJobs
  <2>2. proc[p].phase # "unborn"
    BY <2>1, ConstantsAssumption DEF ConstantsAssumption, ProcInv, UnbornAreNobodys
  <2>. QED  BY <2>1, <2>2, BornStay
<1>. QED  BY <1>2 DEF RecordedAreTheJobs

LEMMA KillSparesStrangers ==
    ASSUME TypeOK, ProcInv, NEW S, \A q \in S : q \in Procs /\ HasPid(q) /\ proc[q].job # 0,
           NEW s, NEW p \in Procs, proc[p].job = 0
    PROVE  Kill(S, s)[p] = proc[p]
<1>1. \A q \in S : Alive(p) => proc[q].pid # proc[p].pid
  BY DEF ProcInv, PidsAreDistinct, PidTaken, HasPid, Alive
<1>. QED  BY <1>1 DEF Kill

\* request_stop and on_tick signal workers that exist.
LEMMA UnreapedAreWorkers ==
    ASSUME TypeOK, ProcInv, PidInv, NEW j \in Jobs, NEW q \in Unreaped(j)
    PROVE  q \in Procs /\ HasPid(q) /\ proc[q].job # 0
<1>1. q \in live[j].procs /\ q \in Procs /\ how[q] = ""
  BY DEF Unreaped, TypeOK, TableOK, LiveJobs
<1>2. proc[q].job = j /\ j # 0
  BY <1>1, ConstantsAssumption DEF ProcInv, WorkersAreTheJobs, ConstantsAssumption
<1>3. HasPid(q)
  BY <1>1 DEF PidInv, UnreapedHavePids
<1>. QED  BY <1>1, <1>2, <1>3

LEMMA TerminatedSpares ==
    ASSUME TypeOK, ProcInv, PidInv, NEW S \in SUBSET Jobs, NEW p \in Procs, proc[p].job = 0
    PROVE  Terminated(S)[p] = proc[p]
<1>. DEFINE T == UNION {Unreaped(j) : j \in Stopping(S)}
<1>1. \A q \in T : q \in Procs /\ HasPid(q) /\ proc[q].job # 0
  BY UnreapedAreWorkers DEF Stopping
<1>. HIDE DEF T
<1>2. Kill(T, "TERM")[p] = proc[p]
  BY <1>1, KillSparesStrangers
<1>. QED  BY <1>2 DEF T, Terminated

LEMMA StrangerStep ==
    ASSUME TypeOK, SlotInv, ProcInv, PidInv, RecordedAreTheJobs, StrangersUnharmed, Next
    PROVE  StrangersUnharmed'
<1>. SUFFICES ASSUME NEW p \in Procs, proc'[p].job = 0 PROVE proc'[p].sig = "none"
  BY DEF StrangersUnharmed
<1>1. /\ proc[p].job = 0 => proc[p].sig = "none"
      /\ proc[p] \in ProcessTable /\ proc \in [Procs -> ProcessTable]
      /\ 0 \notin Jobs
  BY ConstantsAssumption DEF StrangersUnharmed, TypeOK, ProcOK, ConstantsAssumption
<1>2. CASE proc[p].job = 0 /\ proc'[p].sig = proc[p].sig
  BY <1>1, <1>2
<1>3. CASE CLI
  BY <1>1, <1>3 DEF CLI, Submit, SendSubmit, CancelCommand
<1>4. CASE Forget
  <2>1. proc'[p] = [proc[p] EXCEPT !.child = FALSE, !.phase = IF @ = "zombie" THEN "gone" ELSE @]
    BY <1>4 DEF Forget
  <2>2. proc'[p].job = proc[p].job /\ proc'[p].sig = proc[p].sig
    BY <1>1, <2>1 DEF ProcessTable
  <2>. QED  BY <1>1, <2>2
<1>5. ASSUME NEW j \in Jobs, RecoverInProgress(j) PROVE proc'[p].sig = "none"
  <2>1. proc' = Kill(Leftovers(j), "KILL")
    BY <1>5 DEF RecoverInProgress
  <2>2. \A q \in Leftovers(j) : q \in Procs /\ HasPid(q) /\ proc[q].job # 0
    BY <1>1 DEF Leftovers, RecordedAreTheJobs, TypeOK, DiskOK
  <2>3. proc'[p].job = proc[p].job
    BY <2>1, KillIsQuiet DEF SameProcesses, SameIdentity
  <2>. QED  BY <1>1, <2>1, <2>2, <2>3, KillSparesStrangers
<1>6. CASE Lifecycle
  BY <1>1, <1>4, <1>5, <1>6 DEF Lifecycle, Start, Crash, Exit, RecoverDone, RecoverWaiting, RecoverSettled
<1>7. ASSUME NEW q \in Procs, NEW x \in Pids, Fork(q, x) PROVE proc'[p].sig = "none"
  <2>. DEFINE r == [Unborn EXCEPT !.phase = IF Op[cur] = "exec" THEN "work" ELSE "gate",
                                  !.pid = x, !.job = cur, !.child = TRUE]
  <2>1. r.sig = "none"
    BY DEF Unborn
  <2>2. proc' = [proc EXCEPT ![q] = r]
    BY <1>7 DEF Fork
  <2>. HIDE DEF r
  <2>. QED  BY <1>1, <2>1, <2>2
<1>8. CASE ForkFails
  <2>1. proc'[p] = IF p \in Spawned THEN [proc[p] EXCEPT !.phase = "gone"] ELSE proc[p]
    BY <1>8 DEF ForkFails
  <2>2. proc'[p].job = proc[p].job /\ proc'[p].sig = proc[p].sig
    BY <1>1, <2>1 DEF ProcessTable
  <2>. QED  BY <1>1, <2>2
<1>9. CASE OpenGate
  <2>1. proc'[p] = IF p \in Spawned THEN [proc[p] EXCEPT !.gate = TRUE] ELSE proc[p]
    BY <1>9 DEF OpenGate
  <2>2. proc'[p].job = proc[p].job /\ proc'[p].sig = proc[p].sig
    BY <1>1, <2>1 DEF ProcessTable
  <2>. QED  BY <1>1, <2>2
<1>10. CASE Launching
  <2>1. CASE GiveUp
    BY <1>2, <2>1, GiveUpFacts DEF SameIdentity
  <2>. QED  BY <1>1, <1>7, <1>8, <1>9, <1>10, <2>1
            DEF Launching, ScheduleDone, LaunchFails, LaunchStarts, SaveRunning
<1>11. ASSUME NEW z \in Procs, ReapUnknown(z) PROVE proc'[p].sig = "none"
  <2>1. proc'[p] = IF p = z THEN [proc[p] EXCEPT !.phase = "gone"] ELSE proc[p]
    BY <1>1, <1>11 DEF ReapUnknown
  <2>2. proc'[p].job = proc[p].job /\ proc'[p].sig = proc[p].sig
    BY <1>1, <2>1 DEF ProcessTable
  <2>. QED  BY <1>1, <2>2
<1>12. ASSUME NEW z \in Procs, ReapChild(z) PROVE proc'[p].sig = "none"
  <2>1. PICK j \in Live : /\ j \in Jobs /\ NoteReap(z, j, how') /\ proc[z].phase = "zombie"
                          /\ how' = [how EXCEPT ![z] = proc[z].exit]
                          /\ \A q \in Procs : SameIdentity(q)
    BY <1>12, ReapChildFacts
  <2>. DEFINE f == IF FirstBad(j, how') THEN Kill(Left(j, how'), "TERM") ELSE proc
  <2>2. proc' = [f EXCEPT ![z].phase = "gone"]
    BY <2>1 DEF NoteReap
  <2>3. proc[p].job = 0
    BY <2>1 DEF SameIdentity
  <2>4. Left(j, how') \subseteq Unreaped(j)
    <3>1. proc[z].exit # ""
      BY DEF TypeOK, ProcOK, ProcessTable
    <3>2. \A q \in Procs : how'[q] = IF q = z THEN proc[z].exit ELSE how[q]
      BY <2>1 DEF TypeOK, TableOK
    <3>3. live[j].procs \subseteq Procs
      BY <2>1 DEF TypeOK, TableOK, LiveJobs
    <3>. QED  BY <3>1, <3>2, <3>3 DEF Left, Unreaped
  <2>5. \A q \in Left(j, how') : q \in Procs /\ HasPid(q) /\ proc[q].job # 0
    BY <2>1, <2>4, UnreapedAreWorkers
  <2>6. f[p] = proc[p]
    BY <2>3, <2>5, KillSparesStrangers
  <2>7. f \in [Procs -> ProcessTable]
    BY KillType DEF TypeOK, ProcOK
  <2>. HIDE DEF f
  <2>8. proc'[p].sig = f[p].sig
    BY <2>2, <2>7 DEF ProcessTable
  <2>. QED  BY <1>1, <2>3, <2>6, <2>8
<1>13. CASE Reaping
  BY <1>1, <1>11, <1>12, <1>13 DEF Reaping, BeginReap, ReapDone, WriteOutput, Finish
<1>14. CASE Events
  <2>1. QuietStep
    BY <1>14, EventsAreQuiet
  <2>2. proc[p].job = 0
    BY <2>1 DEF QuietStep, SameProcesses, SameIdentity
  <2>3. ASSUME NEW S \in SUBSET Jobs, proc' = Terminated(S) PROVE proc'[p] = proc[p]
    BY <2>2, <2>3, TerminatedSpares
  <2>4. CASE OnCancel
    <3>1. proc' \in {proc, Terminated({Head(fifo).job})}
      BY <2>4 DEF OnCancel
    <3>2. Head(fifo).job \in Jobs
      <4>1. fifo \in Seq(Lines) /\ fifo # <<>>
        BY <2>4 DEF OnCancel, TypeOK, CliOK
      <4>2. Head(fifo) \in Lines
        BY <4>1, SeqType
      <4>. QED  BY <4>2 DEF Lines
    <3>. QED  BY <1>1, <2>2, <2>3, <3>1, <3>2
  <2>5. CASE OnShutdown
    BY <1>1, <2>2, <2>3, <2>5 DEF OnShutdown, Live
  <2>6. ASSUME NEW j \in Jobs, OnDeadline(j) PROVE proc'[p] = proc[p]
    BY <2>3, <2>6 DEF OnDeadline
  <2>7. ASSUME NEW j \in Jobs, OnTick(j) PROVE proc'[p] = proc[p]
    BY <2>2, <2>7, UnreapedAreWorkers, KillSparesStrangers DEF OnTick
  <2>. QED  BY <1>1, <1>14, <2>2, <2>4, <2>5, <2>6, <2>7 DEF Events, OnSubmit
<1>15. ASSUME NEW q \in Procs, Worker(q) \/ Die(q) PROVE proc'[p].sig = "none"
  <2>1. proc[p].job = 0
    BY <1>15, WorkerIsQuiet DEF SameProcesses, SameIdentity
  <2>2. CASE PassGate(q) \/ WorkerOutput(q) \/ Publish(q)
    <3>1. \/ proc' = proc
          \/ \E f : proc' = [proc EXCEPT ![q] = [proc[q] EXCEPT !.phase = f]]
          \/ proc' = [proc EXCEPT ![q] = [proc[q] EXCEPT !.phase = "published", !.chunk = "ok"]]
      <4>1. CASE PassGate(q)
        BY <4>1 DEF PassGate, Becomes
      <4>2. CASE WorkerOutput(q)
        BY <4>2 DEF WorkerOutput
      <4>. QED  BY <2>2, <4>1, <4>2 DEF Publish
    <3>2. proc'[p].sig = proc[p].sig
      <4>1. \A r \in ProcessTable : \A f : [r EXCEPT !.phase = f].sig = r.sig
        BY DEF ProcessTable
      <4>2. \A r \in ProcessTable : [r EXCEPT !.phase = "published", !.chunk = "ok"].sig = r.sig
        BY DEF ProcessTable
      <4>3. ASSUME NEW r, r.sig = proc[q].sig, proc' = [proc EXCEPT ![q] = r]
            PROVE  proc'[p].sig = proc[p].sig
        BY <1>1, <4>3
      <4>4. proc[q] \in ProcessTable
        BY <1>1
      <4>. QED  BY <3>1, <4>1, <4>2, <4>3, <4>4
    <3>. QED  BY <1>1, <2>1, <3>2
  <2>3. ASSUME NEW e, NEW c, Ends(q, e, c) PROVE proc'[p].sig = "none"
    <3>1. p # q => proc'[p] = proc[p]
      BY <1>1, <2>3 DEF Ends
    <3>2. proc'[q] = [proc[q] EXCEPT !.exit = e, !.chunk = c, !.sig = "none",
                                     !.phase = IF proc[q].child THEN "zombie" ELSE "gone"]
      BY <1>1, <2>3 DEF Ends
    <3>3. proc'[q].sig = "none"
      BY <1>1, <3>2 DEF ProcessTable
    <3>. QED  BY <1>1, <2>1, <3>1, <3>3
  <2>. QED  BY <1>15, <2>2, <2>3 DEF Worker, ExitZero, FailChunk, Die
<1>16. ASSUME NEW q \in Procs, NEW x \in Pids, Stranger(q, x) PROVE proc'[p].sig = "none"
  <2>. DEFINE r == [Unborn EXCEPT !.phase = "work", !.pid = x]
  <2>1. r.sig = "none"
    BY DEF Unborn
  <2>2. proc' = [proc EXCEPT ![q] = r]
    BY <1>16 DEF Stranger
  <2>. HIDE DEF r
  <2>. QED  BY <1>1, <2>1, <2>2
<1>. QED  BY <1>3, <1>6, <1>10, <1>13, <1>14, <1>15, <1>16 DEF Next, Controller, Processes

\* Where no pid is reused, or every job has one worker, no process that forge did not
\* start is ever signalled: recover compares start times, and signal_job skips what was
\* reaped.
THEOREM StrangersAreSafe ==
    ASSUME ~ReusePids \/ \A j \in Jobs : Fan[j] = 1
    PROVE  Spec => []StrangersUnharmed
<1>1. Init => RecordedAreTheJobs /\ StrangersUnharmed
  <2>. SUFFICES ASSUME Init PROVE RecordedAreTheJobs /\ StrangersUnharmed
    OBVIOUS
  <2>1. (\A p \in Procs : proc[p].sig = "none") /\ \A j \in Jobs : meta_procs[j] = {}
    BY DEF Init, Unborn
  <2>. QED  BY <2>1 DEF RecordedAreTheJobs, StrangersUnharmed
<1>2. /\ TypeOK /\ SlotInv /\ ProcInv /\ PidInv /\ RecordedAreTheJobs /\ StrangersUnharmed
      /\ [Next]_vars
      => RecordedAreTheJobs' /\ StrangersUnharmed'
  <2>1. StrangersUnharmed /\ UNCHANGED vars => StrangersUnharmed'
    BY DEF StrangersUnharmed, vars
  <2>. QED  BY <2>1, RecordedStep, StrangerStep
<1>3. PidsIdentify
  BY DEF PidsIdentify
<1>. QED  BY <1>1, <1>2, <1>3, PidInvariant, PTL DEF Spec
=============================================================================
