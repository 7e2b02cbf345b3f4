# Job-Engine in TLA+

`forge` runs jobs (hash, count, copy or exec over one input file) in worker processes. A
long-lived controller owns a workspace directory; short-lived CLI processes write a record
and a line into a fifo; workers are forked per job and publish into shared memory. This
directory holds the specifications of that program, the TLC configurations that check them
on small instances, and the proofs that TLAPS checks.

Run from this directory: `tlc -config MCForge_crash.cfg MCForge` (and likewise for every
`<Module>_<run>.cfg`), `tlapm ForgeProofs.tla`.

## The system

| Component | Source | State | Operations | Modelled in |
|---|---|---|---|---|
| Controller | `controller.cpp` | `live`, `queue`, `slots_used`, `pid_owner`, `shutting_down` | start, recover, enqueue, schedule, launch, reap, finalize, cancel, shutdown, deadline, tick, exit | `Forge` |
| Event loop | `controller.cpp`, `os/` | `fifo_buf`, the poller, one batch of events | `loop`, `Poller::wait`, `on_fifo` | `EventLoop` |
| Job records | `store.cpp`, `forge.hpp` | `jobs/<id>/meta`, `jobs/<id>/output` | save, load, list | `Forge`, `JobLifecycle` |
| Atomic replacement | `store.cpp`, `worker.cpp` | a file, its temporary, what the medium holds | `atomic_write_file`, `publish_file`, `read_text_file` | `AtomicFile`, `DurableFile` |
| Record text | `store.cpp`, `main.cpp` | `Meta` and its text | `meta_to_text`, `text_to_meta`, `validate_meta`, flags of submit | `Records` |
| Workers | `worker.cpp` | phase, exit status | limits, gate, work, publish, exit, exec | `Forge`, `Region` |
| Shared region | `forge.hpp`, `worker.cpp`, `os/` | `start_gate`, `chunks_done`, `chunks[i]`, the event | open, wait, publish, verdict | `Region` |
| Slices | `forge.hpp`, `worker.cpp` | ranges of the input, bytes read | `split_ranges`, `feed_range` | `Slices` |
| Job ids | `store.cpp` | `next_id` and its record lock | `allocate_job_id` | `JobIds` |
| CLI | `main.cpp` | none of its own | submit, cancel (the rest only reads) | `Forge`, `JobIds`, `Records`, `EventLoop` |

**How they meet.** The CLI and the controller share the job records and the fifo. The
controller and its workers share a memory mapping, signals and exit statuses. A dead
controller and the next one share only the disk and, through `pid@starttime` in the record,
the processes that outlived the first. Slots, children and records are therefore three views
of the same jobs that must agree without any transaction between them.

**What is hard.** The controller is single-threaded, so its handlers do not interleave with
each other; but its effects are visible one at a time. It can be killed between any two of:
the `starting` record, each fork, the gate, the `running` record, the `persisting` record,
the output, the final record. Workers exit, fail or are killed at any of those points. Pids
are reused. A cancel, a deadline, a shutdown and a success race. A save may fail and nobody
acts on it. Lines of the fifo are lost, are cut by the reads or arrive after the shutdown;
signals of a kind merge; an event of a batch may concern a job that an earlier one finished.
Workers go to sleep on a word that is being set, and publish through memory that other
processes see later. The power may go in the middle of a save. Submitters race for ids and
may be killed holding the lock. `PROJECT.json` lists these hazards at their lines.

**What makes each component correct.**

- *Controller*: slots are counted exactly; every child's exit reaches its job; a job is
  started at most once; jobs told to stop end; a shutdown ends.
- *Records*: states follow the life cycle; a settled record stays settled; `completed` means
  all workers succeeded and the output exists; `cancelled` and `timed_out` were asked for.
- *Recovery*: recorded leftovers are killed; strangers with a reused pid are not.
- *Slices*: a partition of the input, as even as the blocks allow, that `O_DIRECT` accepts;
  reading ends even on a truncated file.
- *Ids*: unique, increasing, no record replaced, no lock left behind.
- *Event loop*: when it sleeps nothing is left to do; lines come whole and in order; no slot
  idles while a job waits.
- *Atomic replacement*: readers see whole versions, what was acknowledged survives a power
  loss, failed writers leave nothing behind.
- *Shared region*: no wake is lost, no work starts early, what is counted can be read, and
  the verdict is what happened.
- *Record text*: a number stays what was typed; what was saved is read back.

## Modules

| Module | What it is |
|---|---|
| `Forge` | controller, workers, CLI, records and the kernel facts between them; all their interleavings |
| `JobLifecycle` | abstract: what a reader of the records is promised. `Forge` implements it (`KeepsPromise`) |
| `MCForge` | the constant functions of the small instances of `Forge` |
| `ForgeProofs` | `Forge`: type correctness, slot accounting, permanence of outcomes, completed has output; and its processes: whose child each is, which pid it has, who is signalled |
| `ForgeRecordProofs` | its records: what an outcome says, one start per job, leftovers, the refinement of `JobLifecycle` |
| `JobIds`, `JobIdsProofs` | `allocate_job_id` by concurrent submitters, and its proofs |
| `Slices`, `SlicesProofs` | `split_ranges` and `feed_range`, and the proofs about both |
| `DurableFile` | abstract: what readers of a replaced file may rely on. `AtomicFile` implements it (`IsDurable`) |
| `AtomicFile` | `atomic_write_file`, the copy worker with `publish_file`, and `read_text_file`, call by call |
| `AtomicFileProofs` | the refinement of `DurableFile`, and the safety of `AtomicFile` |
| `Region` | the shared region of one job, its workers and its controller |
| `RegionProofs` | gate, publication and verdict |
| `EventLoop`, `EventLoopProofs` | how lines, signals and ticks reach the handlers, on either poller, and its proofs |
| `Records` | the flags of `forge submit`, the text of a record, and the `Meta` read from it |
| `RecordsProofs` | numbers are those typed, records are read back; what the parser, the printer and the reader of lines compute |

The modules meet at these places. `Forge` takes a save to replace the record as a whole or
not at all: that is what `AtomicFile` shows of a controller that is killed. It takes a line,
a signal or a timer to be handled in one step and again and again until nothing is pending:
that is `QuietMeansDrained` and `LinesInOrder` of `EventLoop`. It takes a worker to be held
by the gate, and a job's verdict to be `ok` only if every worker succeeded: `GateHoldsWork`
and `VerdictIsRight` of `Region`. It takes the ids of its jobs to be distinct: `UniqueIds`
of `JobIds`. (In the code the two sides run together; the modules are separate so that each
can be checked in full.)

### Forge: state and code

`record`, `meta_procs` are the `state=` and `procs=` lines of `jobs/<id>/meta`; `output`
says whether `jobs/<id>/output` exists. `proc` is the process table: phase, pid, owner job,
whether the controller is still the parent, pending signal, exit status, and the worker's
slot and gate in the shared region. `live`, `queue`, `slots_used`, `pid_owner` and
`shutting_down` are the fields of `Controller`; `how` is `ProcRef::how`. `pc`, `cur`,
`todo`, `outcome` are the controller's program counter and locals where a handler is split:

| `pc` | The controller is |
|---|---|
| `down` | not running |
| `boot` | in `recover`, with `todo` still to look at |
| `schedule` | in `schedule`'s loop |
| `fork` | in `launch_job`, after the `starting` record |
| `launched` | in `launch_job`, gate open, before the `running` record |
| `loop` | in `epoll_wait` |
| `reap` | in `reap`'s loop |
| `output` | in `finalize`, after the `persisting` record |
| `finish` | in `finalize`, before the final record |

A handler that no crash and no other process can observe half way is one action. `Save` is
`set_state`/`save_meta`: the record is replaced as a whole, or (`Scarcity`) not at all, and
the controller goes on either way, as it does in the code. `Scarcity` also lets a deadline
timer fail to be created.

Choices worth knowing:

- A process is identified by its birth number; its pid is separate. A recorded
  `pid@starttime` is therefore a birth number, and "start time still matches" is "that
  process still exists". Linux start times are in clock ticks, so two processes of one pid
  within a tick are not told apart there; on macOS the granularity is a second.
- Without `ReusePids` the kernel hands out fresh pids upwards. With it, any free pid can
  come back, to a worker or to a program of somebody else (`Stranger`).
- `kill(-pid)` is modelled for the group leader; grandchildren of an exec'd program are not
  processes of the model.
- A signal is pending until the process dies. A built-in worker may still finish first, and
  an exec'd program may ignore SIGTERM for ever; only a pending SIGKILL is sure to end it.
- epoll may return several events in one batch. Each is an action of its own; the `schedule`
  after a batch changes nothing that the `schedule` after each handler has left undone,
  since a slot is freed only by `reap`.
- SIGTERM, SIGINT and a SHUTDOWN line all end in `handle_line("SHUTDOWN")` and are one
  action. `job.finished` is not kept: `finalize` removes the job from `live` in the same
  call, so it cannot be entered twice.
- The two hash operations behave as `count` does: they have a body to persist.
- When a fork fails, `launch_job` opens the gate for the workers it has already forked, and
  then kills them one after the other (`controller.cpp:593`). `GiveUp` and `ForkFails` are
  these two steps: a worker may get to work in between, and outlives a crash there.
- `Malformed` is the set of jobs whose record does not pass `validate_meta` when the
  controller loads it.

### JobLifecycle

The diagram of `forge.hpp:67-80` with the arrows the code adds: rejected or failed launches,
copy and exec that have nothing to persist, failure of an old record at a restart, and a
`queued` record that is queued again. The mapping is the identity on `record` and `output`;
exec jobs are left out of `Writes`, since the controller neither writes nor checks their
output.

### JobIds

One action per system call of `allocate_job_id`: lock, read, truncate, write, unlock, then
`save_meta`. `next_id = 0` is an absent or empty file: both read as "no id so far". A
process may die anywhere; the kernel then releases its record lock, and so does every early
return. `Torn` says whether an update may end between the `ftruncate` and the `pwrite`. Ids
are naturals: 2^64 submits are out of reach. A file that is not a number is refused by the
code, and a `pread` that fails with an I/O error reads as an empty file; neither is
modelled.

### Slices

`split_ranges` one slice per step, `feed_range` one `pread` (or one mapping) per step, in
`mmap`, `read` and `direct` mode. `Shrink` truncates the file at any time. A read may be
short: by whole blocks under `O_DIRECT`, by any amount otherwise. A mapped page beyond the
end of the file is SIGBUS, and the tail of the last page reads as zeros. Any call may fail
on any file (`CallFails`): an open, an `O_DIRECT` open that the file system refuses
(`GUIDE.md:112`), a mapping that `--mem-mb` does not leave room for (`GUIDE.md:170`),
`posix_memalign`, a `pread`, the sink. `res` keeps such a failure (`error`) apart from a
read that was refused for its alignment (`unaligned`) and from one beyond the end of the
file (`beyond`): a worker may fail on an intact file, but `SlicesAreReadable` says that it
does not for one of these two reasons, which would be the fault of `split_ranges` or of the
read loops.

### AtomicFile and DurableFile

`names` is the directory as processes see it and `bytes` the contents of the inodes;
`entries` and `blocks` are the sets of directories and contents that the medium may hold. A
directory operation or a write adds to them, an `fsync` reduces them to what is seen, and a
power loss picks one of each. `task` is the program counter of each writer: open of the
temporary, `Parts` writes, fsync, rename, fsync of the directory; a call may fail, and the
writer may be killed in between. A writer stands for its pid, since `<name>.tmp.<pid>` is
what the temporary is called: a later process with that pid takes over what a killed one
left (`O_TRUNC`, `how = "replace"`) or is refused (`O_EXCL`, the copy worker, `how =
"copy"`). `anchored` says whether the medium has the entry of the job directory in `jobs/`,
which no fsync forces out. `renames`, `order` and `acked` are counters for the properties:
which rename put an inode in place, and the latest one whose write returned true.

`DurableFile` has two variables, the file and the set of versions a power loss may bring
back. The refinement mapping reads them from the final name: `File`, and `Safe`, the union
of what the directories and contents on the medium allow.

### Region

`at` is the program counter of each worker: `limits`, then `load` and `wait` (the futex
loop, with its load and its sleep apart), `asleep`, `work`, `fill`, `publish`, `notify`,
`exit`. `futex_wait` checks the word and sleeps in one step, as the kernel does. `WakesAll`
is the `futex_wake` of Linux; without it, macOS. `made[w]` stores to a slot were made and
`visible[w]` of them can be seen by others: an x86 or ARM machine may delay them, and only
the release increment of `chunks_done` (and the end of the process) waits for them. `event`
is the eventfd or the pipe, `seen` what `on_event` loaded last, `result` what `results_ok`
returned. A worker may be killed anywhere, also between a store and the increment; the
controller may fail to fork or crash. An exec job has no region.

### EventLoop

`pipe` holds pieces: a line is two, its newline is in the second, and a read takes up to
`ReadSize` of them, so that lines are cut. `pc` and `batch` are the loop between its calls:
`wait` reports a set of events in some order, the handlers run one after the other. On
`epoll` the fifo is ready while it holds something and one signal is read per report; on
`kqueue` (`EV_CLEAR`) it is ready when something came since the last report, and each signal
is reported. `signals` has at most one of a kind. `reap`, `shutdown`, `submit`, `cancel` and
`on_tick` are the handlers of `Forge`, reduced to one child per job and to what wakes or
stops the loop. `sent`, `handled` and `lost` record which lines were written, handed over
and discarded.

Choices worth knowing: any line may be written at any time, also a repeated one; a
`SHUTDOWN` line is left out because `SIGTERM` does the same; `schedule` picks any jobs of
the queue (the order of the queue is `Forge`'s). A line whose beginning was discarded would
be handed over as line 0.

### Records

A text is a sequence of characters and words. Numbers have few bits and a small base:
`parse_u64`, `parse_i64`, the narrowing of `need_i` and `operator<<` are written out for any
base and width. One field stands for those of its kind (`state` and `op`, `path`, `workers`
and `nice`, `mem_mb`). The actions are the life of one record: typed, checked, resolved by
`realpath`, saved, edited by hand, loaded, checked again and saved with its new state.
`typed` and `saved` remember what the properties compare. What a number means is defined
apart from the parser, by place value (`NumberOf`).

## Runs

| Run | Shows | Distinct states |
|---|---|---|
| `shutdown` | with a two-worker job and pid reuse, failed forks and workers, a shutdown: slots stay counted, even when an exit is lost | 1.26 M |
| `crash` | no job runs twice, none is completed by some of its workers, no outcome is taken back, recorded leftovers are killed, records match memory, and `Forge` implements `JobLifecycle`, with a controller that is killed anywhere and started again | 1.74 M |
| `saves` | when any save or timer fails, with crashes and a malformed record: completed means an output, a settled record stays, and only a cancel or a shutdown makes a job `cancelled`, only its own timer `timed_out` | 2.53 M |
| `reuse` | pid reuse with one worker per job: no exit lost, no stranger signalled | 2.95 M |
| `live` | stopped jobs end, accepted jobs end, a shutdown ends the controller | 87 k |
| `ids` | unique, increasing ids; no record lost; no submit waits for ever | 2.6 k |
| `read` | partition, evenness, no read refused for its alignment or beyond the end of an intact file, termination; any call may fail | 63 k |
| `file` | whole reads, acknowledged writes kept, temporaries left only by the dead, and the refinement of `DurableFile`, with kills, failed calls and power losses | 748 k |
| `region` | no lost wake, no early work, counted slots can be read, a right verdict; every worker ends and every job is decided | 39 k |
| `loop` | nothing is left behind when the loop sleeps, lines whole and in order, no idle slot, a shutdown ends although children ignore SIGTERM; both pollers | 1.47 M |
| `record` | numbers are those typed, records are read back as saved | 22 k |

One run is expected to find a violation, because the code does something the documents rule
out:

| Run | Disagreement |
|---|---|
| `macgate` | on macOS `futex_wake` wakes one of the workers that sleep at the gate (`os/mac/platform.cpp:271`), against `GUIDE.md:90`: the others sleep on in front of the open gate for 30 seconds and then fail the job |

### Other disagreements

Some were found by running the modules with other constants. The instance that shows them is
given, so that it can be repeated.

- `--slots` caps jobs, not processes, unlike `forge.hpp:52`: a job with two workers runs two
  processes in one slot (`slots_max = 1`, `TwoOne`).
- Finishing a job erases the `pid_owner` entry of a recycled pid (`controller.cpp:167`); the
  new owner never finishes. `ChildrenAccountedFor` fails in the `shutdown` instance. It
  holds in `reuse` because there, with one worker per job, the pids of a finished job are
  zombies' until `finalize`; with two a pid is free while its job is still live. The job
  that waits for the lost exit also keeps the pid in its list, and a later stop signals
  whatever program has that pid by then.
- Workers are forked before the `running` record names them (`controller.cpp:545` to `630`);
  after a crash in between they are in no record and survive. `RecordedLeftoversKilled`
  therefore speaks of recorded ones.
- A SUBMIT line that is read during the shutdown marks a running job `cancelled`
  (`controller.cpp:455`); the job may still complete. `TerminalIsFinal` fails in the `crash`
  instance with `AllowShutdown = TRUE`. `LateSubmit` names this step, and the theorems about
  records that it breaks say so.
- A torn update of `next_id` (`store.cpp:292`) restarts the ids at 1 and replaces
  `jobs/1/meta`: `UniqueIds` and `NoRecordLost` fail with `Torn = TRUE`.
- `forge.hpp:206`, "Child writes nothing shared until it sees start_gate == 1": a worker
  whose limits cannot be set publishes its failure before the gate (`worker.cpp:613`).
  `GateHoldsWork` says what does hold: no good result comes early.
- `save_meta` makes the job directory but forces out only what is in it (`store.cpp:605`): a
  power loss after a successful submit may take the whole directory. `AckedSurvives` is
  about directories that are not lost.
- `validate_meta` looks at the path before `real_path` (`main.cpp:236`) resolves it. Where a
  link leads to a name with a newline the record is unreadable; where it leads to one that
  ends in `\r` the `\r` is lost. `SavedIsReadBack` makes the two exceptions.
- `need_i` narrows to `int` before the limits are checked (`main.cpp:206`): `--workers
  4294967297` is one worker. `NumbersAreThoseTyped` says "modulo 2^32".
- An exec job is `completed` when its program exits 0, whether or not there is an output
  (`controller.cpp:290`, against `README.md:95`), which is why `CompletedHasOutput` leaves
  exec out.
- `launch_job` and `enqueue` fail a job that never started, and copy and exec go from
  `running` to `completed` directly (`controller.cpp:475`, `500`, against the diagram at
  `forge.hpp:70`). `JobLifecycle` has these arrows.
- `split_ranges` gives the remainder of the blocks to the first slices, not to the last
  (`forge.hpp:152`, against `MODULES.md:46`).

### Bounds

*Forge.* Two jobs of different operation and priority, the smaller id having the lower
priority, so that every launch is a choice; up to two workers for one of them, so that one
can fail while its sibling runs; one slot (one job waits) or two (both run); one cancel per
job in `Cancels`; a fifo of one line, which is full after one submit; one restart
(`MaxStarts = 2`): the state a restart inherits is the disk and the orphans, and a second
one inherits nothing new in kind. As many processes as the jobs can fork, plus one stranger
in `reuse` (in `shutdown` a stranger takes the place of a worker); a job that the model ran
twice would use processes that `RunsOnce` counts. `crash` and `saves` are separate because
failed saves void the promises that `crash` checks: after a failed save the disk does keep
an old state, and a restart may launch the job again.

*Slices.* A block and a page are 2 bytes and the buffer 4, so sizes up to 9 give no block,
one block, full and partial buffers, and fewer blocks than workers.

*AtomicFile.* Two pids, so that two writers overlap and one takes over the temporary of a
dead one; three writes, so that a third can follow a pair that raced; two parts, so that a
version can be half written. The theorems cover the other instances.

*Region.* Two workers, so that one can sleep while the other is woken, publishes or dies;
two stores per slot, so that one can be seen without the other; one spurious wake each.

*EventLoop.* Two jobs and one or two slots, each job possibly left by the last controller;
one of them is also submitted and cancelled. Three lines of two pieces, reads of three: the
second line is cut and put together again. The pipe and `fifo_buf` hold two lines each, so
that two are handed over from one buffer, and a third that is sent while they are read
overflows it. Lines that are handled before and after a discard take a fourth one, which is
left to `LinesComeInOrder`. `MaxLines` bounds only the lines; ticks, children's ends and
batches are not bounded. (A `SIGTERM` comes until the shutdown has begun; further ones
repeat what it did.)

*Records.* Base 3 with 32 values for 64 bits and 8 for an `int`: every spelling of up to
four characters reaches the limit of `parse_u64` (31 is read, 32 and more are refused),
negation that wraps, and the narrowing to `int`. Two saves: the one of submit and one by the
controller.

Deadlock is not checked: a controller that was shut down, a job that was decided, a submit
that returned and a machine whose jobs are done really stop.

### Fairness

`FairSpec` of `Forge` assumes what the code's loop and the kernel give, and no more:

- the controller finishes what it is doing (no handler blocks, apart from the `waitid` after
  SIGKILL), and answers SIGCHLD and the fifo;
- the tick is periodic, so a job that is overdue gets its SIGKILL; a deadline timer expires;
- a process with SIGKILL pending dies, and a built-in worker makes progress.

Nothing is assumed of the CLI, of crashes and restarts, of strangers, or of an exec'd
program: in `live` the exec job has a deadline, because without one it may run for ever.
`FairSpec` of `JobIds` lets each submitter run on, and its `F_SETLKW` return when the lock
stays free. That of `Slices` lets the controller finish the split and each worker run on.
That of `Region` lets the controller run as long as it has not crashed, and each worker run
on; a sleep ends after 30 seconds at the latest, which is what the timeout in the code is,
and a store is not held back for ever. That of `EventLoop` is the weakest: the loop runs on,
and the timer expires again and again. No child has to end unless it is killed, and nobody
has to send anything. `AtomicFile` and `Records` have no liveness properties.

## Proofs

Each theorem holds for every value of the constants under the assumption its module names
(`ConstantsAssumption`, `TornAssumption`, `SlicesAssumption`, `RegionAssumption`,
`AtomicFileAssumption`, `EventLoopAssumption`, `RecordsAssumption`): any number of jobs,
workers, slots, processes, restarts, sizes, lines, writers and writes, any base, width and
length of numbers. Every safety property and refinement that a run checks is also proved.

The theorems about `Forge` have three hypotheses between them, each of which the code needs;
the type, the slots, `OutcomesAreKept`, `CompletedJobsHaveOutput` and `OutcomesAreDeserved`
need none:

- `~Scarcity`: saves do not fail. After a failed save the disk keeps an old state, and a
  restart may launch the job again. (`saves` is the instance with failures.)
- `[][~LateSubmit]_vars`: no `SUBMIT` line is read for a live job during a shutdown. It is
  the disagreement described above; without it the job's record says `cancelled` while its
  workers run. `CrashesKeepPromises` shows that the hypothesis is only about shutdowns:
  where there is none, as in the run `crash`, it always holds.
- `~ReusePids \/ \A j \in Jobs : Fan[j] = 1`: pids do not come back, or each job has one
  worker. The instance `shutdown`, with both, loses an exit.

*Forge: type and slots* (`ForgeProofs`)

- **`TypeCorrect`** (`TypeOK`). Inductive as it stands. Its parts are proved preserved
  action by action, with frame lemmas for the actions that leave a part alone. The conjunct
  `pc \in {...} => cur \in Jobs` is what makes every use of `cur` well-typed.
- **`SlotsAreCounted`** (`SlotAccounting`). Not inductive: from a state with a slot held by
  a queued job, launching it would count it once and add one. `SlotInv` adds where a slot
  can be held (`HoldersAreLaunched`), what waits in the queue (`QueuedWait`), that `recover`
  meets only jobs that are not live yet (`UnseenAreAbsent`), and what the job being launched
  or finished has (`CurIsLaunched`: while forking it holds no slot and one is free). The
  counting itself rests on the cardinality theorems of the library.
- **`OutcomesAreKept`** (`SettledStays`). From the same invariant: every save is of a live
  job or of one whose record was just read as not terminal.
- **`CompletedJobsHaveOutput`** (`CompletedHasOutput`). With the invariant that a pending
  `completed` outcome already has its output, and that outputs never disappear. It covers
  failing saves and crashes.

*Forge: processes* (`ForgeProofs`)

- `ProcInv` holds without any hypothesis: two processes that a pid can name have different
  pids, what `how` says of a reaped worker is how it ended, the workers in `live` are that
  job's own, and `pid_owner` never names a wrong job (it may name none). `QuietStep`
  collects what most actions leave alone, so that the others can be proved one by one.
- **`ExitsAreAccountedFor`** (`ChildrenAccountedFor`). `PidInv` adds that an unreaped
  worker's pid is taken and `pid_owner` knows it. Where pids come back but jobs have one
  worker, the argument is that a job's only pid is a zombie's until `finalize` has erased
  its entry.
- **`StrangersAreSafe`** (`StrangersUnharmed`). From `ProcInv` and `RecordedAreTheJobs`:
  what a record names are that job's workers, so that the start time tells them from others.

*Forge: records* (`ForgeRecordProofs`)

- **`OutcomesAreDeserved`** (`OutcomeWasAskedFor`), about steps: a record turns `cancelled`
  only for a job somebody has cancelled or while the controller is shutting down, it turns
  `timed_out` only for a job whose stop reason is its deadline, and that reason is given
  only by the job's own timer, once. `LinesAreHonest` says that the lines in the fifo are of
  cancels that were asked for. `AskInv` follows what the controller remembers: the stop
  reasons and timers of live jobs (`ReasonsDeserved`) and the outcome at hand in `finalize`
  (`OutcomeDeserved`). Both are needed, since the record is written steps after the reason
  was given. `Excused`, the jobs that may be cancelled, only grows until the controller
  ends; then its memory goes with it (`ExcusedGrows`).
- **`JobsRunOnce`** (`RunsOnce`), **`CompletedJobsAreDone`** (`CompletedByAllWorkers`). The
  invariant says where the processes of a job can be for each state of its record:
  `StatesFit` ties the state in memory to the controller's program counter, `RecordTells`
  the record to the state, `HeldInProgress` says that what a dead controller had in mind is
  in progress until `recover` has looked at it, and `OnceInv` that a waiting record has no
  process (`WaitingUnforked`), that a job with a slot has forked exactly its slices
  (`HoldersForked`), and that those of a completed one have ended well (`CompletedWell`).
- **`LeftoversAreKilled`** (`RecordedLeftoversKilled`). `LeftoversAreFound`: while a worker
  that a record names is alive and not signalled, the record is in progress, so that
  `recover` meets it. Saves may fail here.
- **`RecordsMatchMemory`** (`RecordMatchesMemory`), **`OutcomesAreFinal`**
  (`TerminalIsFinal`). Stronger than what is stated: `RecordIsState` holds at every step and
  not only between two events.
- **`PromiseIsKept`** (`KeepsPromise`), **`CrashesKeepPromises`**: `Forge` implements
  `JobLifecycle`. Each action maps to a step of one job along the arrows, to the shutdown
  that cancels the queue at once, to an output, or to a stutter; `OutputInv` puts the output
  before the `completed`.

*The other components*

- **`SlicesCover`** (`SlicesCoverInput`), **`SlicesAreEven`** (`WorkIsEven`),
  **`SlicesCanBeRead`** (`SlicesAreReadable`). `SplitInv` gives the slices in closed form:
  slice `k` begins at `Before(k - 1)`, an equal share of the blocks for each slice before it
  and one of the odd ones for the first. Given that, no induction over the slices is needed:
  `CutInv` follows the sum `off` from one step to the next. `ReadInv` says that a read that
  is not at the unaligned tail stands at a multiple of the alignment, which is why
  `O_DIRECT` does not refuse it. The lemmas about division are proved by Z3.
- **`QuietIsDrained`** (`QuietMeansDrained`), **`LinesComeInOrder`** (`LinesInOrder`),
  **`SlotsAlwaysFilled`** (`SlotsAreFilled`). `StreamInv` says that there is a line `g` up
  to which every line was handled, in order, or discarded, and that `fifo_buf` and the pipe
  behind it hold the pieces of the lines after `g`, whole and in order; a read moves pieces
  within that stream, `OneLine` advances `g` by one and a discard to the end. `RestInv` says
  that what is left in `fifo_buf` when the pipe is empty ends with a newline, `WakeInv` that
  what is reported once is still due or in the batch: the fifo on kqueue, the signal of a
  child that ended. `SlotInv` follows `slots_used`; that it holds after `recover` needs that
  the jobs with fewer than `slots_max` smaller ones are `slots_max` at most, and exactly so
  many if any is left over (`FirstJobs`). This is why the assumption has finitely many jobs.
- **`IdsAreUnique`, `IdsIncrease`, `RecordsAreKept`** (`UniqueIds`, `IdsGrow`,
  `NoRecordLost`), for `~Torn`. `IdInv` adds that at most one process is inside the lock and
  that, outside an update, the file is at least as large as every id given out. The
  hypothesis is needed: the run with `Torn = TRUE` is the counterexample without it.
- **`NoWakeIsLost`** (`NoLostWake`, if `WakesAll`), **`WorkWaitsForTheGate`**
  (`GateHoldsWork`), **`CountedSlotsCanBeRead`** (`CountedSlotsAreVisible`),
  **`VerdictsAreRight`** (`VerdictIsRight`). `RegionInv` has one part per mechanism:
  `ForkInv` (who is born while the controller forks and when the gate opens), `GateInv`
  (work only behind the open gate), `SlotInv` (how many stores a worker has made at each
  label, and what its exit status says about its slot), `EndInv` (a verdict comes when every
  worker is reaped and its stores are visible, or a fork has failed) and `CountInv`:
  `chunks_done` lies between the number of published slots and the number of whole visible
  ones. The last is the protocol of `forge.hpp:204`: it is what makes the verdict of a job
  whose worker died between its increment and its exit right. `macgate` is the
  counterexample to the first without `WakesAll`.
- **`ImplementsDurableFile`** (`IsDurable`), **`ReadersSeeWholeFiles`** (`ReadsAreWhole`),
  **`AcknowledgedIsKept`** (`AckedSurvives`), **`WritersCleanUp`**
  (`TempsAreLeftByTheDead`). `FileInv` says that what is seen is among what the medium may
  hold (`SeenInv`), that in every directory the medium may hold an inode has one name and no
  temporary of now is the file (`NameInv`: this is what lets a writer change its temporary
  without anybody noticing, even after a power loss), how far each writer is (`TaskInv`),
  and that whatever may be found under the final name is whole (`WholeInv`). A rename then
  is `Install`, the two fsyncs and the kernel's writeback are `Settle`, and everything else
  but a power loss is a stutter. `ReadInv` and `AckInv` add the reader's inode and the order
  of the renames.

*Records* (`RecordsProofs`)

- **`RecordsNumbers`** (`NumbersAreThoseTyped`), **`RecordsRoundTrip`** (`SavedIsReadBack`),
  from **`RecordsInvariant`**. `IInv` says that what is in memory is a record with the
  numbers typed (`Valid`), that the file holds `meta_to_text` of what was saved or one of
  the three edits of it, and that what was loaded is what was saved but for its path
  (`File`); a copy keeps its one worker. The steps are short; the work is in what the
  operators compute.
- These are recursive functions and folds over data. The library's induction rules take an
  operator as a parameter, which the provers cannot instantiate; `Induction` and
  `StrongInduction` instead take a *set* of naturals, and rest on `MinOfNats`, that a set of
  naturals which is not empty has a least element (from the library's
  `NatLessThanWellFounded` and `WFMin`). A `CHOOSE`d recursive function is unfolded after
  its existence is proved in the same way (`ValueExists`, `FoldsLinesExists` and their
  like).
- Numbers: `Horner` is what digits mean from the left. `ParseIsHorner` says that `parse_u64`
  yields it exactly when it fits and nothing otherwise (no intermediate wrap goes
  unnoticed), `NumberIsHorner` that it is the sum by place value of `NumberOf`, `CharsAre`
  that what `operator<<` writes has that value; so `ParseU` and `ParseI` read back what was
  written, and `NeedI` is right modulo the width of an `int`.
- Lines: `LinesOfLine` splits a text at its first newline and `ReadTextLine` reads that line
  first, so that `ReadField` follows a text field by field, with or without an editor's `\r`
  (`DosLine`). `ReadMeta` puts the six fields together.
- The paths are the seven kinds of `Paths`: plain, with `=`, with `#` first, with `\r` last
  or inside, with a newline, and empty.

Only model-checked: the liveness properties of `live`, `ids`, `read`, `region` and `loop`.
Fairness and ENABLED are out of the prover's reach.

## Not modelled

- SHA-256 and the byte loops: pure data, covered by the program's self test.
- The displays (`list`, `show`, `logs`, `device`, `status.txt`, help): they only read or
  print. So do `submit --wait`, and `cancel` while it polls.
- The macOS backend, apart from its poller (`EventLoop`) and its `futex_wake` (`Region`): it
  implements the same interface.
- Grandchildren of an exec'd program, and what the advice, affinity and priority calls do to
  the speed of a worker.
- The products `deadline_s * 1000` (`controller.cpp:625`) and `mem_mb * 1024 * 1024`
  (`worker.cpp:446`), which wrap for large flags: the repository does not say which values
  it accepts.
- A record that cannot be read at all, which the controller skips; `next_id` with something
  else than a number in it; a `pread` of it that fails.
- Growth of the input during a job; truncation is modelled.
- Delivery of a SUBMIT line when the fifo is full or the controller dies: the loss is in
  `Forge`, but no property demands more, since the code promises none. Starvation between
  priorities: nothing ages, and nothing says it should.

## Plan

Done: `Forge` with `JobLifecycle`, `JobIds` and `Slices` first, because everything else
hangs on them; then `AtomicFile` with `DurableFile`, `Region`, `EventLoop` and `Records`.
The safety properties and both refinements are proved. What would come next:

1. `RecordsRoundTrip` for every path instead of the seven kinds of `Paths`.
2. `OutcomesAreFinal` and `LeftoversAreKilled` with late `SUBMIT` lines, stated as what then
   still holds: the record says `cancelled` until the job ends.
3. `Region` under the `futex_wake` of macOS: that the sleepers left behind are the only
   loss, and end by their timeout.
