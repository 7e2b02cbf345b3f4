----------------------------- MODULE EventLoop -----------------------------
(***************************************************************************)
(* How the world reaches the controller's handlers: lines through the      *)
(* control fifo, the ends of children through SIGCHLD, and the 200 ms      *)
(* tick, through one poller that reports them in batches (send_fifo,       *)
(* Poller::wait of both systems, on_fifo, loop). Forge takes a pending     *)
(* line, signal or timer and handles it in one step; here a line is cut by *)
(* reads, signals of a kind merge, and an event that the poller reports    *)
(* once and the handler does not use up is gone. The jobs are only as      *)
(* detailed as that needs: one child each.                                 *)
(***************************************************************************)
EXTENDS Naturals, FiniteSets, SequencesExt

CONSTANTS
    Jobs,
    Submits,        \* the jobs somebody may submit,
    Cancels,        \* and cancel
    Slots,          \* the values of --slots
    MaxLines,   \* bound: lines sent
    PipeSize,   \* what the pipe holds (64 KiB), in pieces: a line is two, and its newline is
    ReadSize,   \* in the second; what one read takes (1024 bytes);
    MaxBuffer   \* and what fifo_buf may hold (65536)

ASSUME EventLoopAssumption ==
    /\ Jobs \subseteq Nat /\ IsFiniteSet(Jobs) /\ Submits \cup Cancels \subseteq Jobs
    /\ Slots \subseteq Nat \ {0} /\ MaxLines \in Nat
    /\ PipeSize \in Nat \ {0, 1} /\ ReadSize \in Nat \ {0} /\ MaxBuffer \in Nat

VARIABLES
    backend,        \* "epoll" (level-triggered) or "kqueue" (EV_CLEAR)
    slots_max,
    pipe, fresh,    \* the pieces in the fifo; has one come since kqueue reported it last?
    sent,           \* how many lines were written into the pipe
    signals,        \* pending, at most one of a kind
    tick,           \* has the timer expired?
    pc, batch,      \* the loop's next call, and the events it has not dispatched yet
    fifo_buf,
    handled, lost,  \* the lines given to handle_line, in order (0: not a whole line); discarded
    queue, running, zombies, settled,   \* the jobs; zombies: their child has ended
    stopping, overdue,                  \* SIGTERM sent; sent before the last tick
    shutting_down

worldVars == <<backend, slots_max, sent, tick>>
jobVars   == <<queue, running, zombies, settled, stopping, overdue, shutting_down>>
lineVars  == <<fifo_buf, handled, lost>>
vars      == <<worldVars, pipe, fresh, signals, pc, batch, lineVars, jobVars>>

\* A SHUTDOWN line does what SIGTERM does, and is left out.
Commands == ({"SUBMIT"} \X Submits) \cup ({"CANCEL"} \X Cancels)
Sent     == 1..sent

\* recover has queued what the last controller left, and launched what the slots allow.
Init ==
    /\ backend \in {"epoll", "kqueue"} /\ slots_max \in Slots
    /\ pipe = <<>> /\ fresh = FALSE /\ sent = 0 /\ signals = {} /\ tick = FALSE
    /\ pc = "check" /\ batch = <<>>
    /\ fifo_buf = <<>> /\ handled = <<>> /\ lost = {}
    /\ \E left \in SUBSET Jobs :
          /\ running = {j \in left : Cardinality({k \in left : k < j}) < slots_max}
          /\ queue = left \ running
    /\ zombies = {} /\ settled = {} /\ stopping = {} /\ overdue = {}
    /\ shutting_down = FALSE

-----------------------------------------------------------------------------
(* Outside the controller. *)

\* send_fifo: a short line goes into the pipe as a whole, or (EAGAIN) not at all.
Send(command) ==
    /\ pc # "stopped" /\ sent < MaxLines /\ Len(pipe) + 2 <= PipeSize
    /\ sent' = sent + 1
    /\ pipe' = pipe \o <<[line |-> sent + 1, of |-> command, newline |-> FALSE],
                        [line |-> sent + 1, of |-> command, newline |-> TRUE]>>
    /\ fresh' = TRUE
    /\ UNCHANGED <<backend, slots_max, tick, signals, pc, batch, lineVars, jobVars>>

ChildEnds(j) ==
    /\ j \in running
    /\ running' = running \ {j} /\ zombies' = zombies \cup {j}
    /\ signals' = signals \cup {"SIGCHLD"}
    /\ UNCHANGED <<worldVars, pipe, fresh, pc, batch, lineVars, queue, settled, stopping, overdue,
                   shutting_down>>

Terminate ==
    /\ pc # "stopped" /\ ~shutting_down
    /\ signals' = signals \cup {"SIGTERM"}
    /\ UNCHANGED <<worldVars, pipe, fresh, pc, batch, lineVars, jobVars>>

TimerExpires ==
    /\ pc # "stopped" /\ ~tick
    /\ tick' = TRUE
    /\ UNCHANGED <<backend, slots_max, sent, pipe, fresh, signals, pc, batch, lineVars, jobVars>>

-----------------------------------------------------------------------------
(* Poller::wait. *)

FifoReady == IF backend = "epoll" THEN pipe # <<>> ELSE fresh
Ready == {e \in {"fifo", "tick"} \cup signals : (e = "fifo" => FifoReady) /\ (e = "tick" => tick)}

\* epoll_wait reports the signalfd once, and one signal is read from it; kqueue reports each.
Reported ==
    IF backend = "kqueue" \/ signals = {} THEN {Ready}
    ELSE {(Ready \ signals) \cup {s} : s \in signals}

wait ==
    /\ pc = "wait" /\ Ready # {}
    /\ \E events \in Reported :
          /\ batch' \in SetToAllKPermutations(events)
          /\ Len(batch') = Cardinality(events)
          /\ signals' = signals \ events
    /\ tick' = FALSE /\ fresh' = FALSE
    /\ pc' = "dispatch"
    /\ UNCHANGED <<backend, slots_max, sent, pipe, lineVars, jobVars>>

-----------------------------------------------------------------------------
(* The handlers. *)

Idle == queue \cup running \cup zombies = {}

\* schedule, on a queue: slots_used counts a job until it is reaped.
slots_used == Cardinality(running \cup zombies)
FreeButOne(q) ==
    {S \in SUBSET q : Cardinality(S) = Min({Cardinality(q), Max({0, slots_max - slots_used - 1})})}
Starts(q) == {S \in SUBSET q : Cardinality(S) = Min({Cardinality(q), slots_max - slots_used})}
Schedules(q) == \E S \in Starts(q) : running' = running \cup S /\ queue' = q \ S

ReapOne  == IF zombies = {} THEN {} ELSE {CHOOSE j \in zombies : TRUE}

\* reap: waitid until there is no zombie left.
ReapAll  == zombies
reap ==
    /\ zombies' = zombies \ ReapAll
    /\ settled' = settled \cup ReapAll
    /\ stopping' = stopping \ ReapAll /\ overdue' = overdue \ ReapAll
    /\ UNCHANGED <<queue, running, shutting_down>>

\* handle_line; SIGTERM is handled as a SHUTDOWN line.
shutdown ==
    /\ shutting_down' = TRUE
    /\ settled' = settled \cup queue /\ queue' = {}
    /\ stopping' = stopping \cup running \cup zombies
    /\ UNCHANGED <<running, zombies, overdue>>

Live(j) == j \in queue \cup running \cup zombies

\* enqueue ends with schedule.
submit(j) ==
    /\ IF shutting_down \/ Live(j) \/ j \in settled THEN UNCHANGED <<queue, running>>
       ELSE Schedules(queue \cup {j})
    /\ settled' = IF shutting_down THEN settled \cup {j} ELSE settled
    /\ UNCHANGED <<zombies, stopping, overdue, shutting_down>>

cancel(j) ==
    /\ queue' = queue \ {j}
    /\ settled' = IF j \in running \cup zombies THEN settled ELSE settled \cup {j}
    /\ stopping' = IF j \in running \cup zombies THEN stopping \cup {j} ELSE stopping
    /\ UNCHANGED <<running, zombies, overdue, shutting_down>>

handle_line(command) ==
    \/ command[1] = "SUBMIT" /\ submit(command[2])
    \/ command[1] = "CANCEL" /\ cancel(command[2])

TickOnly ==
    /\ overdue' = stopping
    /\ UNCHANGED <<running, zombies, signals, queue, settled, stopping, shutting_down>>

\* on_tick: SIGKILL to the jobs whose SIGTERM is more than a second old.
on_tick ==
    /\ running' = running \ overdue /\ zombies' = zombies \cup (running \cap overdue)
    /\ signals' = signals \cup IF running \cap overdue = {} THEN {} ELSE {"SIGCHLD"}
    /\ overdue' = stopping
    /\ UNCHANGED <<queue, settled, stopping, shutting_down>>

-----------------------------------------------------------------------------
(* loop *)

check ==
    /\ pc = "check"
    /\ pc' = IF shutting_down /\ Idle THEN "stopped" ELSE "wait"
    /\ UNCHANGED <<worldVars, pipe, fresh, signals, batch, lineVars, jobVars>>

Dispatch(event) ==
    /\ pc = "dispatch" /\ batch # <<>> /\ Head(batch) = event
    /\ batch' = Tail(batch)
    /\ UNCHANGED <<worldVars, pipe, fresh, lineVars>>

OnSigchld == Dispatch("SIGCHLD") /\ reap /\ pc' = "reaped" /\ UNCHANGED signals
OnSigterm == Dispatch("SIGTERM") /\ shutdown /\ UNCHANGED <<signals, pc>>
OnTick    == Dispatch("tick") /\ on_tick /\ pc' = IF shutting_down /\ Idle THEN "stopped" ELSE pc
OnFifo    == Dispatch("fifo") /\ pc' = "read" /\ UNCHANGED <<signals, jobVars>>

ReadChecked ==
    /\ pc = "read" /\ pipe # <<>>
    /\ LET n == Min({ReadSize, Len(pipe)}) IN
          /\ fifo_buf' = IF Len(fifo_buf) + n > MaxBuffer THEN <<>>
                         ELSE fifo_buf \o SubSeq(pipe, 1, n)
          /\ pipe' = SubSeq(pipe, n + 1, Len(pipe))
    /\ UNCHANGED <<worldVars, fresh, signals, pc, batch, handled, lost, jobVars>>

\* on_fifo: read until EAGAIN,
ReadFifo ==
    /\ pc = "read" /\ pipe # <<>>
    /\ LET n == Min({ReadSize, Len(pipe)}) IN
          /\ fifo_buf' = fifo_buf \o SubSeq(pipe, 1, n)
          /\ pipe' = SubSeq(pipe, n + 1, Len(pipe))
    /\ UNCHANGED <<worldVars, fresh, signals, pc, batch, handled, lost, jobVars>>

\* discard all of it if it is too much,
ReadEnds ==
    /\ pc = "read" /\ pipe = <<>>
    /\ pc' = "lines"
    /\ IF Len(fifo_buf) > MaxBuffer
       THEN fifo_buf' = <<>> /\ lost' = lost \cup {p.line : p \in Range(fifo_buf)}
       ELSE UNCHANGED <<fifo_buf, lost>>
    /\ UNCHANGED <<worldVars, pipe, fresh, signals, batch, handled, jobVars>>

\* and hand over line after line.
Newlines == {i \in DOMAIN fifo_buf : fifo_buf[i].newline}
Whole(pieces) == Len(pieces) = 2 /\ pieces[1] = [pieces[2] EXCEPT !.newline = FALSE]
FirstLineOnly ==
    /\ pc = "lines" /\ Newlines # {}
    /\ LET nl == Min(Newlines) IN
          /\ fifo_buf' = <<>>
          /\ handled' = Append(handled, fifo_buf[nl].line) /\ handle_line(fifo_buf[nl].of)
    /\ UNCHANGED <<worldVars, pipe, fresh, signals, pc, batch, lost>>

OneLine ==
    /\ pc = "lines" /\ Newlines # {}
    /\ LET nl == Min(Newlines) IN
          /\ fifo_buf' = SubSeq(fifo_buf, nl + 1, Len(fifo_buf))
          /\ IF Whole(SubSeq(fifo_buf, 1, nl))
             THEN handled' = Append(handled, fifo_buf[nl].line) /\ handle_line(fifo_buf[nl].of)
             ELSE handled' = Append(handled, 0) /\ UNCHANGED jobVars
    /\ UNCHANGED <<worldVars, pipe, fresh, signals, pc, batch, lost>>
NoLine ==
    /\ pc = "lines" /\ Newlines = {}
    /\ pc' = "dispatch"
    /\ UNCHANGED <<worldVars, pipe, fresh, signals, batch, lineVars, jobVars>>

\* schedule: after a reap, and after the batch.
schedule ==
    /\ \/ pc = "reaped" /\ pc' = "dispatch"
       \/ pc = "dispatch" /\ batch = <<>> /\ pc' = "check"
    /\ Schedules(queue)
    /\ UNCHANGED <<worldVars, pipe, fresh, signals, batch, lineVars, zombies, settled, stopping,
                   overdue, shutting_down>>

Loop ==
    \/ check \/ wait
    \/ OnSigchld \/ OnSigterm \/ OnTick \/ OnFifo
    \/ ReadFifo \/ ReadEnds \/ OneLine \/ NoLine
    \/ schedule

Next ==
    \/ Loop \/ TimerExpires \/ Terminate
    \/ \E command \in Commands : Send(command)
    \/ \E j \in Jobs : ChildEnds(j)

Spec == Init /\ [][Next]_vars

\* The loop runs on and the timer is periodic. Nobody has to send a line, and no child has to
\* end unless it is killed.
FairSpec == Spec /\ WF_vars(Loop) /\ WF_vars(TimerExpires)

-----------------------------------------------------------------------------
\* When the loop sleeps in Poller::wait with nothing to be woken by, nothing is left to do: no
\* line is in the pipe or half in fifo_buf, every line sent was handled or discarded for its
\* length, and no child waits to be reaped. On epoll as on kqueue, which reports a change once.
QuietMeansDrained ==
    pc = "wait" /\ Ready = {} =>
        /\ pipe = <<>> /\ fifo_buf = <<>>
        /\ Range(handled) \cup lost = Sent
        /\ zombies = {}

\* README.md:104, "CLI writes one line, controller reads it": what handle_line gets are lines
\* as they were sent, in their order and once each, however the reads have cut them and
\* whatever was discarded.
LinesInOrder ==
    /\ \A i \in DOMAIN handled : handled[i] # 0 /\ handled[i] \notin lost
    /\ \A i, j \in DOMAIN handled : i < j => handled[i] < handled[j]

\* No slot is left idle while a job waits for one, whatever came together in a batch: when the
\* loop sleeps, every queued job is queued for want of a slot.
SlotsAreFilled == pc = "wait" /\ queue # {} => slots_used = slots_max

\* A shutdown ends the controller, even if the children ignore SIGTERM: what the loop is not
\* woken for by an event, the tick brings.
ShutdownStops == shutting_down ~> pc = "stopped"
=============================================================================
