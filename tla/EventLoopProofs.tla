--------------------------- MODULE EventLoopProofs ---------------------------
(***************************************************************************)
(* Theorems about EventLoop for any number of jobs, slots, lines and       *)
(* events, however the reads cut the lines.                                *)
(***************************************************************************)
EXTENDS EventLoop, FiniteSetTheorems, SequenceTheorems, WellFoundedInduction,
        TLAPS

-----------------------------------------------------------------------------
(* Lemmas about the library's operators. *)

LEMMA RangeIs ==
    ASSUME NEW S, NEW s \in Seq(S)
    PROVE  /\ \A i \in 1..Len(s) : s[i] \in Range(s)
           /\ \A x \in Range(s) : \E i \in 1..Len(s) : s[i] = x
BY DEF Range

LEMMA RangeOfTail ==
    ASSUME NEW S, NEW s \in Seq(S), s # <<>>
    PROVE  /\ Tail(s) \in Seq(S) /\ Head(s) \in S
           /\ \A x \in Range(s) : x = Head(s) \/ x \in Range(Tail(s))
<1>1. Tail(s) \in Seq(S) /\ Head(s) \in S
  OBVIOUS
<1>2. ASSUME NEW x \in Range(s), x # Head(s) PROVE x \in Range(Tail(s))
  <2>1. PICK i \in 1..Len(s) : s[i] = x
    BY RangeIs
  <2>2. i # 1 /\ Len(Tail(s)) = Len(s) - 1
    BY <1>2, <2>1
  <2>3. i - 1 \in 1..Len(Tail(s)) /\ Tail(s)[i - 1] = x
    BY <2>1, <2>2
  <2>. QED  BY <1>1, <2>3, RangeIs
<1>. QED  BY <1>1, <1>2

\* A set of numbers has a smallest.
LEMMA MinOfSet ==
    ASSUME NEW S \in SUBSET Nat, S # {}
    PROVE  Min(S) \in S /\ \A y \in S : Min(S) <= y
<1>1. PICK x \in S : \A y \in S : <<y, x>> \notin OpToRel(<, Nat)
  BY NatLessThanWellFounded, WFMin, Zenon
<1>2. \A y \in S : ~(y < x)
  BY <1>1, Zenon DEF OpToRel
<1>3. \A y \in S : x <= y
  BY <1>2
<1>. QED  BY <1>3 DEF Min

LEMMA MinOfTwo ==
    ASSUME NEW a \in Int, NEW b \in Int
    PROVE  Min({a, b}) = IF a <= b THEN a ELSE b
BY DEF Min

\* Every event is in a permutation of all of them.
LEMMA PermutationHasAll ==
    ASSUME NEW S, IsFiniteSet(S), NEW s \in SetToAllKPermutations(S), Len(s) = Cardinality(S)
    PROVE  s \in Seq(S) /\ \A x \in S : x \in Range(s)
<1>1. PICK T \in SUBSET S : s \in SetToSeqs(T)
  BY DEF SetToAllKPermutations
<1>2. IsFiniteSet(T) /\ Cardinality(T) \in Nat
  BY FS_Subset, FS_CardinalityType
<1>3. /\ s \in [1..Cardinality(T) -> T]
      /\ \A i, j \in 1..Cardinality(T) : i # j => s[i] # s[j]
  BY <1>1 DEF SetToSeqs
<1>4. s \in Seq(T) /\ Len(s) = Cardinality(T)
  BY <1>2, <1>3
<1>5. T = S
  BY <1>4, FS_Subset
<1>6. s \in Injection(1..Cardinality(T), T)
  BY <1>3 DEF Injection, IsInjective
<1>7. s \in Surjection(1..Cardinality(T), T)
  <2>1. IsFiniteSet(1..Cardinality(T)) /\ Cardinality(1..Cardinality(T)) = Cardinality(T)
    BY <1>2, FS_Interval
  <2>. QED  BY <1>2, <1>6, <2>1, FS_Injection
<1>8. \A x \in T : \E i \in 1..Cardinality(T) : s[i] = x
  BY <1>7 DEF Surjection
<1>. QED  BY <1>4, <1>5, <1>8, RangeIs

-----------------------------------------------------------------------------
Signals == {"SIGCHLD", "SIGTERM"}
Events  == {"fifo", "tick"} \cup Signals
Pieces  == [line : Nat, of : Commands, newline : BOOLEAN]

WorldOK ==
    /\ backend \in {"epoll", "kqueue"} /\ slots_max \in Slots
    /\ pipe \in Seq(Pieces) /\ fresh \in BOOLEAN
    /\ sent \in Nat /\ signals \subseteq Signals /\ tick \in BOOLEAN
LoopOK ==
    /\ pc \in {"check", "wait", "dispatch", "reaped", "read", "lines", "stopped"}
    /\ batch \in Seq(Events)
LinesOK == fifo_buf \in Seq(Pieces) /\ handled \in Seq(Nat) /\ lost \subseteq Nat
JobsOK ==
    /\ queue \subseteq Jobs /\ running \subseteq Jobs /\ zombies \subseteq Jobs
    /\ stopping \subseteq Jobs
    /\ shutting_down \in BOOLEAN

TypeOK == WorldOK /\ LoopOK /\ LinesOK /\ JobsOK

LEMMA FiniteEvents == IsFiniteSet(Events)
<1>1. /\ IsFiniteSet({"fifo"}) /\ IsFiniteSet({"tick"})
      /\ IsFiniteSet({"SIGCHLD"}) /\ IsFiniteSet({"SIGTERM"})
  BY FS_Singleton
<1>2. IsFiniteSet({"fifo"} \cup {"tick"}) /\ IsFiniteSet({"SIGCHLD"} \cup {"SIGTERM"})
  BY <1>1, FS_Union
<1>3. IsFiniteSet(({"fifo"} \cup {"tick"}) \cup ({"SIGCHLD"} \cup {"SIGTERM"}))
  BY <1>2, FS_Union
<1>4. Events = ({"fifo"} \cup {"tick"}) \cup ({"SIGCHLD"} \cup {"SIGTERM"})
  BY DEF Events, Signals
<1>. QED  BY <1>3, <1>4

\* What schedule does: it starts as many jobs of the queue as there are slots for.
LEMMA SchedulesType ==
    ASSUME NEW q \in SUBSET Jobs, Schedules(q), JobsOK
    PROVE  queue' \subseteq q /\ running' \subseteq Jobs
BY DEF Schedules, Starts, JobsOK

LEMMA CommandType ==
    ASSUME NEW c \in Commands
    PROVE  c[2] \in Jobs
BY EventLoopAssumption DEF EventLoopAssumption, Commands

LEMMA HandleLineType ==
    ASSUME NEW c \in Commands, handle_line(c), JobsOK
    PROVE  JobsOK'
<1>1. c[2] \in Jobs
  BY CommandType
<1>2. CASE submit(c[2])
  <2>1. queue \cup {c[2]} \in SUBSET Jobs
    BY <1>1 DEF JobsOK
  <2>. QED  BY <1>2, <2>1, SchedulesType DEF submit, JobsOK
<1>3. CASE cancel(c[2])
  BY <1>1, <1>3 DEF cancel, JobsOK
<1>. QED  BY <1>2, <1>3 DEF handle_line

\* What a read takes from the pipe.
LEMMA ReadTakes ==
    ASSUME TypeOK, ReadFifo
    PROVE  \E n \in 1..Len(pipe) :
              /\ fifo_buf' = fifo_buf \o SubSeq(pipe, 1, n)
              /\ pipe' = SubSeq(pipe, n + 1, Len(pipe))
<1>. DEFINE n == Min({ReadSize, Len(pipe)})
<1>1. Len(pipe) \in Nat \ {0} /\ ReadSize \in Nat \ {0}
  BY EventLoopAssumption DEF EventLoopAssumption, ReadFifo, TypeOK, WorldOK
<1>2. n \in 1..Len(pipe)
  BY <1>1, MinOfTwo
<1>. QED  BY <1>2 DEF ReadFifo

\* The line OneLine takes ends at the first newline.
LEMMA FirstLine ==
    ASSUME fifo_buf \in Seq(Pieces), Newlines # {}
    PROVE  /\ Min(Newlines) \in 1..Len(fifo_buf)
           /\ fifo_buf[Min(Newlines)].newline /\ fifo_buf[Min(Newlines)] \in Pieces
           /\ \A i \in 1..Len(fifo_buf) : fifo_buf[i].newline => Min(Newlines) <= i
<1>1. Newlines \subseteq 1..Len(fifo_buf)
      /\ (\A i \in 1..Len(fifo_buf) : fifo_buf[i].newline <=> i \in Newlines)
  BY DEF Newlines
<1>2. Newlines \in SUBSET Nat
  BY <1>1
<1>3. Min(Newlines) \in Newlines /\ \A y \in Newlines : Min(Newlines) <= y
  BY <1>2, MinOfSet
<1>4. Min(Newlines) \in 1..Len(fifo_buf) /\ fifo_buf[Min(Newlines)].newline
  BY <1>1, <1>3
<1>5. fifo_buf[Min(Newlines)] \in Pieces
  BY <1>4
<1>. QED  BY <1>1, <1>3, <1>4, <1>5

LEMMA TypeStep == TypeOK /\ [Next]_vars => TypeOK'
<1>1. TypeOK /\ UNCHANGED vars => TypeOK'
  BY DEF TypeOK, WorldOK, LoopOK, LinesOK, JobsOK, vars, worldVars, lineVars, jobVars
<1>. SUFFICES ASSUME TypeOK, Next PROVE TypeOK'
  BY <1>1
<1>. USE DEF TypeOK
<1>2. ASSUME NEW c \in Commands, Send(c) PROVE TypeOK'
  <2>1. \A b \in BOOLEAN : [line |-> sent + 1, of |-> c, newline |-> b] \in Pieces
    BY DEF WorldOK, Pieces
  <2>. DEFINE first == [line |-> sent + 1, of |-> c, newline |-> FALSE]
              second == [line |-> sent + 1, of |-> c, newline |-> TRUE]
  <2>2. <<first, second>> \in Seq(Pieces)
    <3>1. first \in Pieces /\ second \in Pieces
      BY <2>1
    <3>. HIDE DEF first, second
    <3>. QED  BY <3>1
  <2>3. /\ pipe' = pipe \o <<first, second>> /\ sent' = sent + 1
        /\ pipe \in Seq(Pieces) /\ sent \in Nat
    BY <1>2 DEF Send, WorldOK
  <2>. HIDE DEF first, second
  <2>4. pipe' \in Seq(Pieces) /\ sent' \in Nat
    BY <2>2, <2>3
  <2>. QED  BY <1>2, <2>4 DEF Send, WorldOK, LoopOK, LinesOK, JobsOK, lineVars, jobVars
<1>3. ASSUME NEW j \in Jobs, ChildEnds(j) PROVE TypeOK'
  BY <1>3 DEF ChildEnds, WorldOK, LoopOK, LinesOK, JobsOK, worldVars, lineVars, Signals
<1>4. CASE TimerExpires \/ Terminate
  BY <1>4 DEF TimerExpires, Terminate, WorldOK, LoopOK, LinesOK, JobsOK, worldVars, lineVars,
              jobVars, Signals
<1>5. CASE check
  BY <1>5 DEF check, WorldOK, LoopOK, LinesOK, JobsOK, worldVars, lineVars, jobVars
<1>6. CASE wait
  <2>1. PICK events \in Reported : /\ batch' \in SetToAllKPermutations(events)
                                   /\ Len(batch') = Cardinality(events)
                                   /\ signals' = signals \ events
    BY <1>6 DEF wait
  <2>2. events \subseteq Events
    BY <2>1 DEF Reported, Ready, Events, WorldOK
  <2>3. batch' \in Seq(events)
    <3>. QED  BY <2>1, <2>2, FiniteEvents, FS_Subset, PermutationHasAll
  <2>4. batch' \in Seq(Events)
    BY <2>2, <2>3
  <2>. QED  BY <1>6, <2>1, <2>4 DEF wait, WorldOK, LoopOK, LinesOK, JobsOK, lineVars, jobVars
<1>7. ASSUME NEW e, Dispatch(e), JobsOK', signals' \subseteq Signals, UNCHANGED worldVars,
             pc' \in {"dispatch", "reaped", "read", "stopped"}
      PROVE  TypeOK'
  <2>1. batch' \in Seq(Events)
    BY <1>7, RangeOfTail DEF Dispatch, LoopOK
  <2>. QED  BY <1>7, <2>1 DEF Dispatch, WorldOK, LoopOK, LinesOK, worldVars, lineVars
<1>8. CASE OnSigchld \/ OnSigterm \/ OnTick \/ OnFifo
  <2>1. JobsOK'
    BY <1>8 DEF OnSigchld, OnSigterm, OnTick, OnFifo, reap, shutdown, on_tick, JobsOK, jobVars
  <2>2. signals' \subseteq Signals
    BY <1>8 DEF OnSigchld, OnSigterm, OnTick, OnFifo, on_tick, WorldOK, Signals
  <2>3. pc' \in {"dispatch", "reaped", "read", "stopped"} /\ UNCHANGED worldVars
    BY <1>8 DEF OnSigchld, OnSigterm, OnTick, OnFifo, Dispatch
  <2>. QED  BY <1>7, <1>8, <2>1, <2>2, <2>3 DEF OnSigchld, OnSigterm, OnTick, OnFifo
<1>9. CASE ReadFifo
  <2>1. PICK n \in 1..Len(pipe) : /\ fifo_buf' = fifo_buf \o SubSeq(pipe, 1, n)
                                  /\ pipe' = SubSeq(pipe, n + 1, Len(pipe))
    BY <1>9, ReadTakes
  <2>2. pipe \in Seq(Pieces) /\ fifo_buf \in Seq(Pieces)
    BY DEF WorldOK, LinesOK
  <2>3. pipe' \in Seq(Pieces) /\ SubSeq(pipe, 1, n) \in Seq(Pieces)
    <3>1. \A i \in 1..Len(pipe) : pipe[i] \in Pieces
      BY <2>2
    <3>2. SubSeq(pipe, 1, n) \in Seq(Pieces)
      BY <2>2, <3>1, SubSeqProperties
    <3>3. SubSeq(pipe, n + 1, Len(pipe)) \in Seq(Pieces)
      BY <2>2, <3>1, SubSeqProperties
    <3>. QED  BY <2>1, <3>2, <3>3
  <2>4. fifo_buf' \in Seq(Pieces)
    BY <2>1, <2>2, <2>3
  <2>. QED  BY <1>9, <2>3, <2>4 DEF ReadFifo, WorldOK, LoopOK, LinesOK, JobsOK, worldVars, jobVars
<1>10. CASE ReadEnds
  <2>1. fifo_buf' \in Seq(Pieces) /\ lost' \subseteq Nat
    <3>1. \A i \in 1..Len(fifo_buf) : fifo_buf[i] \in Pieces
      BY DEF LinesOK
    <3>2. \A p \in Range(fifo_buf) : p \in Pieces
      BY <3>1, RangeIs DEF LinesOK
    <3>3. \A p \in Range(fifo_buf) : p.line \in Nat
      BY <3>2 DEF Pieces
    <3>4. {p.line : p \in Range(fifo_buf)} \subseteq Nat
      BY <3>3
    <3>5. <<>> \in Seq(Pieces)
      OBVIOUS
    <3>. QED  BY <1>10, <3>4, <3>5 DEF ReadEnds, LinesOK
  <2>. QED  BY <1>10, <2>1 DEF ReadEnds, WorldOK, LoopOK, LinesOK, JobsOK, worldVars, jobVars
<1>11. CASE OneLine
  <2>. DEFINE nl == Min(Newlines)
  <2>1. nl \in 1..Len(fifo_buf) /\ fifo_buf \in Seq(Pieces) /\ fifo_buf[nl] \in Pieces
    BY <1>11, FirstLine DEF OneLine, LinesOK
  <2>2. fifo_buf[nl].line \in Nat /\ fifo_buf[nl].of \in Commands
    BY <2>1 DEF Pieces
  <2>. HIDE DEF nl
  <2>3. fifo_buf' \in Seq(Pieces)
    <3>1. fifo_buf' = SubSeq(fifo_buf, nl + 1, Len(fifo_buf))
      BY <1>11 DEF OneLine, nl
    <3>. QED  BY <2>1, <3>1, SubSeqProperties
  <2>4. \/ handled' = Append(handled, fifo_buf[nl].line) /\ handle_line(fifo_buf[nl].of)
        \/ handled' = Append(handled, 0) /\ UNCHANGED jobVars
    BY <1>11 DEF OneLine, nl
  <2>5. JobsOK'
    BY <2>2, <2>4, HandleLineType DEF JobsOK, jobVars
  <2>6. handled' \in Seq(Nat)
    <3>1. handled \in Seq(Nat) /\ (handled' = Append(handled, fifo_buf[nl].line)
                                     \/ handled' = Append(handled, 0))
      BY <2>4 DEF LinesOK
    <3>. QED  BY <2>2, <3>1
  <2>. QED  BY <1>11, <2>3, <2>5, <2>6 DEF OneLine, WorldOK, LoopOK, LinesOK, worldVars
<1>12. CASE NoLine
  BY <1>12 DEF NoLine, WorldOK, LoopOK, LinesOK, JobsOK, worldVars, lineVars, jobVars
<1>13. CASE schedule
  <2>1. JobsOK'
    BY <1>13, SchedulesType DEF schedule, JobsOK
  <2>. QED  BY <1>13, <2>1 DEF schedule, WorldOK, LoopOK, LinesOK, worldVars, lineVars
<1>. QED  BY <1>2, <1>3, <1>4, <1>5, <1>6, <1>8, <1>9, <1>10, <1>11, <1>12, <1>13 DEF Next, Loop

-----------------------------------------------------------------------------
(* The slots. *)

\* A finite, nonempty set of numbers has a largest.
LEMMA MaxOfSet ==
    ASSUME NEW S \in SUBSET Nat, IsFiniteSet(S), S # {}
    PROVE  \E m \in S : \A y \in S : y <= m
<1>. DEFINE below(x) == {k \in S : k < x}
            over(x)  == Cardinality(S) - Cardinality(below(x))
<1>1. \A x \in S : /\ below(x) \subseteq S /\ IsFiniteSet(below(x))
                   /\ Cardinality(below(x)) \in Nat /\ over(x) \in Nat
  BY FS_Subset, FS_CardinalityType
<1>2. \A x, y \in S : x < y => over(y) < over(x)
  <2>. SUFFICES ASSUME NEW x \in S, NEW y \in S, x < y PROVE over(y) < over(x)
    OBVIOUS
  <2>1. below(x) \subseteq below(y) /\ x \in below(y) /\ x \notin below(x)
    <3>1. \A k \in S : (k < x => k < y) /\ ~(x < x)
      OBVIOUS
    <3>. QED  BY <3>1
  <2>2. Cardinality(below(x)) < Cardinality(below(y))
    <3>. HIDE DEF below
    <3>1. /\ Cardinality(below(x)) <= Cardinality(below(y))
          /\ Cardinality(below(x)) # Cardinality(below(y))
      BY <1>1, <2>1, FS_Subset
    <3>. QED  BY <1>1, <3>1
  <2>3. Cardinality(S) \in Nat
    BY FS_CardinalityType
  <2>. HIDE DEF below
  <2>. QED  BY <1>1, <2>2, <2>3
<1>. DEFINE all == {over(x) : x \in S}
<1>. HIDE DEF over
<1>3. PICK m \in S : over(m) = Min(all)
  <2>1. all \in SUBSET Nat /\ all # {}
    BY <1>1
  <2>2. Min(all) \in all
    BY <2>1, MinOfSet
  <2>. QED  BY <2>2
<1>4. ASSUME NEW y \in S PROVE y <= m
  <2>1. all \in SUBSET Nat /\ over(y) \in all
    BY <1>1
  <2>2. over(m) <= over(y)
    <3>1. all # {}
      BY <2>1
    <3>. HIDE DEF all
    <3>2. \A z \in all : Min(all) <= z
      BY <2>1, <3>1, MinOfSet
    <3>. QED  BY <1>3, <2>1, <3>2
  <2>3. m < y => over(y) < over(m)
    BY <1>2
  <2>4. over(y) \in Nat /\ over(m) \in Nat /\ m \in Nat /\ y \in Nat
    BY <1>1
  <2>. QED  BY <2>2, <2>3, <2>4
<1>. QED  BY <1>4

\* The jobs that recover launches, in the order of their numbers, while there are slots.
LEMMA FirstJobs ==
    ASSUME NEW left \in SUBSET Nat, IsFiniteSet(left), NEW slots \in Nat \ {0},
           NEW first, first = {j \in left : Cardinality({k \in left : k < j}) < slots}
    PROVE  Cardinality(first) <= slots /\ (left # first => Cardinality(first) = slots)
<1>. DEFINE below(j) == {k \in left : k < j}
<1>1. /\ IsFiniteSet(first) /\ Cardinality(first) \in Nat
      /\ \A j \in left : IsFiniteSet(below(j)) /\ Cardinality(below(j)) \in Nat
  BY FS_Subset, FS_CardinalityType
<1>2. \A j \in left : j \in first <=> Cardinality(below(j)) < slots
  OBVIOUS
<1>3. Cardinality(first) <= slots
  <2>1. CASE first = {}
    <3>1. Cardinality(first) = 0
      BY <1>1, <2>1, FS_EmptySet
    <3>. QED  BY <3>1
  <2>2. CASE first # {}
    <3>1. PICK m \in first : \A y \in first : y <= m
      BY <1>1, <2>2, MaxOfSet
    <3>2. first \subseteq below(m) \cup {m} /\ m \notin below(m) /\ m \in left
      <4>1. first \subseteq left /\ left \subseteq Nat /\ m \in first
        OBVIOUS
      <4>2. \A y \in first : y < m \/ y = m
        BY <3>1, <4>1
      <4>3. ~(m < m)
        BY <4>1
      <4>. QED  BY <4>1, <4>2, <4>3
    <3>. HIDE DEF below
    <3>3. /\ IsFiniteSet(below(m) \cup {m})
          /\ Cardinality(below(m) \cup {m}) = Cardinality(below(m)) + 1
      BY <1>1, <3>2, FS_AddElement
    <3>4. Cardinality(first) <= Cardinality(below(m) \cup {m})
      BY <3>2, <3>3, FS_Subset
    <3>. QED  BY <1>1, <1>2, <3>2, <3>3, <3>4
  <2>. QED  BY <2>1, <2>2
<1>4. ASSUME left # first PROVE slots <= Cardinality(first)
  <2>. DEFINE rest == left \ first
  <2>1. rest \in SUBSET Nat /\ rest # {}
    BY <1>4
  <2>2. Min(rest) \in rest /\ \A y \in rest : Min(rest) <= y
    BY <2>1, MinOfSet
  <2>3. PICK q \in rest : \A y \in rest : q <= y
    BY <2>2
  <2>4. below(q) \subseteq first
    <3>1. \A k \in left : k < q => k \notin rest
      BY <2>1, <2>3
    <3>. QED  BY <3>1
  <2>. HIDE DEF below
  <2>5. Cardinality(below(q)) <= Cardinality(first)
    BY <1>1, <2>4, FS_Subset
  <2>. QED  BY <1>1, <1>2, <2>3, <2>5
<1>. QED  BY <1>1, <1>3, <1>4

\* The queue, the running jobs and those that have ended are apart, no more jobs have a slot
\* than there are, and no job waits in the queue while one is free, but while the events of a
\* batch are handled: schedule follows.
SlotInv ==
    /\ running \cap zombies = {} /\ queue \cap (running \cup zombies) = {}
    /\ slots_used <= slots_max
    /\ pc \in {"check", "wait"} /\ queue # {} => slots_used = slots_max

LEMMA FiniteJobs ==
    ASSUME JobsOK
    PROVE  /\ IsFiniteSet(running) /\ IsFiniteSet(zombies) /\ IsFiniteSet(queue)
           /\ IsFiniteSet(running \cup zombies) /\ slots_used \in Nat
<1>1. /\ running \cup zombies \subseteq Jobs /\ running \subseteq Jobs /\ zombies \subseteq Jobs
      /\ queue \subseteq Jobs /\ IsFiniteSet(Jobs)
  BY EventLoopAssumption DEF EventLoopAssumption, JobsOK
<1>. QED  BY <1>1, FS_Subset, FS_CardinalityType DEF slots_used

\* schedule leaves a job in the queue only when no slot is left.
LEMMA SchedulesFills ==
    ASSUME JobsOK, slots_max \in Nat, slots_used <= slots_max,
           running \cap zombies = {},
           NEW q \in SUBSET Jobs, q \cap (running \cup zombies) = {},
           Schedules(q), zombies' = zombies, slots_max' = slots_max
    PROVE  /\ running' \cap zombies' = {} /\ queue' \cap (running' \cup zombies') = {}
           /\ slots_used' <= slots_max'
           /\ queue' # {} => slots_used' = slots_max'
<1>1. PICK S \in Starts(q) : running' = running \cup S /\ queue' = q \ S
  BY DEF Schedules
<1>2. S \subseteq q /\ Cardinality(S) = Min({Cardinality(q), slots_max - slots_used})
  BY <1>1 DEF Starts
<1>3. IsFiniteSet(q) /\ IsFiniteSet(S) /\ Cardinality(q) \in Nat /\ Cardinality(S) \in Nat
  BY <1>2, EventLoopAssumption, FS_Subset, FS_CardinalityType DEF EventLoopAssumption
<1>4. IsFiniteSet(running \cup zombies) /\ slots_used \in Nat
  BY FiniteJobs
<1>5. /\ Cardinality(S) <= slots_max - slots_used
      /\ Cardinality(S) # Cardinality(q) => Cardinality(S) = slots_max - slots_used
  <2>1. slots_max - slots_used \in Int /\ Cardinality(q) \in Int
    BY <1>3, <1>4
  <2>. QED  BY <1>2, <1>3, <1>4, <2>1, MinOfTwo
<1>6. slots_used' = slots_used + Cardinality(S)
  <2>1. running' \cup zombies' = (running \cup zombies) \cup S
    BY <1>1
  <2>2. (running \cup zombies) \cap S = {}
    BY <1>2
  <2>3. Cardinality((running \cup zombies) \cup S)
           = Cardinality(running \cup zombies) + Cardinality(S)
    <3>1. Cardinality((running \cup zombies) \cup S)
             = Cardinality(running \cup zombies) + Cardinality(S)
                  - Cardinality((running \cup zombies) \cap S)
      BY <1>3, <1>4, FS_Union
    <3>2. Cardinality((running \cup zombies) \cap S) = 0
      BY <2>2, FS_EmptySet
    <3>. QED  BY <1>3, <1>4, <3>1, <3>2 DEF slots_used
  <2>. QED  BY <2>1, <2>3 DEF slots_used
<1>7. queue' # {} => Cardinality(S) # Cardinality(q)
  BY <1>1, <1>2, <1>3, FS_Subset
<1>8. running' \cap zombies' = {} /\ queue' \cap (running' \cup zombies') = {}
  BY <1>1, <1>2
<1>. QED  BY <1>4, <1>5, <1>6, <1>7, <1>8, <1>3

\* Children that end keep their slot until they are reaped.
LEMMA SlotsKept ==
    ASSUME SlotInv, running' \cup zombies' = running \cup zombies, running' \cap zombies' = {},
           UNCHANGED <<queue, slots_max>>, pc' \in {"check", "wait"} => pc \in {"check", "wait"}
    PROVE  SlotInv'
BY DEF SlotInv, slots_used

\* Where the loop does not sleep, the queue may be short and the slots idle.
LEMMA SlotsFreed ==
    ASSUME JobsOK, SlotInv, running' \cup zombies' \subseteq running \cup zombies,
           running' \cap zombies' = {}, queue' \subseteq queue, slots_max' = slots_max,
           slots_max \in Nat, pc' \notin {"check", "wait"}
    PROVE  SlotInv'
<1>1. Cardinality(running' \cup zombies') <= Cardinality(running \cup zombies)
      /\ Cardinality(running' \cup zombies') \in Nat
  BY FiniteJobs, FS_Subset, FS_CardinalityType
<1>2. slots_used' <= slots_max'
  BY <1>1, FiniteJobs DEF SlotInv, slots_used
<1>3. queue' \cap (running' \cup zombies') = {}
  BY DEF SlotInv
<1>. QED  BY <1>2, <1>3 DEF SlotInv

LEMMA SlotStep == TypeOK /\ SlotInv /\ [Next]_vars => SlotInv'
<1>1. TypeOK /\ SlotInv /\ UNCHANGED vars => SlotInv'
  BY DEF SlotInv, slots_used, vars, worldVars, jobVars
<1>. SUFFICES ASSUME TypeOK, SlotInv, Next PROVE SlotInv'
  BY <1>1
<1>2. JobsOK /\ slots_max \in Nat
  BY EventLoopAssumption DEF EventLoopAssumption, TypeOK, WorldOK
<1>3. ASSUME UNCHANGED <<slots_max, jobVars>>, pc' \in {"check", "wait"} => pc \in {"check", "wait"}
      PROVE  SlotInv'
  BY <1>3, SlotsKept DEF jobVars, SlotInv
<1>4. CASE \/ \E c \in Commands : Send(c)
           \/ TimerExpires \/ Terminate \/ check \/ wait \/ OnFifo \/ ReadFifo \/ ReadEnds \/ NoLine
  BY <1>3, <1>4 DEF Send, TimerExpires, Terminate, check, wait, OnFifo, Dispatch, ReadFifo,
                    ReadEnds, NoLine, worldVars
<1>5. ASSUME NEW j \in Jobs, ChildEnds(j) PROVE SlotInv'
  <2>1. running' \cup zombies' = running \cup zombies /\ running' \cap zombies' = {}
    BY <1>5 DEF ChildEnds, SlotInv
  <2>. QED  BY <1>5, <2>1, SlotsKept DEF ChildEnds, worldVars
<1>6. CASE OnSigchld
  <2>1. running' \cup zombies' \subseteq running \cup zombies /\ running' \cap zombies' = {}
    BY <1>6 DEF OnSigchld, reap, SlotInv
  <2>. QED  BY <1>2, <1>6, <2>1, SlotsFreed DEF OnSigchld, Dispatch, reap, worldVars
<1>7. CASE OnSigterm
  <2>1. queue' \subseteq queue
    BY <1>7 DEF OnSigterm, shutdown
  <2>2. pc' \notin {"check", "wait"}
    BY <1>7 DEF OnSigterm, Dispatch
  <2>3. UNCHANGED <<running, zombies, slots_max>>
    BY <1>7 DEF OnSigterm, Dispatch, shutdown, worldVars
  <2>. QED  BY <1>2, <2>1, <2>2, <2>3, SlotsFreed DEF SlotInv
<1>8. CASE OnTick
  <2>1. running' \cup zombies' = running \cup zombies /\ running' \cap zombies' = {}
    BY <1>8 DEF OnTick, on_tick, SlotInv
  <2>2. UNCHANGED <<queue, slots_max>> /\ (pc' \in {"check", "wait"} => pc \in {"check", "wait"})
    BY <1>8 DEF OnTick, on_tick, Dispatch, worldVars
  <2>. QED  BY <2>1, <2>2, SlotsKept
<1>9. CASE OneLine
  <2>. DEFINE c == fifo_buf[Min(Newlines)].of
  <2>1. pc' = "lines" /\ slots_max' = slots_max
    BY <1>9 DEF OneLine, worldVars
  <2>2. CASE UNCHANGED jobVars
    BY <1>3, <2>1, <2>2
  <2>3. CASE submit(c[2])
    <3>1. CASE UNCHANGED <<queue, running>>
      BY <1>2, <2>1, <2>3, <3>1, SlotsKept DEF submit, SlotInv
    <3>2. CASE ~Live(c[2]) /\ Schedules(queue \cup {c[2]})
      <4>1. c[2] \in Jobs
        BY <1>2, <1>9, FirstLine, CommandType DEF OneLine, TypeOK, LinesOK, Pieces
      <4>2. queue \cup {c[2]} \in SUBSET Jobs
            /\ (queue \cup {c[2]}) \cap (running \cup zombies) = {}
        BY <1>2, <3>2, <4>1 DEF JobsOK, SlotInv, Live
      <4>3. zombies' = zombies
        BY <2>3 DEF submit
      <4>. QED  BY <1>2, <2>1, <3>2, <4>2, <4>3, SchedulesFills DEF SlotInv
    <3>. QED  BY <2>3, <3>1, <3>2 DEF submit
  <2>4. CASE cancel(c[2])
    <3>1. queue' \subseteq queue /\ UNCHANGED <<running, zombies>>
      BY <2>4 DEF cancel
    <3>. QED  BY <1>2, <2>1, <3>1, SlotsFreed DEF SlotInv
  <2>. QED  BY <1>9, <2>2, <2>3, <2>4 DEF OneLine, handle_line
<1>10. CASE schedule
  <2>1. Schedules(queue) /\ zombies' = zombies /\ slots_max' = slots_max
    BY <1>10 DEF schedule, worldVars
  <2>. QED  BY <1>2, <2>1, SchedulesFills DEF SlotInv, JobsOK
<1>. QED  BY <1>4, <1>5, <1>6, <1>7, <1>8, <1>9, <1>10 DEF Next, Loop

LEMMA SlotInit == Init => SlotInv
<1>. SUFFICES ASSUME Init PROVE SlotInv
  OBVIOUS
<1>1. PICK left \in SUBSET Jobs :
         /\ running = {j \in left : Cardinality({k \in left : k < j}) < slots_max}
         /\ queue = left \ running
  BY DEF Init
<1>2. left \in SUBSET Nat /\ IsFiniteSet(left) /\ slots_max \in Nat \ {0}
  BY EventLoopAssumption, FS_Subset DEF EventLoopAssumption, Init
<1>3. Cardinality(running) <= slots_max /\ (left # running => Cardinality(running) = slots_max)
  BY <1>1, <1>2, FirstJobs
<1>4. zombies = {} /\ slots_used = Cardinality(running)
  <2>1. zombies = {}
    BY DEF Init
  <2>2. running \cup zombies = running
    BY <2>1
  <2>. QED  BY <2>1, <2>2 DEF slots_used
<1>5. running \subseteq left /\ (queue # {} => left # running)
  BY <1>1
<1>. QED  BY <1>1, <1>3, <1>4, <1>5 DEF SlotInv

LEMMA TypeInit == Init => TypeOK
<1>. SUFFICES ASSUME Init PROVE TypeOK
  OBVIOUS
<1>1. running \subseteq Jobs /\ queue \subseteq Jobs
  BY DEF Init
<1>2. WorldOK
  <2>1. /\ backend \in {"epoll", "kqueue"} /\ slots_max \in Slots /\ sent \in Nat
        /\ fresh \in BOOLEAN /\ tick \in BOOLEAN /\ signals \subseteq Signals
    BY DEF Init
  <2>2. pipe \in Seq(Pieces)
    BY DEF Init
  <2>. QED  BY <2>1, <2>2 DEF WorldOK
<1>3. LoopOK /\ LinesOK
  BY DEF Init, LoopOK, LinesOK
<1>4. JobsOK
  BY <1>1 DEF Init, JobsOK
<1>. QED  BY <1>2, <1>3, <1>4 DEF TypeOK

LEMMA TypeCorrect == Spec => []TypeOK
BY TypeInit, TypeStep, PTL DEF Spec

\* SlotsAreFilled: no slot is left idle while a job waits for one when the loop sleeps in
\* Poller::wait, whatever came together in a batch (schedule of controller.cpp, called by
\* enqueue, after a reap and after every batch).
THEOREM SlotsAlwaysFilled == Spec => []SlotsAreFilled
<1>1. SlotInv => SlotsAreFilled
  BY DEF SlotInv, SlotsAreFilled
<1>. QED  BY TypeCorrect, SlotInit, SlotStep, <1>1, PTL DEF Spec

-----------------------------------------------------------------------------
(* The lines. *)

\* The n-th piece behind line g, when text are the lines sent.
IsPiece(p, n, g, text) ==
    /\ n = 2 * (p.line - g) - (IF p.newline THEN 0 ELSE 1)
    /\ p.of = text[p.line]

\* fifo_buf and the pipe behind it hold the lines after g, whole and in order,
Buffered(g, text) ==
    /\ Len(fifo_buf) + Len(pipe) = 2 * (sent - g)
    /\ \A i \in 1..Len(fifo_buf) : IsPiece(fifo_buf[i], i, g, text)
    /\ \A i \in 1..Len(pipe) : IsPiece(pipe[i], Len(fifo_buf) + i, g, text)

\* and every line up to g was handled, in order, or discarded.
HandledTo(g) ==
    /\ \A i \in 1..Len(handled) : handled[i] \in 1..g /\ handled[i] \notin lost
    /\ \A i, j \in 1..Len(handled) : i < j => handled[i] < handled[j]
    /\ lost \subseteq 1..g
    /\ \A l \in 1..g : l \in lost \/ \E i \in 1..Len(handled) : handled[i] = l

StreamInv == \E g \in 0..sent, text \in [1..sent -> Commands] : Buffered(g, text) /\ HandledTo(g)

LEMMA PieceIs ==
    ASSUME NEW p \in Pieces, NEW n \in Int, NEW g \in Nat, NEW text
    PROVE  /\ p.line \in Nat /\ p.of \in Commands /\ p.newline \in BOOLEAN
           /\ IsPiece(p, n, g, text)
                 <=> /\ p.of = text[p.line]
                     /\ IF p.newline THEN n = 2 * (p.line - g) ELSE n + 1 = 2 * (p.line - g)
<1>1. p.line \in Nat /\ p.of \in Commands /\ p.newline \in BOOLEAN
  BY DEF Pieces
<1>2. ASSUME p.newline
      PROVE  IsPiece(p, n, g, text) <=> p.of = text[p.line] /\ n = 2 * (p.line - g)
  BY <1>1, <1>2 DEF IsPiece
<1>3. ASSUME ~p.newline
      PROVE  IsPiece(p, n, g, text) <=> p.of = text[p.line] /\ n + 1 = 2 * (p.line - g)
  BY <1>1, <1>3 DEF IsPiece
<1>. QED  BY <1>1, <1>2, <1>3

\* A piece of a line that was sent says the same when more are sent.
LEMMA PieceStays ==
    ASSUME NEW p \in Pieces, NEW n \in Nat, NEW g \in Nat, NEW last \in Nat, n <= 2 * (last - g),
           0 < n, NEW text, NEW more, \A l \in 1..last : more[l] = text[l], IsPiece(p, n, g, text)
    PROVE  IsPiece(p, n, g, more)
<1>1. n \in Int
  OBVIOUS
<1>2. /\ p.line \in Nat /\ p.of = text[p.line]
      /\ IF p.newline THEN n = 2 * (p.line - g) ELSE n + 1 = 2 * (p.line - g)
  BY <1>1, PieceIs
<1>3. p.line \in 1..last
  BY <1>2
<1>4. p.of = more[p.line]
  BY <1>2, <1>3
<1>. QED  BY <1>1, <1>2, <1>4, PieceIs

LEMMA NextLine ==
    ASSUME NEW p \in Pieces, NEW n \in Int, NEW g \in Nat, NEW text, IsPiece(p, n, g, text)
    PROVE  IsPiece(p, n - 2, g + 1, text)
<1>1. /\ p.line \in Nat /\ p.of = text[p.line]
      /\ IF p.newline THEN n = 2 * (p.line - g) ELSE n + 1 = 2 * (p.line - g)
  BY PieceIs
<1>2. IF p.newline THEN n - 2 = 2 * (p.line - (g + 1)) ELSE (n - 2) + 1 = 2 * (p.line - (g + 1))
  BY <1>1
<1>3. n - 2 \in Int /\ g + 1 \in Nat
  OBVIOUS
<1>. QED  BY <1>1, <1>2, <1>3, PieceIs

\* send_fifo puts a line of two pieces behind all others.
LEMMA SendBuffers ==
    ASSUME TypeOK, NEW c \in Commands, Send(c),
           NEW g \in 0..sent, NEW text \in [1..sent -> Commands], Buffered(g, text)
    PROVE  \E more \in [1..sent' -> Commands] : Buffered(g, more)'
<1>. DEFINE more == [l \in 1..(sent + 1) |-> IF l = sent + 1 THEN c ELSE text[l]]
            first  == [line |-> sent + 1, of |-> c, newline |-> FALSE]
            second == [line |-> sent + 1, of |-> c, newline |-> TRUE]
<1>1. /\ pipe \in Seq(Pieces) /\ fifo_buf \in Seq(Pieces) /\ sent \in Nat
      /\ Len(pipe) \in Nat /\ Len(fifo_buf) \in Nat
  BY DEF TypeOK, WorldOK, LinesOK
<1>2. sent' = sent + 1 /\ pipe' = pipe \o <<first, second>> /\ fifo_buf' = fifo_buf
  BY DEF Send, lineVars
<1>3. more \in [1..sent' -> Commands]
  BY <1>1, <1>2
<1>4. \A l \in 1..sent : more[l] = text[l]
  BY <1>1
<1>5. more[sent + 1] = c
  BY <1>1
<1>6. Len(fifo_buf) + Len(pipe) = 2 * (sent - g) /\ g \in Nat
  BY <1>1 DEF Buffered
<1>. HIDE DEF more
<1>7. ASSUME NEW i \in 1..Len(pipe) PROVE IsPiece(pipe[i], Len(fifo_buf) + i, g, more)
  <2>1. pipe[i] \in Pieces /\ IsPiece(pipe[i], Len(fifo_buf) + i, g, text)
    BY <1>1 DEF Buffered
  <2>2. Len(fifo_buf) + i \in Nat /\ Len(fifo_buf) + i <= 2 * (sent - g) /\ 0 < Len(fifo_buf) + i
    BY <1>6, <1>1
  <2>. QED  BY <1>6, <1>1, <1>4, <2>1, <2>2, PieceStays
<1>8. ASSUME NEW i \in 1..Len(fifo_buf) PROVE IsPiece(fifo_buf[i], i, g, more)
  <2>1. fifo_buf[i] \in Pieces /\ IsPiece(fifo_buf[i], i, g, text)
    BY <1>1 DEF Buffered
  <2>2. i \in Nat /\ i <= 2 * (sent - g) /\ 0 < i
    BY <1>6, <1>1
  <2>. QED  BY <1>6, <1>1, <1>4, <2>1, <2>2, PieceStays
<1>9. /\ IsPiece(first, Len(fifo_buf) + Len(pipe) + 1, g, more)
      /\ IsPiece(second, Len(fifo_buf) + Len(pipe) + 2, g, more)
  <2>1. first \in Pieces /\ second \in Pieces
    BY <1>1 DEF Pieces
  <2>2. /\ first.line = sent + 1 /\ first.of = c /\ ~first.newline
        /\ second.line = sent + 1 /\ second.of = c /\ second.newline
    OBVIOUS
  <2>3. Len(fifo_buf) + Len(pipe) + 1 \in Int /\ Len(fifo_buf) + Len(pipe) + 2 \in Int
    BY <1>1
  <2>. HIDE DEF first, second
  <2>4. first.of = more[first.line] /\ second.of = more[second.line]
    BY <1>5, <2>2
  <2>5. /\ Len(fifo_buf) + Len(pipe) + 1 + 1 = 2 * (first.line - g)
        /\ Len(fifo_buf) + Len(pipe) + 2 = 2 * (second.line - g)
    BY <1>6, <1>1, <2>2
  <2>6. IsPiece(first, Len(fifo_buf) + Len(pipe) + 1, g, more)
    BY <1>6, <2>1, <2>2, <2>3, <2>4, <2>5, PieceIs
  <2>7. IsPiece(second, Len(fifo_buf) + Len(pipe) + 2, g, more)
    BY <1>6, <2>1, <2>2, <2>3, <2>4, <2>5, PieceIs
  <2>. QED  BY <2>6, <2>7
<1>10. Len(pipe') = Len(pipe) + 2
  BY <1>1, <1>2
<1>11. \A i \in 1..Len(pipe') : IsPiece(pipe'[i], Len(fifo_buf') + i, g, more)
  <2>. SUFFICES ASSUME NEW i \in 1..Len(pipe') PROVE IsPiece(pipe'[i], Len(fifo_buf) + i, g, more)
    BY <1>2
  <2>. HIDE DEF first, second
  <2>1. CASE i <= Len(pipe)
    BY <1>1, <1>2, <1>7, <2>1
  <2>2. CASE i = Len(pipe) + 1
    BY <1>1, <1>2, <1>9, <2>2
  <2>3. CASE i = Len(pipe) + 2
    BY <1>1, <1>2, <1>9, <2>3
  <2>. QED  BY <1>1, <1>10, <2>1, <2>2, <2>3
<1>12. Len(fifo_buf') + Len(pipe') = 2 * (sent' - g)
  <2>1. Len(fifo_buf') = Len(fifo_buf) /\ sent' = sent + 1
    BY <1>2
  <2>. QED  BY <1>6, <1>1, <1>10, <2>1
<1>. QED  BY <1>2, <1>3, <1>8, <1>11, <1>12 DEF Buffered

\* A read moves pieces from the pipe to the end of fifo_buf.
LEMMA ReadBuffers ==
    ASSUME TypeOK, ReadFifo, NEW g \in 0..sent, NEW text, Buffered(g, text)
    PROVE  Buffered(g, text)'
<1>1. /\ pipe \in Seq(Pieces) /\ fifo_buf \in Seq(Pieces) /\ sent \in Nat
      /\ Len(pipe) \in Nat /\ Len(fifo_buf) \in Nat
  BY DEF TypeOK, WorldOK, LinesOK
<1>2. PICK n \in 1..Len(pipe) : /\ fifo_buf' = fifo_buf \o SubSeq(pipe, 1, n)
                                /\ pipe' = SubSeq(pipe, n + 1, Len(pipe))
  BY ReadTakes
<1>3. \A i \in 1..Len(pipe) : pipe[i] \in Pieces
  BY <1>1
<1>4. /\ Len(pipe') = Len(pipe) - n
      /\ \A i \in 1..(Len(pipe) - n) : pipe'[i] = pipe[n + i]
  <2>1. /\ Len(SubSeq(pipe, n + 1, Len(pipe)))
              = IF n + 1 <= Len(pipe) THEN Len(pipe) - (n + 1) + 1 ELSE 0
        /\ \A i \in 1..(Len(pipe) - (n + 1) + 1) :
              SubSeq(pipe, n + 1, Len(pipe))[i] = pipe[n + 1 + i - 1]
    BY <1>1, <1>3, SubSeqProperties
  <2>. QED  BY <1>1, <1>2, <2>1
<1>5. /\ SubSeq(pipe, 1, n) \in Seq(Pieces) /\ Len(SubSeq(pipe, 1, n)) = n
      /\ \A i \in 1..n : SubSeq(pipe, 1, n)[i] = pipe[i]
  <2>1. /\ SubSeq(pipe, 1, n) \in Seq(Pieces)
        /\ Len(SubSeq(pipe, 1, n)) = IF 1 <= n THEN n - 1 + 1 ELSE 0
        /\ \A i \in 1..(n - 1 + 1) : SubSeq(pipe, 1, n)[i] = pipe[1 + i - 1]
    BY <1>1, <1>3, SubSeqProperties
  <2>. QED  BY <2>1
<1>6. /\ Len(fifo_buf') = Len(fifo_buf) + n
      /\ \A i \in 1..Len(fifo_buf) : fifo_buf'[i] = fifo_buf[i]
      /\ \A i \in 1..n : fifo_buf'[Len(fifo_buf) + i] = pipe[i]
  BY <1>1, <1>2, <1>5
<1>7. sent' = sent
  BY DEF ReadFifo, worldVars
<1>8. Len(fifo_buf') + Len(pipe') = 2 * (sent' - g)
  <2>1. Len(fifo_buf) + Len(pipe) = 2 * (sent - g)
    BY DEF Buffered
  <2>2. Len(fifo_buf') = Len(fifo_buf) + n /\ Len(pipe') = Len(pipe) - n /\ n \in Nat
    BY <1>4, <1>6
  <2>. QED  BY <1>1, <1>7, <2>1, <2>2
<1>9. \A i \in 1..Len(fifo_buf') : IsPiece(fifo_buf'[i], i, g, text)
  <2>. SUFFICES ASSUME NEW i \in 1..Len(fifo_buf') PROVE IsPiece(fifo_buf'[i], i, g, text)
    OBVIOUS
  <2>1. CASE i <= Len(fifo_buf)
    <3>1. i \in 1..Len(fifo_buf)
      BY <1>1, <2>1
    <3>2. fifo_buf'[i] = fifo_buf[i]
      BY <1>6, <3>1
    <3>. QED  BY <3>1, <3>2 DEF Buffered
  <2>2. CASE i > Len(fifo_buf)
    <3>. DEFINE k == i - Len(fifo_buf)
    <3>1. k \in 1..n /\ k \in 1..Len(pipe) /\ i = Len(fifo_buf) + k
      BY <1>1, <1>6, <2>2
    <3>. HIDE DEF k
    <3>2. fifo_buf'[i] = pipe[k]
      BY <1>6, <3>1
    <3>. QED  BY <3>1, <3>2 DEF Buffered
  <2>. QED  BY <1>1, <2>1, <2>2
<1>10. \A i \in 1..Len(pipe') : IsPiece(pipe'[i], Len(fifo_buf') + i, g, text)
  <2>. SUFFICES ASSUME NEW i \in 1..Len(pipe') PROVE IsPiece(pipe'[i], Len(fifo_buf') + i, g, text)
    OBVIOUS
  <2>. DEFINE k == n + i
  <2>1. k \in 1..Len(pipe) /\ Len(fifo_buf') + i = Len(fifo_buf) + k
    BY <1>1, <1>4, <1>6
  <2>2. pipe'[i] = pipe[k]
    BY <1>4
  <2>. HIDE DEF k
  <2>. QED  BY <2>1, <2>2 DEF Buffered
<1>. QED  BY <1>8, <1>9, <1>10 DEF Buffered

\* The first line of fifo_buf is whole, and the first one sent that is not dealt with.
LEMMA FirstLineIsNext ==
    ASSUME TypeOK, NEW g \in 0..sent, NEW text, Buffered(g, text), Newlines # {}
    PROVE  /\ Min(Newlines) = 2 /\ 2 \in 1..Len(fifo_buf) /\ fifo_buf[2].line = g + 1
           /\ Whole(SubSeq(fifo_buf, 1, 2)) /\ g + 1 <= sent
<1>. DEFINE nl == Min(Newlines)
<1>1. /\ pipe \in Seq(Pieces) /\ fifo_buf \in Seq(Pieces) /\ sent \in Nat
      /\ Len(pipe) \in Nat /\ Len(fifo_buf) \in Nat
  BY DEF TypeOK, WorldOK, LinesOK
<1>2. /\ nl \in 1..Len(fifo_buf) /\ fifo_buf[nl].newline /\ fifo_buf[nl] \in Pieces
      /\ \A i \in 1..Len(fifo_buf) : fifo_buf[i].newline => nl <= i
  BY <1>1, FirstLine
<1>. HIDE DEF nl
<1>3. ASSUME NEW i \in 1..Len(fifo_buf)
      PROVE  /\ fifo_buf[i] \in Pieces /\ fifo_buf[i].line \in Nat
             /\ fifo_buf[i].newline \in BOOLEAN
             /\ fifo_buf[i].of = text[fifo_buf[i].line]
             /\ IF fifo_buf[i].newline THEN i = 2 * (fifo_buf[i].line - g)
                                       ELSE i + 1 = 2 * (fifo_buf[i].line - g)
  <2>1. fifo_buf[i] \in Pieces /\ IsPiece(fifo_buf[i], i, g, text)
    BY <1>1 DEF Buffered
  <2>. QED  BY <1>1, <2>1, PieceIs
<1>4. 2 \in 1..Len(fifo_buf) /\ 1 \in 1..Len(fifo_buf)
  <2>1. nl = 2 * (fifo_buf[nl].line - g) /\ fifo_buf[nl].line \in Nat
    BY <1>2, <1>3
  <2>. QED  BY <1>1, <1>2, <2>1
<1>5. fifo_buf[2].newline /\ fifo_buf[2].line = g + 1
  <2>1. /\ fifo_buf[2].line \in Nat /\ fifo_buf[2].newline \in BOOLEAN
        /\ IF fifo_buf[2].newline THEN 2 = 2 * (fifo_buf[2].line - g)
                                 ELSE 3 = 2 * (fifo_buf[2].line - g)
    BY <1>3, <1>4
  <2>. QED  BY <1>1, <2>1
<1>6. ~fifo_buf[1].newline /\ fifo_buf[1].line = g + 1
  <2>1. /\ fifo_buf[1].line \in Nat /\ fifo_buf[1].newline \in BOOLEAN
        /\ IF fifo_buf[1].newline THEN 1 = 2 * (fifo_buf[1].line - g)
                                 ELSE 2 = 2 * (fifo_buf[1].line - g)
    BY <1>3, <1>4
  <2>. QED  BY <1>1, <2>1
<1>7. nl = 2
  <2>1. nl <= 2 /\ nl \in Nat /\ nl >= 1
    BY <1>1, <1>2, <1>4, <1>5
  <2>2. nl # 1
    BY <1>2, <1>6
  <2>. QED  BY <2>1, <2>2
<1>8. g + 1 <= sent
  <2>1. Len(fifo_buf) + Len(pipe) = 2 * (sent - g)
    BY DEF Buffered
  <2>. QED  BY <1>1, <1>4, <2>1
<1>9. fifo_buf[1] = [fifo_buf[2] EXCEPT !.newline = FALSE]
  <2>1. /\ fifo_buf[1] \in Pieces /\ fifo_buf[1].line = g + 1 /\ fifo_buf[1].of = text[g + 1]
        /\ fifo_buf[1].newline = FALSE
    BY <1>3, <1>4, <1>6
  <2>2. fifo_buf[2] \in Pieces /\ fifo_buf[2].line = g + 1 /\ fifo_buf[2].of = text[g + 1]
    BY <1>3, <1>4, <1>5
  <2>. QED  BY <2>1, <2>2 DEF Pieces
<1>10. Whole(SubSeq(fifo_buf, 1, 2))
  <2>1. /\ Len(SubSeq(fifo_buf, 1, 2)) = 2
        /\ SubSeq(fifo_buf, 1, 2)[1] = fifo_buf[1] /\ SubSeq(fifo_buf, 1, 2)[2] = fifo_buf[2]
    BY <1>1, <1>4
  <2>. QED  BY <1>9, <2>1 DEF Whole
<1>. QED  BY <1>4, <1>5, <1>7, <1>8, <1>10 DEF nl

\* handle_line is given the next line.
LEMMA OneLineBuffers ==
    ASSUME TypeOK, OneLine, NEW g \in 0..sent, NEW text \in [1..sent -> Commands],
           Buffered(g, text), HandledTo(g)
    PROVE  (g + 1 \in 0..sent') /\ Buffered(g + 1, text)' /\ HandledTo(g + 1)'
<1>1. /\ pipe \in Seq(Pieces) /\ fifo_buf \in Seq(Pieces) /\ sent \in Nat /\ handled \in Seq(Nat)
      /\ Len(pipe) \in Nat /\ Len(fifo_buf) \in Nat /\ Len(handled) \in Nat
  BY DEF TypeOK, WorldOK, LinesOK
<1>2. Newlines # {} /\ UNCHANGED <<sent, pipe, lost>>
  BY DEF OneLine, worldVars
<1>3. /\ Min(Newlines) = 2 /\ 2 \in 1..Len(fifo_buf) /\ fifo_buf[2].line = g + 1
      /\ Whole(SubSeq(fifo_buf, 1, 2)) /\ g + 1 <= sent
  BY <1>2, FirstLineIsNext
<1>4. fifo_buf' = SubSeq(fifo_buf, 3, Len(fifo_buf)) /\ handled' = Append(handled, g + 1)
  BY <1>3 DEF OneLine
<1>5. /\ Len(fifo_buf') = Len(fifo_buf) - 2
      /\ \A i \in 1..(Len(fifo_buf) - 2) : fifo_buf'[i] = fifo_buf[i + 2]
  <2>1. \A i \in 3..Len(fifo_buf) : fifo_buf[i] \in Pieces
    BY <1>1
  <2>2. /\ Len(SubSeq(fifo_buf, 3, Len(fifo_buf)))
              = IF 3 <= Len(fifo_buf) THEN Len(fifo_buf) - 3 + 1 ELSE 0
        /\ \A i \in 1..(Len(fifo_buf) - 3 + 1) :
              SubSeq(fifo_buf, 3, Len(fifo_buf))[i] = fifo_buf[3 + i - 1]
    BY <1>1, <2>1, SubSeqProperties
  <2>3. Len(fifo_buf) \in Nat /\ Len(fifo_buf) >= 2 /\ Len(fifo_buf) - 3 + 1 = Len(fifo_buf) - 2
    BY <1>1, <1>3
  <2>4. \A i \in 1..(Len(fifo_buf) - 2) : fifo_buf[3 + i - 1] = fifo_buf[i + 2]
    <3>1. \A i \in Int : 3 + i - 1 = i + 2
      OBVIOUS
    <3>. QED  BY <3>1
  <2>5. Len(fifo_buf') = Len(fifo_buf) - 2
    BY <1>4, <2>2, <2>3
  <2>. QED  BY <1>4, <2>2, <2>3, <2>4, <2>5
<1>6. \A i \in 1..Len(fifo_buf') : IsPiece(fifo_buf'[i], i, g + 1, text)
  <2>. SUFFICES ASSUME NEW i \in 1..Len(fifo_buf') PROVE IsPiece(fifo_buf'[i], i, g + 1, text)
    OBVIOUS
  <2>. DEFINE k == i + 2
  <2>1. k \in 1..Len(fifo_buf) /\ i = k - 2 /\ fifo_buf'[i] = fifo_buf[k]
    BY <1>1, <1>5
  <2>. HIDE DEF k
  <2>2. fifo_buf[k] \in Pieces
    BY <1>1, <2>1
  <2>3. IsPiece(fifo_buf[k], k, g, text)
    BY <2>1 DEF Buffered
  <2>4. k \in Int /\ g \in Nat
    BY <1>1, <2>1
  <2>5. IsPiece(fifo_buf[k], k - 2, g + 1, text)
    BY <2>2, <2>3, <2>4, NextLine
  <2>. QED  BY <2>1, <2>5
<1>7. \A i \in 1..Len(pipe) : IsPiece(pipe[i], Len(fifo_buf') + i, g + 1, text)
  <2>. SUFFICES ASSUME NEW i \in 1..Len(pipe)
                PROVE  IsPiece(pipe[i], Len(fifo_buf') + i, g + 1, text)
    OBVIOUS
  <2>1. pipe[i] \in Pieces
    BY <1>1
  <2>2. IsPiece(pipe[i], Len(fifo_buf) + i, g, text)
    BY DEF Buffered
  <2>3. Len(fifo_buf) + i \in Int /\ g \in Nat /\ Len(fifo_buf') + i = (Len(fifo_buf) + i) - 2
    BY <1>1, <1>5
  <2>4. IsPiece(pipe[i], (Len(fifo_buf) + i) - 2, g + 1, text)
    BY <2>1, <2>2, <2>3, NextLine
  <2>. QED  BY <2>3, <2>4
<1>8. Len(fifo_buf') + Len(pipe) = 2 * (sent - (g + 1))
  BY <1>1, <1>5 DEF Buffered
<1>9. Buffered(g + 1, text)'
  BY <1>2, <1>6, <1>7, <1>8 DEF Buffered
<1>10. /\ Len(handled') = Len(handled) + 1 /\ handled'[Len(handled) + 1] = g + 1
       /\ \A i \in 1..Len(handled) : handled'[i] = handled[i]
  BY <1>1, <1>4
<1>11. HandledTo(g + 1)'
  <2>1. \A i \in 1..Len(handled') : i \in 1..Len(handled) \/ i = Len(handled) + 1
    BY <1>1, <1>10
  <2>2. \A i \in 1..Len(handled) : handled[i] \in 1..g /\ handled[i] \notin lost
    BY DEF HandledTo
  <2>3. g + 1 \notin lost
    BY <1>1 DEF HandledTo
  <2>4. ASSUME NEW i \in 1..Len(handled')
        PROVE  handled'[i] \in 1..(g + 1) /\ handled'[i] \notin lost'
    <3>1. CASE i \in 1..Len(handled)
      BY <1>1, <1>2, <1>10, <2>2, <3>1, SMTT(20)
    <3>2. CASE i = Len(handled) + 1
      BY <1>1, <1>2, <1>10, <2>3, <3>2
    <3>. QED  BY <2>1, <3>1, <3>2
  <2>5. ASSUME NEW i \in 1..Len(handled'), NEW j \in 1..Len(handled'), i < j
        PROVE  handled'[i] < handled'[j]
    <3>1. i \in 1..Len(handled)
      BY <1>1, <1>10, <2>5
    <3>2. CASE j \in 1..Len(handled)
      BY <1>10, <2>5, <3>1, <3>2 DEF HandledTo
    <3>3. CASE j = Len(handled) + 1
      <4>1. handled'[i] \in 1..g /\ handled'[j] = g + 1
        BY <1>10, <2>2, <3>1, <3>3
      <4>. QED  BY <1>1, <4>1
    <3>. QED  BY <2>1, <3>2, <3>3
  <2>6. lost' \subseteq 1..(g + 1)
    BY <1>2 DEF HandledTo
  <2>7. ASSUME NEW l \in 1..(g + 1), l \notin lost'
        PROVE  \E i \in 1..Len(handled') : handled'[i] = l
    <3>1. CASE l = g + 1
      <4>1. Len(handled) + 1 \in 1..Len(handled')
        BY <1>1, <1>10
      <4>. QED  BY <1>10, <3>1, <4>1
    <3>2. CASE l # g + 1
      <4>1. PICK i \in 1..Len(handled) : handled[i] = l
        BY <1>2, <2>7, <3>2 DEF HandledTo
      <4>. QED  BY <1>1, <1>10, <4>1
    <3>. QED  BY <3>1, <3>2
  <2>. QED  BY <2>4, <2>5, <2>6, <2>7 DEF HandledTo
<1>. QED  BY <1>1, <1>2, <1>3, <1>9, <1>11

\* When the pipe is read empty, fifo_buf ends with a line's end; what is discarded are the lines
\* after g.
LEMMA ReadEndsBuffers ==
    ASSUME TypeOK, ReadEnds, NEW g \in 0..sent, NEW text \in [1..sent -> Commands],
           Buffered(g, text), HandledTo(g)
    PROVE  /\ fifo_buf # <<>> => fifo_buf[Len(fifo_buf)].newline
           /\ StreamInv'
<1>1. /\ fifo_buf \in Seq(Pieces) /\ sent \in Nat /\ handled \in Seq(Nat)
      /\ Len(fifo_buf) \in Nat /\ Len(handled) \in Nat /\ g \in Nat
  BY DEF TypeOK, WorldOK, LinesOK
<1>2. /\ pipe = <<>> /\ UNCHANGED <<sent, pipe, handled>>
      /\ \/ UNCHANGED <<fifo_buf, lost>>
         \/ fifo_buf' = <<>> /\ lost' = lost \cup {p.line : p \in Range(fifo_buf)}
  BY DEF ReadEnds, worldVars
<1>3. Len(fifo_buf) = 2 * (sent - g)
  <2>1. Len(fifo_buf) + Len(pipe) = 2 * (sent - g)
    BY DEF Buffered
  <2>. QED  BY <1>1, <1>2, <2>1
<1>4. ASSUME NEW i \in 1..Len(fifo_buf)
      PROVE  /\ fifo_buf[i] \in Pieces /\ fifo_buf[i].line \in Nat
             /\ fifo_buf[i].newline \in BOOLEAN
             /\ IF fifo_buf[i].newline THEN i = 2 * (fifo_buf[i].line - g)
                                       ELSE i + 1 = 2 * (fifo_buf[i].line - g)
  <2>1. fifo_buf[i] \in Pieces /\ IsPiece(fifo_buf[i], i, g, text) /\ i \in Int
    BY <1>1 DEF Buffered
  <2>. QED  BY <1>1, <2>1, PieceIs
<1>5. ASSUME fifo_buf # <<>> PROVE fifo_buf[Len(fifo_buf)].newline
  <2>1. Len(fifo_buf) \in 1..Len(fifo_buf)
    BY <1>1, <1>5
  <2>2. /\ fifo_buf[Len(fifo_buf)].line \in Nat
        /\ ~fifo_buf[Len(fifo_buf)].newline
              => Len(fifo_buf) + 1 = 2 * (fifo_buf[Len(fifo_buf)].line - g)
    BY <1>4, <2>1
  <2>. QED  BY <1>1, <1>3, <2>2
<1>6. CASE UNCHANGED <<fifo_buf, lost>>
  <2>1. Buffered(g, text)' /\ HandledTo(g)'
    BY <1>2, <1>6 DEF Buffered, HandledTo
  <2>2. g \in 0..sent' /\ text \in [1..sent' -> Commands]
    BY <1>2
  <2>. QED  BY <1>5, <2>1, <2>2 DEF StreamInv
<1>7. CASE fifo_buf' = <<>> /\ lost' = lost \cup {p.line : p \in Range(fifo_buf)}
  <2>1. \A l \in lost' : l \in lost \/ \E i \in 1..Len(fifo_buf) : fifo_buf[i].line = l
    BY <1>1, <1>7, RangeIs
  <2>2. \A i \in 1..Len(fifo_buf) : fifo_buf[i].line \in lost'
    BY <1>1, <1>7, RangeIs
  <2>3. ASSUME NEW i \in 1..Len(fifo_buf) PROVE fifo_buf[i].line \in (g + 1)..sent
    <3>1. /\ fifo_buf[i].line \in Nat /\ i \in Nat /\ 1 <= i /\ i <= 2 * (sent - g)
          /\ i = 2 * (fifo_buf[i].line - g) \/ i + 1 = 2 * (fifo_buf[i].line - g)
      BY <1>1, <1>3, <1>4
    <3>. QED  BY <1>1, <3>1
  <2>4. ASSUME NEW l \in (g + 1)..sent PROVE l \in lost'
    <3>. DEFINE i == 2 * (l - g)
    <3>1. i \in 1..Len(fifo_buf) /\ i = 2 * (l - g)
      BY <1>1, <1>3
    <3>. HIDE DEF i
    <3>2. /\ fifo_buf[i].line \in Nat
          /\ i = 2 * (fifo_buf[i].line - g) \/ i + 1 = 2 * (fifo_buf[i].line - g)
      BY <1>4, <3>1
    <3>3. fifo_buf[i].line = l
      BY <1>1, <3>1, <3>2
    <3>. QED  BY <2>2, <3>1, <3>3
  <2>5. HandledTo(sent)'
    <3>1. ASSUME NEW i \in 1..Len(handled) PROVE handled[i] \in 1..sent /\ handled[i] \notin lost'
      <4>1. handled[i] \in 1..g /\ handled[i] \notin lost
        BY DEF HandledTo
      <4>2. handled[i] \notin (g + 1)..sent
        BY <1>1, <4>1
      <4>3. handled[i] \notin lost'
        BY <2>1, <2>3, <4>1, <4>2
      <4>. QED  BY <1>1, <4>1, <4>3
    <3>2. lost' \subseteq 1..sent
      <4>1. \A l \in 1..g : l \in 1..sent
        BY <1>1
      <4>2. \A l \in (g + 1)..sent : l \in 1..sent
        BY <1>1
      <4>. QED  BY <2>1, <2>3, <4>1, <4>2 DEF HandledTo
    <3>3. ASSUME NEW l \in 1..sent, l \notin lost'
          PROVE  \E i \in 1..Len(handled) : handled[i] = l
      <4>1. l \in 1..g
        BY <1>1, <2>4, <3>3
      <4>. QED  BY <1>7, <3>3, <4>1 DEF HandledTo
    <3>. QED  BY <1>2, <3>1, <3>2, <3>3 DEF HandledTo
  <2>6. Buffered(sent, text)'
    BY <1>1, <1>2, <1>7 DEF Buffered
  <2>7. sent \in 0..sent' /\ text \in [1..sent' -> Commands]
    BY <1>1, <1>2
  <2>. QED  BY <1>2, <1>5, <2>5, <2>6, <2>7 DEF StreamInv
<1>. QED  BY <1>2, <1>5, <1>6, <1>7

LEMMA StreamKept ==
    ASSUME StreamInv, UNCHANGED <<sent, pipe, lineVars>>
    PROVE  StreamInv'
BY DEF StreamInv, Buffered, HandledTo, lineVars

LEMMA StreamStep == TypeOK /\ StreamInv /\ [Next]_vars => StreamInv'
<1>1. StreamInv /\ UNCHANGED vars => StreamInv'
  BY StreamKept DEF vars, worldVars
<1>. SUFFICES ASSUME TypeOK, StreamInv, Next PROVE StreamInv'
  BY <1>1
<1>2. PICK g \in 0..sent, text \in [1..sent -> Commands] : Buffered(g, text) /\ HandledTo(g)
  BY DEF StreamInv
<1>3. ASSUME NEW c \in Commands, Send(c) PROVE StreamInv'
  <2>1. PICK more \in [1..sent' -> Commands] : Buffered(g, more)'
    BY <1>2, <1>3, SendBuffers
  <2>2. HandledTo(g)'
    BY <1>2, <1>3 DEF Send, HandledTo, lineVars
  <2>3. g \in 0..sent'
    BY <1>3 DEF Send, TypeOK, WorldOK
  <2>. QED  BY <2>1, <2>2, <2>3 DEF StreamInv
<1>4. CASE ReadFifo
  <2>1. Buffered(g, text)'
    BY <1>2, <1>4, ReadBuffers
  <2>2. HandledTo(g)' /\ sent' = sent
    BY <1>2, <1>4 DEF ReadFifo, HandledTo, worldVars
  <2>. QED  BY <2>1, <2>2 DEF StreamInv
<1>5. CASE ReadEnds
  BY <1>2, <1>5, ReadEndsBuffers
<1>6. CASE OneLine
  <2>1. sent' = sent
    BY <1>6 DEF OneLine, worldVars
  <2>. QED  BY <1>2, <1>6, <2>1, OneLineBuffers DEF StreamInv
<1>7. CASE \/ \E j \in Jobs : ChildEnds(j)
           \/ TimerExpires \/ Terminate \/ check \/ wait \/ NoLine \/ schedule
           \/ OnSigchld \/ OnSigterm \/ OnTick \/ OnFifo
  <2>1. UNCHANGED <<sent, pipe, lineVars>>
    BY <1>7 DEF ChildEnds, TimerExpires, Terminate, check, wait, NoLine, schedule, OnSigchld,
                OnSigterm, OnTick, OnFifo, Dispatch, worldVars
  <2>. QED  BY <2>1, StreamKept
<1>. QED  BY <1>3, <1>4, <1>5, <1>6, <1>7 DEF Next, Loop

LEMMA StreamInit == Init => StreamInv
<1>. SUFFICES ASSUME Init PROVE StreamInv
  OBVIOUS
<1>1. sent = 0 /\ pipe = <<>> /\ fifo_buf = <<>> /\ handled = <<>> /\ lost = {}
  BY DEF Init
<1>2. Buffered(0, <<>>) /\ HandledTo(0)
  BY <1>1 DEF Buffered, HandledTo
<1>3. <<>> \in [1..sent -> Commands] /\ 0 \in 0..sent
  BY <1>1
<1>. QED  BY <1>2, <1>3 DEF StreamInv

LEMMA StreamCorrect == Spec => []StreamInv
BY TypeCorrect, StreamInit, StreamStep, PTL DEF Spec

\* LinesInOrder: handle_line gets lines as they were sent, in their order and once each, however
\* the reads have cut them and whatever was discarded (on_fifo of controller.cpp).
THEOREM LinesComeInOrder == Spec => []LinesInOrder
<1>1. TypeOK /\ StreamInv => LinesInOrder
  <2>. SUFFICES ASSUME TypeOK, StreamInv PROVE LinesInOrder
    OBVIOUS
  <2>1. PICK g \in 0..sent, text \in [1..sent -> Commands] : Buffered(g, text) /\ HandledTo(g)
    BY DEF StreamInv
  <2>2. DOMAIN handled = 1..Len(handled)
    BY DEF TypeOK, LinesOK
  <2>. QED  BY <2>1, <2>2 DEF LinesInOrder, HandledTo
<1>. QED  BY TypeCorrect, StreamCorrect, <1>1, PTL

-----------------------------------------------------------------------------
(* What the loop is woken for. *)

\* fifo_buf is empty but for on_fifo, and what is handed over line by line ends with one.
RestInv ==
    /\ fifo_buf # <<>> => pc \in {"read", "lines"}
    /\ pc = "lines" /\ fifo_buf # <<>> => fifo_buf[Len(fifo_buf)].newline

\* What kqueue reports once is not forgotten while the pipe holds anything, nor is the signal of
\* a child that has ended; and no event of a batch is left when the loop goes on.
WakeInv ==
    /\ backend = "kqueue" /\ pipe # <<>> /\ pc # "stopped"
          => fresh \/ pc = "read" \/ "fifo" \in Range(batch)
    /\ zombies # {} => "SIGCHLD" \in signals \cup Range(batch)
    /\ pc \in {"check", "wait"} => batch = <<>>

LEMMA RestStep == TypeOK /\ StreamInv /\ RestInv /\ [Next]_vars => RestInv'
<1>1. RestInv /\ UNCHANGED vars => RestInv'
  BY DEF RestInv, vars, lineVars
<1>. SUFFICES ASSUME TypeOK, StreamInv, RestInv, Next PROVE RestInv'
  BY <1>1
<1>2. fifo_buf \in Seq(Pieces) /\ Len(fifo_buf) \in Nat
  BY DEF TypeOK, LinesOK
<1>3. CASE \/ \E c \in Commands : Send(c)
           \/ \E j \in Jobs : ChildEnds(j)
           \/ TimerExpires \/ Terminate \/ OnFifo
  BY <1>3 DEF Send, ChildEnds, TimerExpires, Terminate, OnFifo, Dispatch, lineVars, RestInv
<1>4. CASE check \/ wait \/ OnSigchld \/ OnSigterm \/ OnTick \/ schedule
  <2>1. pc \notin {"read", "lines"} /\ fifo_buf' = fifo_buf
    BY <1>4 DEF check, wait, OnSigchld, OnSigterm, OnTick, schedule, Dispatch, lineVars
  <2>. QED  BY <2>1 DEF RestInv
<1>5. CASE ReadFifo
  BY <1>5 DEF ReadFifo, RestInv
<1>6. CASE ReadEnds
  <2>1. fifo_buf # <<>> => fifo_buf[Len(fifo_buf)].newline
    BY <1>6, ReadEndsBuffers DEF StreamInv
  <2>2. pc' = "lines" /\ (fifo_buf' = fifo_buf \/ fifo_buf' = <<>>)
    BY <1>6 DEF ReadEnds
  <2>. QED  BY <2>1, <2>2 DEF RestInv
<1>7. CASE OneLine
  <2>. DEFINE nl == Min(Newlines)
  <2>1. /\ nl \in 1..Len(fifo_buf) /\ pc = "lines" /\ pc' = "lines"
        /\ fifo_buf' = SubSeq(fifo_buf, nl + 1, Len(fifo_buf))
    BY <1>2, <1>7, FirstLine DEF OneLine
  <2>. HIDE DEF nl
  <2>2. ASSUME fifo_buf' # <<>> PROVE fifo_buf'[Len(fifo_buf')].newline
    <3>1. \A i \in (nl + 1)..Len(fifo_buf) : fifo_buf[i] \in Pieces
      BY <1>2, <2>1
    <3>2. /\ Len(fifo_buf') = IF nl + 1 <= Len(fifo_buf) THEN Len(fifo_buf) - (nl + 1) + 1 ELSE 0
          /\ \A i \in 1..(Len(fifo_buf) - (nl + 1) + 1) : fifo_buf'[i] = fifo_buf[nl + 1 + i - 1]
          /\ fifo_buf' \in Seq(Pieces)
      BY <1>2, <2>1, <3>1, SubSeqProperties
    <3>3. Len(fifo_buf') # 0
      BY <2>2, <3>2
    <3>4. Len(fifo_buf') \in 1..(Len(fifo_buf) - (nl + 1) + 1)
          /\ nl + 1 + Len(fifo_buf') - 1 = Len(fifo_buf)
      <4>1. nl + 1 <= Len(fifo_buf) /\ Len(fifo_buf') = Len(fifo_buf) - (nl + 1) + 1
        BY <3>2, <3>3
      <4>2. nl \in 1..Len(fifo_buf) /\ Len(fifo_buf) \in Nat
        BY <1>2, <2>1
      <4>. QED  BY <4>1, <4>2
    <3>5. fifo_buf'[Len(fifo_buf')] = fifo_buf[Len(fifo_buf)]
      BY <3>2, <3>4
    <3>6. fifo_buf # <<>>
      BY <1>2, <2>1
    <3>. QED  BY <2>1, <3>5, <3>6 DEF RestInv
  <2>. QED  BY <2>1, <2>2 DEF RestInv
<1>8. CASE NoLine
  <2>1. ASSUME fifo_buf # <<>> PROVE FALSE
    <3>1. Len(fifo_buf) \in 1..Len(fifo_buf) /\ fifo_buf[Len(fifo_buf)].newline
      BY <1>2, <1>8, <2>1 DEF NoLine, RestInv
    <3>2. DOMAIN fifo_buf = 1..Len(fifo_buf)
      BY <1>2
    <3>. QED  BY <1>8, <3>1, <3>2 DEF NoLine, Newlines
  <2>. QED  BY <1>8, <2>1 DEF NoLine, lineVars, RestInv
<1>. QED  BY <1>3, <1>4, <1>5, <1>6, <1>7, <1>8 DEF Next, Loop

\* Poller::wait puts what it reports into the batch: all of it, or of the signals one.
LEMMA WaitReports ==
    ASSUME TypeOK, wait
    PROVE  /\ \A s \in signals : s \in signals' \/ s \in Range(batch')
           /\ FifoReady => "fifo" \in Range(batch')
<1>1. PICK events \in Reported : /\ batch' \in SetToAllKPermutations(events)
                                 /\ Len(batch') = Cardinality(events)
                                 /\ signals' = signals \ events
  BY DEF wait
<1>2. events \subseteq Events
  BY <1>1 DEF Reported, Ready, Events, TypeOK, WorldOK
<1>3. IsFiniteSet(events)
  BY <1>2, FiniteEvents, FS_Subset
<1>4. \A x \in events : x \in Range(batch')
  BY <1>1, <1>3, PermutationHasAll
<1>5. FifoReady => "fifo" \in events
  <2>1. "fifo" \notin signals
    BY DEF TypeOK, WorldOK, Signals
  <2>. QED  BY <1>1, <2>1 DEF Reported, Ready
<1>. QED  BY <1>1, <1>4, <1>5

LEMMA DispatchTakes ==
    ASSUME LoopOK, NEW e, Dispatch(e)
    PROVE  \A x \in Range(batch) : x = e \/ x \in Range(batch')
BY RangeOfTail DEF Dispatch, LoopOK

LEMMA WakeStep == TypeOK /\ WakeInv /\ [Next]_vars => WakeInv'
<1>1. WakeInv /\ UNCHANGED vars => WakeInv'
  BY DEF WakeInv, vars, worldVars, jobVars
<1>. SUFFICES ASSUME TypeOK, WakeInv, Next PROVE WakeInv'
  BY <1>1
<1>2. ASSUME NEW c \in Commands, Send(c) PROVE WakeInv'
  BY <1>2 DEF Send, WakeInv, jobVars
<1>3. ASSUME NEW j \in Jobs, ChildEnds(j) PROVE WakeInv'
  BY <1>3 DEF ChildEnds, WakeInv, worldVars
<1>4. CASE TimerExpires \/ Terminate \/ check
  BY <1>4 DEF TimerExpires, Terminate, check, WakeInv, worldVars, jobVars
<1>5. CASE wait
  <2>1. /\ \A s \in signals : s \in signals' \/ s \in Range(batch')
        /\ FifoReady => "fifo" \in Range(batch')
    BY <1>5, WaitReports
  <2>2. batch = <<>> /\ pc = "wait" /\ pc' = "dispatch" /\ UNCHANGED <<backend, pipe, zombies>>
    BY <1>5 DEF wait, WakeInv, jobVars
  <2>3. Range(batch) = {}
    BY <2>2 DEF Range
  <2>4. zombies' # {} => "SIGCHLD" \in signals' \cup Range(batch')
    BY <2>1, <2>2, <2>3 DEF WakeInv
  <2>5. backend' = "kqueue" /\ pipe' # <<>> => "fifo" \in Range(batch')
    BY <2>1, <2>2, <2>3 DEF WakeInv, FifoReady
  <2>. QED  BY <2>2, <2>4, <2>5 DEF WakeInv
<1>6. ASSUME NEW e, Dispatch(e), e = "fifo" => pc' = "read",
             zombies' # {} => \/ "SIGCHLD" \in signals'
                              \/ zombies # {} /\ e # "SIGCHLD" /\ signals' = signals,
             pc' \notin {"check", "wait"}
      PROVE  WakeInv'
  <2>1. \A x \in Range(batch) : x = e \/ x \in Range(batch')
    BY <1>6, DispatchTakes DEF TypeOK
  <2>2. UNCHANGED <<backend, pipe, fresh>> /\ pc = "dispatch"
    BY <1>6 DEF Dispatch, worldVars
  <2>3. zombies' # {} => "SIGCHLD" \in signals' \cup Range(batch')
    BY <1>6, <2>1 DEF WakeInv
  <2>4. backend' = "kqueue" /\ pipe' # <<>> => fresh' \/ pc' = "read" \/ "fifo" \in Range(batch')
    BY <1>6, <2>1, <2>2 DEF WakeInv
  <2>. QED  BY <1>6, <2>3, <2>4 DEF WakeInv
<1>7. CASE OnSigchld
  <2>1. zombies' = {}
    BY <1>7 DEF OnSigchld, reap, ReapAll
  <2>. QED  BY <1>6, <1>7, <2>1 DEF OnSigchld
<1>8. CASE OnSigterm
  BY <1>6, <1>8 DEF OnSigterm, shutdown, Dispatch
<1>9. CASE OnTick
  <2>1. pc' \notin {"check", "wait"}
    BY <1>9 DEF OnTick, Dispatch
  <2>2. zombies' # {} => "SIGCHLD" \in signals' \/ (zombies # {} /\ signals' = signals)
    <3>1. CASE running \cap overdue = {}
      BY <1>9, <3>1 DEF OnTick, on_tick
    <3>2. CASE running \cap overdue # {}
      BY <1>9, <3>2 DEF OnTick, on_tick
    <3>. QED  BY <3>1, <3>2
  <2>. QED  BY <1>6, <1>9, <2>1, <2>2 DEF OnTick
<1>10. CASE OnFifo
  BY <1>6, <1>10 DEF OnFifo, jobVars
<1>11. CASE ReadFifo
  BY <1>11 DEF ReadFifo, WakeInv, worldVars, jobVars
<1>12. CASE ReadEnds
  BY <1>12 DEF ReadEnds, WakeInv, worldVars, jobVars
<1>13. CASE OneLine
  <2>1. zombies' = zombies
    BY <1>13 DEF OneLine, handle_line, submit, cancel, jobVars
  <2>. QED  BY <1>13, <2>1 DEF OneLine, WakeInv, worldVars
<1>14. CASE NoLine
  BY <1>14 DEF NoLine, WakeInv, worldVars, jobVars
<1>15. CASE schedule
  BY <1>15 DEF schedule, WakeInv, worldVars
<1>. QED  BY <1>2, <1>3, <1>4, <1>5, <1>7, <1>8, <1>9, <1>10, <1>11, <1>12, <1>13, <1>14, <1>15
          DEF Next, Loop

\* QuietMeansDrained: when the loop sleeps in Poller::wait with nothing to be woken by, nothing
\* is left to do, on epoll as on kqueue, which reports a change once (Poller::wait of both
\* systems, on_fifo's read until EAGAIN and reap's loop over waitid).
THEOREM QuietIsDrained == Spec => []QuietMeansDrained
<1>1. Init => RestInv /\ WakeInv
  BY DEF Init, RestInv, WakeInv
<1>2. TypeOK /\ StreamInv /\ RestInv /\ WakeInv => QuietMeansDrained
  <2>. SUFFICES ASSUME TypeOK, StreamInv, RestInv, WakeInv, pc = "wait", Ready = {}
                PROVE  /\ pipe = <<>> /\ fifo_buf = <<>> /\ zombies = {}
                       /\ Range(handled) \cup lost = Sent
    BY DEF QuietMeansDrained
  <2>1. fifo_buf = <<>> /\ batch = <<>>
    BY DEF RestInv, WakeInv
  <2>2. Range(batch) = {}
    BY <2>1 DEF Range
  <2>3. ~FifoReady /\ signals = {}
    <3>1. "fifo" \notin signals /\ "tick" \notin signals
      BY DEF TypeOK, WorldOK, Signals
    <3>. QED  BY <3>1 DEF Ready
  <2>4. pipe = <<>> /\ zombies = {}
    BY <2>2, <2>3 DEF FifoReady, WakeInv, TypeOK, WorldOK
  <2>5. PICK g \in 0..sent, text \in [1..sent -> Commands] : Buffered(g, text) /\ HandledTo(g)
    BY DEF StreamInv
  <2>6. g = sent
    <3>1. 0 = 2 * (sent - g) /\ sent \in Nat
      BY <2>1, <2>4, <2>5 DEF Buffered, TypeOK, WorldOK
    <3>. QED  BY <3>1
  <2>7. \A x : x \in Range(handled) <=> \E i \in 1..Len(handled) : handled[i] = x
    BY DEF Range, TypeOK, LinesOK
  <2>8. Range(handled) \cup lost = Sent
    BY <2>5, <2>6, <2>7 DEF HandledTo, Sent
  <2>. QED  BY <2>1, <2>4, <2>8
<1>. QED  BY TypeCorrect, StreamCorrect, <1>1, <1>2, RestStep, WakeStep, PTL DEF Spec
==============================================================================
