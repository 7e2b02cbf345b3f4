------------------------------- MODULE JobIds -------------------------------
(***************************************************************************)
(* allocate_job_id: `forge submit` processes taking job ids from the file  *)
(* next_id under a record lock, and the records they save under those ids. *)
(* Any of them may be killed at any point; the kernel then drops its lock. *)
(***************************************************************************)
EXTENDS Integers

CONSTANTS
    Submitters,     \* `forge submit` processes
    Torn            \* may an update end between ftruncate and pwrite (a crash, a full disk)?

ASSUME TornAssumption == Torn \in BOOLEAN

VARIABLES
    next_id,        \* the number in the file, 0 if it is absent or empty
    pc,             \* where each process stands
    next,           \* its local `next`
    records         \* jobs/<id>/meta: which process wrote the record of an id

vars == <<next_id, pc, next, records>>

Init ==
    /\ next_id = 0
    /\ pc = [p \in Submitters |-> "start"]
    /\ next = [p \in Submitters |-> 0]
    /\ records = {}

Moves(p, from, to) == pc[p] = from /\ pc' = [pc EXCEPT ![p] = to]

\* The lock is the process's: it goes with the unlock, a return or a death.
LockKept(p) == pc[p] \in {"locked", "read", "truncated", "written", "failed"}
Holds(p)    == pc[p] \in {"locked", "read", "truncated", "written"}

\* fcntl(F_SETLKW, F_WRLCK)
Tries(p)  == Moves(p, "start", "locked") /\ UNCHANGED <<next_id, next, records>>
Lock(p) ==
    /\ \A q \in Submitters : ~Holds(q)
    /\ Moves(p, "start", "locked")
    /\ UNCHANGED <<next_id, next, records>>

\* pread; an empty file counts as no id so far.
Lags(p) ==
    /\ Moves(p, "locked", "read")
    /\ next' = [next EXCEPT ![p] = next_id - 1]
    /\ UNCHANGED <<next_id, records>>
Read(p) ==
    /\ Moves(p, "locked", "read")
    /\ next' = [next EXCEPT ![p] = next_id + 1]
    /\ UNCHANGED <<next_id, records>>

Truncate(p) ==
    /\ Moves(p, "read", "truncated")
    /\ next_id' = 0
    /\ UNCHANGED <<next, records>>

Write(p) ==
    /\ Moves(p, "truncated", "written")
    /\ next_id' = next[p]
    /\ UNCHANGED <<next, records>>

\* `forge submit` gives up when ftruncate fails, pwrite fails (the file stays empty), or
\* fsync fails.
UpdateFails(p) ==
    /\ \/ Moves(p, "read", "failed") /\ UNCHANGED next_id
       \/ Moves(p, "truncated", "failed") /\ Torn /\ UNCHANGED next_id
       \/ Moves(p, "truncated", "failed") /\ next_id' = next[p]
    /\ UNCHANGED <<next, records>>

Unlock(p) == Moves(p, "written", "allocated") /\ UNCHANGED <<next_id, next, records>>

\* save_meta of a new job replaces whatever jobs/<id>/meta there is.
SaveNewest(p) ==
    /\ Moves(p, "allocated", "saved")
    /\ records' = {r \in records : r.id # next_id} \cup {[id |-> next_id, by |-> p]}
    /\ UNCHANGED <<next_id, next>>
SaveMeta(p) ==
    /\ Moves(p, "allocated", "saved")
    /\ records' = {r \in records : r.id # next[p]} \cup {[id |-> next[p], by |-> p]}
    /\ UNCHANGED <<next_id, next>>

SaveFails(p) == Moves(p, "allocated", "failed") /\ UNCHANGED <<next_id, next, records>>

Die(p) ==
    /\ pc[p] \notin {"saved", "failed", "dead"}
    /\ pc[p] = "truncated" => Torn
    /\ pc' = [pc EXCEPT ![p] = "dead"]
    /\ UNCHANGED <<next_id, next, records>>

Step(p) ==
    \/ Lock(p) \/ Read(p) \/ Truncate(p) \/ Write(p) \/ UpdateFails(p) \/ Unlock(p)
    \/ SaveMeta(p) \/ SaveFails(p)

Next == \E p \in Submitters : Step(p) \/ Die(p)

Spec == Init /\ [][Next]_vars

\* A submitter runs on, and F_SETLKW returns once the lock stays free.
FairSpec == Spec /\ \A p \in Submitters : WF_vars(Step(p))

-----------------------------------------------------------------------------
TypeOK ==
    /\ next_id \in Nat
    /\ pc \in [Submitters -> {"start", "locked", "read", "truncated", "written", "allocated",
                              "saved", "failed", "dead"}]
    /\ next \in [Submitters -> Nat]
    /\ records \subseteq [id : Nat, by : Submitters]

HasId(p) == pc[p] \in {"written", "allocated", "saved"}

\* store.cpp:265, "Two terminals can submit at once; the ids stay unique."
UniqueIds == \A p, q \in Submitters : HasId(p) /\ HasId(q) /\ next[p] = next[q] => p = q

\* No submit's record is replaced by the record of another one (save_meta).
NoRecordLost == \A p \in Submitters : pc[p] = "saved" => [id |-> next[p], by |-> p] \in records

\* Ids are given out in increasing order, which is what makes the smallest id the oldest
\* job for recover (list_job_ids sorts) and pick_next.
IdsGrow ==
    [][\A p, q \in Submitters : HasId(p)' /\ ~HasId(p) /\ HasId(q) => next[q] < next[p]]_vars

\* F_SETLKW waits (store.cpp:266), but not for ever: nobody leaves with the lock.
EverySubmitEnds == \A p \in Submitters : <>(pc[p] \in {"saved", "failed", "dead"})
=============================================================================
