---------------------------- MODULE JobLifecycle ----------------------------
(***************************************************************************)
(* What the controller promises to whoever reads the record of a job: the  *)
(* states it goes through, and what "completed" says about the output.     *)
(* This is the diagram of forge.hpp with the arrows the code adds to it:   *)
(* a job can be rejected or fail to launch before it runs, copy and exec   *)
(* have nothing to persist, an old record is failed after a restart, and a *)
(* queued record may be queued again.                                      *)
(***************************************************************************)
CONSTANTS
    Jobs,
    Writes      \* the jobs whose result is the output file (all but exec)

VARIABLES record, output

vars == <<record, output>>

Terminal == {"completed", "failed", "timed_out", "cancelled"}

\* The states a record may go to from each state.
After(s) ==
    CASE s = "none"       -> {"submitted"}
      [] s = "submitted"  -> {"queued", "failed", "cancelled"}
      [] s = "queued"     -> {"queued", "starting", "failed", "cancelled"}
      [] s = "starting"   -> {"running", "failed"}
      [] s = "running"    -> {"persisting", "completed", "failed", "timed_out", "cancelled"}
      [] s = "persisting" -> {"completed", "failed"}
      [] s \in Terminal   -> {}

Init ==
    /\ record = [j \in Jobs |-> "none"]
    /\ output = [j \in Jobs |-> FALSE]

\* One record takes one step; the output of a completed job is already there.
Move(j, s) ==
    /\ s \in After(record[j])
    /\ s = "completed" /\ j \in Writes => output[j]
    /\ record' = [record EXCEPT ![j] = s]
    /\ UNCHANGED output

\* The queued jobs are cancelled together when the controller shuts down.
CancelQueued(S) ==
    /\ S # {} /\ \A j \in S : record[j] = "queued"
    /\ record' = [j \in Jobs |-> IF j \in S THEN "cancelled" ELSE record[j]]
    /\ UNCHANGED output

\* An output appears, and never disappears.
Produce(j) ==
    /\ ~output[j]
    /\ output' = [output EXCEPT ![j] = TRUE]
    /\ UNCHANGED record

Next ==
    \/ \E j \in Jobs : \/ \E s \in Terminal \cup {"submitted", "queued", "starting", "running",
                                                  "persisting"} : Move(j, s)
                       \/ Produce(j)
    \/ \E S \in SUBSET Jobs : CancelQueued(S)

Spec == Init /\ [][Next]_vars
=============================================================================
