---------------------------- MODULE DurableFile ----------------------------
(***************************************************************************)
(* What the readers of a record may rely on, whatever its writers do and   *)
(* whenever the power goes: the file is one whole version or is not there, *)
(* and a power loss brings back a version the medium was allowed to hold.  *)
(***************************************************************************)
CONSTANTS Versions, Absent

VARIABLES
    file,   \* what an open of the name finds
    safe    \* what a power loss may bring back

vars == <<file, safe>>

Init == file = Absent /\ safe = {Absent}

\* A version replaces the file; the medium may have the old one or the new one.
Install(v) == file' = v /\ safe' = safe \cup {v}

\* The medium catches up: it may forget what is no longer there, never what is.
Settle ==
    /\ safe' \in SUBSET safe /\ file \in safe'
    /\ UNCHANGED file

PowerLoss == file' \in safe /\ safe' = {file'}

Next == (\E v \in Versions : Install(v)) \/ Settle \/ PowerLoss

Spec == Init /\ [][Next]_vars
=============================================================================
