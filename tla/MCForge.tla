------------------------------ MODULE MCForge ------------------------------
(* Small instances of Forge for TLC. *)
EXTENDS Forge, TLC

CountCopy == (1 :> "count") @@ (2 :> "copy")
CountExec == (1 :> "count") @@ (2 :> "exec")

TwoOne == (1 :> 2) @@ (2 :> 1)
OneOne == (1 :> 1) @@ (2 :> 1)

SecondFirst == (1 :> 0) @@ (2 :> 1)
=============================================================================
