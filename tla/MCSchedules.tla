---------------------------- MODULE MCSchedules ----------------------------
(* Two source types, on a queue each.                                      *)
EXTENDS Schedules, TLC

CONSTANTS generic, amazon

MCQueueOf == (generic :> "default") @@ (amazon :> "playwright")
=============================================================================
