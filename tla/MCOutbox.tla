------------------------------ MODULE MCOutbox ------------------------------
(***************************************************************************)
(* Two events of different instants, batches of one event, three attempts  *)
(* and two overlapping dispatchers.                                        *)
(***************************************************************************)
EXTENDS Outbox, TLC

CONSTANTS e1, e2

MCOccurredAt == e1 :> 1 @@ e2 :> 2
=============================================================================
