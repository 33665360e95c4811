--------------------------- MODULE MCRevaluations ---------------------------
(***************************************************************************)
(* An invoice and a bill of two units, paid one by one or at once, at      *)
(* rates of 1 and 1.5.                                                     *)
(***************************************************************************)
EXTENDS Revaluations, TLC

CONSTANTS inv, bill

MCTotal == inv :> 2 @@ bill :> 2

\* A behaviour is followed until two requests overlapped on the bill: of a bill
\* the properties say nothing from then on.
BillIsNotRaced == bill \notin raced

Symmetry == Permutations(Requests)
=============================================================================
