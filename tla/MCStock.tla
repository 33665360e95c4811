------------------------------ MODULE MCStock ------------------------------
(***************************************************************************)
(* Stock on one product in two warehouses with two lots: enough for a lot  *)
(* to be split by a transfer, for two lots to swap their expiry order and  *)
(* for an issue to span both lots and the quantity without a lot.          *)
(***************************************************************************)
EXTENDS Stock

MCLotNumbers == 1 .. 2
MCExpiryDates == 1 .. 2
MCQuantities == {1, 3}
=============================================================================
