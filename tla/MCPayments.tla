----------------------------- MODULE MCPayments -----------------------------
(***************************************************************************)
(* Payments of one invoice of two cents: a keyed payment of one cent that  *)
(* fits twice, a payment without a key, and two checkout sessions.         *)
(***************************************************************************)
EXTENDS Payments, TLC

CONSTANTS i1, k1

MCTotals == i1 :> 2

KeyedRequest == [invoice |-> i1, amount |-> 1, key |-> k1]
UnkeyedRequest == [invoice |-> i1, amount |-> 2, key |-> NoKey]

MCRequests == {KeyedRequest, UnkeyedRequest}
MCKeyedRequests == {KeyedRequest}
=============================================================================
