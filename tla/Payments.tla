------------------------------ MODULE Payments ------------------------------
(***************************************************************************)
(* Invoice payments: the payments clients post, with or without an         *)
(* Idempotency-Key, and the card payments Stripe reports by webhook, whose *)
(* key is the checkout session.                                            *)
(*                                                                         *)
(* A request is a chain of steps.  withIdempotency looks the key up, runs  *)
(* recordPayment and saves the key with the response, each in a            *)
(* transaction of its own, so requests with the same key overlap and a     *)
(* crash can fall between the payment and its key.  recordPayment locks    *)
(* and reads the invoice row, then writes and commits.                     *)
(*                                                                         *)
(* Amounts are cents: on whole cents the tolerance of half a cent in the   *)
(* code's comparisons makes no difference.                                 *)
(***************************************************************************)
EXTENDS Integers, Sequences, Functions

CONSTANTS
  Invoices,
  InvoiceTotals,   \* invoices.total, in cents
  Keys,            \* Idempotency-Keys of clients
  ClientRequests,  \* what clients may post
  Sessions,        \* the ids of Stripe checkout sessions
  Workers          \* the requests the API serves at the same time

NoKey == "none"  \* a request without an Idempotency-Key

Cents == Nat \ {0}  \* the DTO asks for at least 0.01

Request == [invoice : Invoices, amount : Cents, key : Keys \cup Sessions \cup {NoKey}]

ASSUME PaymentsAssumption ==
  /\ InvoiceTotals \in [Invoices -> Cents]
  /\ Keys \cap Sessions = {}
  /\ NoKey \notin Keys \cup Sessions
  /\ ClientRequests \subseteq Request
  /\ \A request \in ClientRequests : request.key \notin Sessions

VARIABLES
  paid,      \* invoices.paid_amount; balance_due is the rest of the total
  payments,  \* the payments rows, in the order of their commits
  saved,     \* idempotency_keys: by key, the payment in the response, 0 for none
  enabled,   \* payment_providers.is_enabled
  session,   \* Stripe: by session, its invoice and amount
  owed,      \* Stripe: the completed sessions whose webhook was not acknowledged
  worker     \* by worker, the request it serves and how far it is

vars == <<paid, payments, saved, enabled, session, owed, worker>>
gateway == <<session, owed>>

NoSession == [status |-> "none"]
Session == [status : {"open", "completed"}, invoice : Invoices, amount : Cents]

Idle == [phase |-> "idle"]
Serving == [phase : {"lookup", "wait"}, request : Request]
Paying == [phase : {"locked"}, request : Request, read : Nat]
Saving == [phase : {"save"}, request : Request, payment : Cents]

TypeOK ==
  /\ paid \in [Invoices -> Nat]
  /\ payments \in Seq(Request)
  /\ saved \in [Keys \cup Sessions -> Nat]
  /\ enabled \in BOOLEAN
  /\ session \in [Sessions -> Session \cup {NoSession}]
  /\ owed \subseteq Sessions
  /\ worker \in [Workers -> Serving \cup Paying \cup Saving \cup {Idle}]

Init ==
  /\ paid = [i \in Invoices |-> 0]
  /\ payments = <<>>
  /\ saved = [k \in Keys \cup Sessions |-> 0]
  /\ enabled = FALSE
  /\ session = [s \in Sessions |-> NoSession]
  /\ owed = {}
  /\ worker = [w \in Workers |-> Idle]

Balance(i) == InvoiceTotals[i] - paid[i]

SetWorker(w, state) == worker' = [worker EXCEPT ![w] = state]

-----------------------------------------------------------------------------
(* recordPayment within withIdempotency.                                   *)

Serves(w, phase) == worker[w].phase = phase

Begin(w, request) ==
  /\ worker[w] = Idle
  /\ SetWorker(w, [phase |-> IF request.key = NoKey THEN "wait" ELSE "lookup",
                   request |-> request])

\* A client posts a payment, or posts one again.
Post(w, request) ==
  /\ Begin(w, request)
  /\ UNCHANGED <<paid, payments, saved, enabled, gateway>>

\* What a success does at its sender: Stripe stops sending the webhook.
Accepted(w) == owed' = owed \ {worker[w].request.key}

\* The key is there: the saved response is the answer.
Replay(w) ==
  /\ Serves(w, "lookup")
  /\ saved[worker[w].request.key] # 0
  /\ SetWorker(w, Idle)
  /\ Accepted(w)
  /\ UNCHANGED <<paid, payments, saved, enabled, session>>

\* A mistake the runs must notice: the key is taken before the payment is made.
ClaimKeyFirst(w) ==
  /\ Serves(w, "lookup")
  /\ saved[worker[w].request.key] = 0
  /\ saved' = [saved EXCEPT ![worker[w].request.key] = Len(payments) + 1]
  /\ SetWorker(w, [phase |-> "wait", request |-> worker[w].request])
  /\ UNCHANGED <<paid, payments, enabled, gateway>>

LookupMisses(w) ==
  /\ Serves(w, "lookup")
  /\ saved[worker[w].request.key] = 0
  /\ SetWorker(w, [phase |-> "wait", request |-> worker[w].request])
  /\ UNCHANGED <<paid, payments, saved, enabled, gateway>>

Locks(w, i) == Serves(w, "locked") /\ worker[w].request.invoice = i

\* A mistake the runs must notice: the invoice is read without its lock.
ReadUnlocked(w) ==
  /\ Serves(w, "wait")
  /\ SetWorker(w, [phase |-> "locked", request |-> worker[w].request,
                   read |-> paid[worker[w].request.invoice]])
  /\ UNCHANGED <<paid, payments, saved, enabled, gateway>>

\* setLock('pessimistic_write'): the invoice is read when no other transaction
\* has it.
LockInvoice(w) ==
  /\ Serves(w, "wait")
  /\ \A other \in Workers : ~Locks(other, worker[w].request.invoice)
  /\ SetWorker(w, [phase |-> "locked", request |-> worker[w].request,
                   read |-> paid[worker[w].request.invoice]])
  /\ UNCHANGED <<paid, payments, saved, enabled, gateway>>

\* A mistake the runs must notice: payments made before are not looked at.
FitsTotal(request, before) == request.amount <= InvoiceTotals[request.invoice]

Fits(request, before) == before + request.amount <= InvoiceTotals[request.invoice]

\* A mistake the runs must notice: the request goes on although the payment may
\* not have been committed.
CommitOrNot(w) ==
  LET request == worker[w].request
  IN  /\ Serves(w, "locked")
      /\ Fits(request, worker[w].read)
      /\ \/ /\ paid' = [paid EXCEPT ![request.invoice] = worker[w].read + request.amount]
            /\ payments' = Append(payments, request)
         \/ UNCHANGED <<paid, payments>>
      /\ SetWorker(w, IF request.key = NoKey THEN Idle
                      ELSE [phase |-> "save", request |-> request,
                            payment |-> Len(payments) + 1])
      /\ UNCHANGED <<saved, enabled, gateway>>

\* The rest of the transaction: the paid amount and the payment are written and
\* the lock goes with the commit.  A payment without a key is then answered.
Commit(w) ==
  LET request == worker[w].request
  IN  /\ Serves(w, "locked")
      /\ Fits(request, worker[w].read)
      /\ paid' = [paid EXCEPT ![request.invoice] = worker[w].read + request.amount]
      /\ payments' = Append(payments, request)
      /\ SetWorker(w, IF request.key = NoKey THEN Idle
                      ELSE [phase |-> "save", request |-> request,
                            payment |-> Len(payments) + 1])
      /\ UNCHANGED <<saved, enabled, gateway>>

\* A mistake the runs must notice: an error is answered as a success.
FailAccepted(w) ==
  /\ worker[w].phase \in {"lookup", "locked", "save"}
  /\ SetWorker(w, Idle)
  /\ Accepted(w)
  /\ UNCHANGED <<paid, payments, saved, enabled, session>>

\* The payment is refused for lack of balance, the transaction rolls back, or
\* the server stops: the sender has no answer it takes for success.  To stop
\* while waiting for the lock is to stop before, or never to have begun.
Fail(w) ==
  /\ worker[w].phase \in {"lookup", "locked", "save"}
  /\ SetWorker(w, Idle)
  /\ UNCHANGED <<paid, payments, saved, enabled, gateway>>

\* The unique constraint on the key: the second to save it answers an error,
\* though its payment is committed.
SaveKey(w) ==
  LET key == worker[w].request.key
  IN  /\ Serves(w, "save")
      /\ IF saved[key] = 0
         THEN saved' = [saved EXCEPT ![key] = worker[w].payment] /\ Accepted(w)
         ELSE UNCHANGED <<saved, owed>>
      /\ SetWorker(w, Idle)
      /\ UNCHANGED <<paid, payments, enabled, session>>

-----------------------------------------------------------------------------
(* PaymentsService and Stripe.  Stripe keeps one session for an invoice    *)
(* while it remembers the key checkout:<invoice>; here it may always open  *)
(* another, and it sends a webhook until it is accepted, and sometimes     *)
(* again.                                                                  *)

\* upsertProvider, as far as the other operations see it.
SetProvider(value) ==
  /\ enabled' = value
  /\ UNCHANGED <<paid, payments, saved, gateway, worker>>

\* A mistake the runs must notice: a session asks for a deposit instead of the
\* balance.
CheckoutDeposit(i, s) ==
  /\ enabled
  /\ Balance(i) > 0
  /\ session[s] = NoSession
  /\ session' = [session EXCEPT ![s] =
                   [status |-> "open", invoice |-> i, amount |-> 1]]
  /\ UNCHANGED <<paid, payments, saved, enabled, owed, worker>>

\* createCheckoutUrl: the session is for the whole balance the request read,
\* which payments may lower before the customer pays.
Checkout(i, s) ==
  /\ enabled
  /\ Balance(i) > 0
  /\ session[s] = NoSession
  /\ session' = [session EXCEPT ![s] =
                   [status |-> "open", invoice |-> i, amount |-> Balance(i)]]
  /\ UNCHANGED <<paid, payments, saved, enabled, owed, worker>>

CustomerPays(s) ==
  /\ session[s] # NoSession /\ session[s].status = "open"
  /\ session' = [session EXCEPT ![s].status = "completed"]
  /\ owed' = owed \cup {s}
  /\ UNCHANGED <<paid, payments, saved, enabled, worker>>

CardRequest(s) ==
  [invoice |-> session[s].invoice, amount |-> session[s].amount, key |-> s]

\* handleStripeWebhook: while the provider is disabled no secret matches.
Webhook(w, s) ==
  /\ session[s] # NoSession /\ session[s].status = "completed"
  /\ enabled
  /\ Begin(w, CardRequest(s))
  /\ UNCHANGED <<paid, payments, saved, enabled, gateway>>

Next ==
  \/ \E w \in Workers, request \in ClientRequests : Post(w, request)
  \/ \E w \in Workers : \/ Replay(w) \/ LookupMisses(w)
                        \/ LockInvoice(w) \/ Commit(w)
                        \/ SaveKey(w) \/ Fail(w)
  \/ \E value \in BOOLEAN : SetProvider(value)
  \/ \E i \in Invoices, s \in Sessions : Checkout(i, s)
  \/ \E s \in Sessions : CustomerPays(s)
  \/ \E w \in Workers, s \in Sessions : Webhook(w, s)

Spec == Init /\ [][Next]_vars

Ends(w) == Replay(w) \/ SaveKey(w) \/ Fail(w)

For(w, s) == worker[w] # Idle /\ worker[w].request.key = s

\* Every request ends, well or not, and PostgreSQL queues the transactions that
\* wait for a row.  Stripe repeats a webhook that was not accepted, and the
\* server does not fail at the same step of all of them.
Fairness ==
  /\ \A w \in Workers : WF_vars(Ends(w)) /\ SF_vars(LockInvoice(w))
  /\ \A s \in Sessions :
       /\ SF_vars(s \in owed /\ \E w \in Workers : Webhook(w, s))
       /\ SF_vars(\E w \in Workers : For(w, s) /\ LookupMisses(w))
       /\ SF_vars(\E w \in Workers : For(w, s) /\ Commit(w))

FairSpec == Spec /\ Fairness

-----------------------------------------------------------------------------

\* No invoice is paid beyond its total, whatever requests and webhooks overlap.
NeverOverpaid == \A i \in Invoices : paid[i] <= InvoiceTotals[i]

\* The paid amount of an invoice is the sum of its payments: no overlapping
\* request overwrites the amount another has just written.
PaidIsTheSumOfPayments ==
  \A i \in Invoices :
    paid[i] = FoldFunctionOnSet(+, 0, [n \in DOMAIN payments |-> payments[n].amount],
                                {n \in DOMAIN payments : payments[n].invoice = i})

\* A duplicated webhook records no second payment, even when its deliveries
\* overlap or the server stops before the key is saved: what a session asks
\* for is the whole balance, so there is no balance left for a second one.
OnePaymentPerSession ==
  \A m, n \in DOMAIN payments :
    payments[m].key = payments[n].key /\ payments[n].key \in Sessions => m = n

\* A response saved under a key is that of a committed payment with this key.
SavedResponsesAreTrue ==
  \A k \in Keys \cup Sessions :
    saved[k] # 0 => saved[k] \in DOMAIN payments /\ payments[saved[k]].key = k

Recorded(s) == \E n \in DOMAIN payments : payments[n].key = s

\* Stripe is never told that a capture was received while no payment records it.
AcceptedIsRecorded ==
  \A s \in Sessions :
    session[s] # NoSession /\ session[s].status = "completed" /\ s \notin owed
      => Recorded(s)

\* Money captured by Stripe is recorded on the invoice, unless other payments
\* took the balance meanwhile or the provider is disabled.
CapturesAreRecorded ==
  <>[]enabled =>
    \A s \in Sessions :
      s \in owed ~> \/ Recorded(s)
                    \/ s \in owed /\ ~Fits(CardRequest(s), paid[session[s].invoice])

\* SPEC, business rules: "invoice issue and payment POSTs accept Idempotency-Key
\* to prevent duplicate entries".
OnePaymentPerKey ==
  \A m, n \in DOMAIN payments :
    payments[m].key = payments[n].key /\ payments[n].key \in Keys => m = n
=============================================================================
