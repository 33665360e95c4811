--------------------------- MODULE PaymentsProofs ---------------------------
(***************************************************************************)
(* What holds of Payments for any invoices, requests, sessions and number  *)
(* of workers.  The promises need to be seen together: that the balance is *)
(* paid once rests on the lock, and that a session pays once rests on the  *)
(* balance.                                                                *)
(*                                                                         *)
(* A payment commits with the event that it emits, so what Outbox makes of *)
(* an event is here too, for any events, batches, attempts and number of   *)
(* dispatchers.  And a payment in a foreign currency settles at the booked *)
(* rate, so Revaluations is as well: what a document has in its account,   *)
(* however revaluations, reversals and payments follow each other.  The    *)
(* three specifications share no variable.                                 *)
(***************************************************************************)
EXTENDS Payments, Outbox, Revaluations, Sums, SequenceTheorems, TLAPS

\* The invoice row is locked by one request at a time, and what the request has
\* read stays true until it commits.
LockedRowsAreCurrent ==
  \A w \in Workers :
    Serves(w, "locked") =>
      /\ worker[w].read = paid[worker[w].request.invoice]
      /\ \A v \in Workers : Locks(v, worker[w].request.invoice) => v = w

\* Only requests with a key look it up and save it, and when they save it their
\* payment is there.
KeyedSteps ==
  \A w \in Workers :
    /\ worker[w].phase \in {"lookup", "save"} => worker[w].request.key # NoKey
    /\ Serves(w, "save") => /\ worker[w].payment \in DOMAIN payments
                            /\ payments[worker[w].payment] = worker[w].request

Completed(s) == session[s] # NoSession /\ session[s].status = "completed"

\* What comes with the key of a session is the completed session's request.
CardRequestsAreCaptures ==
  /\ \A w \in Workers :
       worker[w] # Idle /\ worker[w].request.key \in Sessions =>
         Completed(worker[w].request.key) /\ worker[w].request = CardRequest(worker[w].request.key)
  /\ \A n \in DOMAIN payments :
       payments[n].key \in Sessions =>
         /\ Completed(payments[n].key)
         /\ payments[n] = CardRequest(payments[n].key)
         /\ paid[payments[n].invoice] = InvoiceTotals[payments[n].invoice]

\* A session asks for no less than the balance of its invoice.
SessionsAskForTheBalance ==
  \A s \in Sessions : session[s] # NoSession => session[s].amount >= Balance(session[s].invoice)

IInv ==
  /\ TypeOK
  /\ NeverOverpaid
  /\ LockedRowsAreCurrent
  /\ KeyedSteps
  /\ CardRequestsAreCaptures
  /\ SessionsAskForTheBalance
  /\ OnePaymentPerSession
  /\ SavedResponsesAreTrue
  /\ AcceptedIsRecorded

-----------------------------------------------------------------------------

\* Every invoice has a total to pay.
LEMMA TotalsAreCents ==
  ASSUME NEW i \in Invoices
  PROVE  InvoiceTotals[i] \in Nat /\ InvoiceTotals[i] > 0
  BY PaymentsAssumption DEF Cents

\* Before the first request there is nothing to go wrong.
LEMMA InitIInv == Init => IInv
  <1> SUFFICES ASSUME Init PROVE IInv
    OBVIOUS
  <1> DOMAIN payments = {}
    BY DEF Init
  <1>2. TypeOK
    <2>1. payments \in Seq(Request)
      BY EmptySeq DEF Init
    <2>2. paid \in [Invoices -> Nat] /\ saved \in [Keys \cup Sessions -> Nat]
      BY DEF Init
    <2>3. QED  BY <2>1, <2>2 DEF Init, TypeOK
  <1>3. NeverOverpaid
    BY TotalsAreCents DEF Init, NeverOverpaid
  <1>4. LockedRowsAreCurrent /\ KeyedSteps
    <2>1. \A w \in Workers : worker[w] = Idle
      BY DEF Init
    <2>2. Idle.phase = "idle"
      BY DEF Idle
    <2>3. QED  BY <2>1, <2>2 DEF LockedRowsAreCurrent, KeyedSteps, Serves
  <1>5. CardRequestsAreCaptures /\ SessionsAskForTheBalance
    BY DEF Init, CardRequestsAreCaptures, SessionsAskForTheBalance
  <1>6. OnePaymentPerSession /\ SavedResponsesAreTrue /\ AcceptedIsRecorded
    BY DEF Init, OnePaymentPerSession, SavedResponsesAreTrue, AcceptedIsRecorded
  <1>7. QED  BY <1>2, <1>3, <1>4, <1>5, <1>6 DEF IInv

\* A step that leaves the tables and the sessions alone and only moves a worker
\* keeps the invariant when the worker's new state fits in.
LEMMA WorkerStepKeepsIInv ==
  ASSUME IInv, NEW w \in Workers, NEW state \in Serving \cup Paying \cup {Idle},
         SetWorker(w, state), UNCHANGED <<paid, payments, saved, enabled, gateway>>,
         state.phase = "lookup" => state.request.key # NoKey,
         state # Idle /\ state.request.key \in Sessions =>
           Completed(state.request.key) /\ state.request = CardRequest(state.request.key),
         state.phase = "locked" =>
           /\ state.read = paid[state.request.invoice]
           /\ \A v \in Workers \ {w} : ~Locks(v, state.request.invoice)
  PROVE  IInv'
  <1>1. worker' = [worker EXCEPT ![w] = state] /\ worker \in [Workers -> Serving \cup Paying \cup Saving \cup {Idle}]
    BY DEF SetWorker, IInv, TypeOK
  <1>2. state.phase # "save"
    BY DEF Serving, Paying, Idle
  <1>3. TypeOK'
    BY <1>1 DEF IInv, TypeOK, gateway
  <1>4. LockedRowsAreCurrent'
    BY <1>1 DEF IInv, LockedRowsAreCurrent, Serves, Locks
  <1>5. KeyedSteps'
    BY <1>1, <1>2 DEF IInv, KeyedSteps, Serves
  <1>6. CardRequestsAreCaptures'
    BY <1>1 DEF IInv, CardRequestsAreCaptures, Completed, CardRequest, gateway
  <1>7. (NeverOverpaid /\ SessionsAskForTheBalance /\ OnePaymentPerSession
           /\ SavedResponsesAreTrue /\ AcceptedIsRecorded)'
    BY DEF IInv, NeverOverpaid, SessionsAskForTheBalance, Balance, OnePaymentPerSession,
           SavedResponsesAreTrue, AcceptedIsRecorded, Recorded, gateway
  <1>8. QED  BY <1>3, <1>4, <1>5, <1>6, <1>7 DEF IInv

\* What the type invariant says of a request being served.
LEMMA WorkersAreTyped ==
  ASSUME TypeOK, NEW w \in Workers
  PROVE  /\ worker[w] # Idle => worker[w].request \in Request
         /\ worker[w].phase \in {"lookup", "wait"} => worker[w] \in Serving
         /\ worker[w].phase = "locked" => worker[w] \in Paying
         /\ worker[w].phase = "save" => worker[w] \in Saving
  BY DEF TypeOK, Serving, Paying, Saving, Idle

\* Posts, webhooks, lookups that miss, locks and failures only move a worker.
LEMMA WorkerMovesKeepIInv ==
  ASSUME IInv, NEW w \in Workers,
         \/ \E request \in ClientRequests : Post(w, request)
         \/ \E s \in Sessions : Webhook(w, s)
         \/ LookupMisses(w) \/ LockInvoice(w) \/ Fail(w)
  PROVE  IInv'
  <1> TypeOK
    BY DEF IInv
  <1>1. ASSUME NEW request \in ClientRequests, Post(w, request)
        PROVE  IInv'
    <2> DEFINE state == [phase |-> IF request.key = NoKey THEN "wait" ELSE "lookup",
                         request |-> request]
    <2>1. request \in Request /\ request.key \notin Sessions
      BY PaymentsAssumption
    <2>2. state \in Serving
      BY <2>1 DEF Serving
    <2>3. QED  BY <1>1, <2>1, <2>2, WorkerStepKeepsIInv DEF Post, Begin
  <1>2. ASSUME NEW s \in Sessions, Webhook(w, s)
        PROVE  IInv'
    <2> DEFINE request == CardRequest(s)
               state == [phase |-> IF request.key = NoKey THEN "wait" ELSE "lookup",
                         request |-> request]
    <2>1. Completed(s) /\ request.key = s /\ s # NoKey
      BY <1>2, PaymentsAssumption DEF Webhook, Completed, CardRequest
    <2>2. session[s] \in Session
      BY <2>1 DEF TypeOK, Completed
    <2>3. request \in Request
      BY <2>2 DEF Session, Request, CardRequest
    <2>4. state \in Serving
      BY <2>3 DEF Serving
    <2>5. SetWorker(w, state) /\ UNCHANGED <<paid, payments, saved, enabled, gateway>>
      BY <1>2 DEF Webhook, Begin
    <2> HIDE DEF request
    <2>6. QED  BY <2>1, <2>4, <2>5, WorkerStepKeepsIInv DEF request
  <1>3. CASE LookupMisses(w)
    <2> DEFINE state == [phase |-> "wait", request |-> worker[w].request]
    <2>1. worker[w] # Idle /\ worker[w].request \in Request
      BY <1>3, WorkersAreTyped DEF LookupMisses, Serves, Idle
    <2>2. state \in Serving /\ state.phase = "wait" /\ state.request = worker[w].request
      BY <2>1 DEF Serving
    <2>3. SetWorker(w, state) /\ UNCHANGED <<paid, payments, saved, enabled, gateway>>
      BY <1>3 DEF LookupMisses
    <2> HIDE DEF state
    <2>4. QED  BY <2>1, <2>2, <2>3, WorkerStepKeepsIInv DEF IInv, CardRequestsAreCaptures
  <1>4. CASE LockInvoice(w)
    <2> DEFINE state == [phase |-> "locked", request |-> worker[w].request,
                         read |-> paid[worker[w].request.invoice]]
    <2>1. worker[w] # Idle /\ worker[w].request \in Request
      BY <1>4, WorkersAreTyped DEF LockInvoice, Serves, Idle
    <2>2. paid[worker[w].request.invoice] \in Nat
      BY <2>1 DEF TypeOK, Request
    <2>3. state \in Paying /\ state.phase = "locked" /\ state.request = worker[w].request
          /\ state.read = paid[state.request.invoice]
      BY <2>1, <2>2 DEF Paying
    <2>4. \A v \in Workers \ {w} : ~Locks(v, state.request.invoice)
      BY <1>4 DEF LockInvoice
    <2>5. SetWorker(w, state) /\ UNCHANGED <<paid, payments, saved, enabled, gateway>>
      BY <1>4 DEF LockInvoice
    <2> HIDE DEF state
    <2>6. QED  BY <2>1, <2>3, <2>4, <2>5, WorkerStepKeepsIInv DEF IInv, CardRequestsAreCaptures
  <1>5. CASE Fail(w)
    <2>1. Idle.phase = "idle"
      BY DEF Idle
    <2>2. QED  BY <1>5, <2>1, WorkerStepKeepsIInv DEF Fail
  <1>6. QED  BY <1>1, <1>2, <1>3, <1>4, <1>5

\* An answer from a saved response is about a committed payment.
LEMMA ReplayKeepsIInv ==
  ASSUME IInv, NEW w \in Workers, Replay(w)
  PROVE  IInv'
  <1> DEFINE key == worker[w].request.key
  <1>1. key \in Keys \cup Sessions /\ saved[key] # 0
    <2>1. worker[w] # Idle /\ worker[w].phase = "lookup"
      BY DEF Replay, Serves, Idle
    <2>2. worker[w].request \in Request /\ key # NoKey
      BY <2>1, WorkersAreTyped DEF IInv, KeyedSteps
    <2>3. QED  BY <2>2 DEF Replay, Request
  <1>2. key \in Sessions => Recorded(key)
    BY <1>1 DEF IInv, SavedResponsesAreTrue, Recorded
  <1>3. worker' = [worker EXCEPT ![w] = Idle] /\ Idle.phase = "idle"
    BY DEF Replay, SetWorker, Idle
  <1>4. TypeOK'
    BY <1>3 DEF IInv, TypeOK, Replay, Accepted
  <1>5. LockedRowsAreCurrent'
    BY <1>3 DEF IInv, TypeOK, LockedRowsAreCurrent, Serves, Locks, Replay
  <1>6. KeyedSteps'
    BY <1>3 DEF IInv, TypeOK, KeyedSteps, Serves, Replay
  <1>7. CardRequestsAreCaptures'
    BY <1>3 DEF IInv, TypeOK, CardRequestsAreCaptures, Completed, CardRequest, Replay
  <1>8. AcceptedIsRecorded'
    BY <1>2 DEF IInv, AcceptedIsRecorded, Recorded, Replay, Accepted
  <1>9. (NeverOverpaid /\ SessionsAskForTheBalance /\ OnePaymentPerSession
           /\ SavedResponsesAreTrue)'
    BY DEF IInv, NeverOverpaid, SessionsAskForTheBalance, Balance, OnePaymentPerSession,
           SavedResponsesAreTrue, Replay
  <1>10. QED  BY <1>4, <1>5, <1>6, <1>7, <1>8, <1>9 DEF IInv

\* The key is saved with the payment that was committed under it.
LEMMA SaveKeyKeepsIInv ==
  ASSUME IInv, NEW w \in Workers, SaveKey(w)
  PROVE  IInv'
  <1> DEFINE key == worker[w].request.key
             payment == worker[w].payment
  <1>1. key \in Keys \cup Sessions
    <2>1. worker[w] # Idle /\ worker[w].phase = "save"
      BY DEF SaveKey, Serves, Idle
    <2>2. worker[w].request \in Request /\ key # NoKey
      BY <2>1, WorkersAreTyped DEF IInv, KeyedSteps
    <2>3. QED  BY <2>2 DEF Request
  <1>2. payment \in DOMAIN payments /\ payments[payment].key = key /\ payment \in Nat
    <2>1. worker[w] \in Saving
      BY WorkersAreTyped DEF SaveKey, Serves, IInv
    <2>2. QED  BY <2>1 DEF IInv, KeyedSteps, SaveKey, Saving, Cents
  <1>3. worker' = [worker EXCEPT ![w] = Idle] /\ Idle.phase = "idle"
    BY DEF SaveKey, SetWorker, Idle
  <1>4. \/ saved' = [saved EXCEPT ![key] = payment] /\ owed' = owed \ {key}
        \/ UNCHANGED <<saved, owed>>
    BY DEF SaveKey, Accepted
  <1> HIDE DEF key, payment
  <1>5. TypeOK'
    <2>1. saved' \in [Keys \cup Sessions -> Nat] /\ owed' \subseteq Sessions
      BY <1>1, <1>2, <1>4 DEF IInv, TypeOK
    <2>2. QED  BY <1>3, <2>1 DEF IInv, TypeOK, SaveKey
  <1>6. LockedRowsAreCurrent'
    BY <1>3 DEF IInv, TypeOK, LockedRowsAreCurrent, Serves, Locks, SaveKey
  <1>7. KeyedSteps'
    BY <1>3 DEF IInv, TypeOK, KeyedSteps, Serves, SaveKey
  <1>8. CardRequestsAreCaptures'
    BY <1>3 DEF IInv, TypeOK, CardRequestsAreCaptures, Completed, CardRequest, SaveKey
  <1>9. SavedResponsesAreTrue'
    BY <1>1, <1>2, <1>4 DEF IInv, TypeOK, SavedResponsesAreTrue, SaveKey
  <1>10. AcceptedIsRecorded'
    BY <1>2, <1>4 DEF IInv, AcceptedIsRecorded, Recorded, SaveKey
  <1>11. (NeverOverpaid /\ SessionsAskForTheBalance /\ OnePaymentPerSession)'
    BY DEF IInv, NeverOverpaid, SessionsAskForTheBalance, Balance, OnePaymentPerSession, SaveKey
  <1>12. QED  BY <1>5, <1>6, <1>7, <1>8, <1>9, <1>10, <1>11 DEF IInv

\* Switching the provider on or off touches nothing the invariant is about.
LEMMA SetProviderKeepsIInv ==
  ASSUME IInv, NEW value \in BOOLEAN, SetProvider(value)
  PROVE  IInv'
  BY DEF IInv, SetProvider, gateway, TypeOK, NeverOverpaid, LockedRowsAreCurrent, KeyedSteps,
         Serves, Locks, CardRequestsAreCaptures, Completed, CardRequest, SessionsAskForTheBalance,
         Balance, OnePaymentPerSession, SavedResponsesAreTrue, AcceptedIsRecorded, Recorded

\* A new session asks for the balance and nothing refers to it yet.
LEMMA CheckoutKeepsIInv ==
  ASSUME IInv, NEW i \in Invoices, NEW s \in Sessions, Checkout(i, s)
  PROVE  IInv'
  <1> DEFINE new == [status |-> "open", invoice |-> i, amount |-> Balance(i)]
  <1>1. paid[i] \in Nat /\ Balance(i) \in Cents /\ new \in Session /\ new # NoSession
    <2>1. paid[i] \in Nat /\ InvoiceTotals[i] \in Nat /\ Balance(i) > 0
      BY TotalsAreCents DEF IInv, TypeOK, Checkout
    <2>2. Balance(i) \in Cents
      BY <2>1 DEF Balance, Cents
    <2>3. QED  BY <2>1, <2>2 DEF Session, NoSession
  <1>2. session' = [session EXCEPT ![s] = new] /\ session[s] = NoSession
    BY DEF Checkout
  <1>3. \A t \in Sessions : Completed(t) => t # s /\ session'[t] = session[t]
    BY <1>2 DEF IInv, TypeOK, Completed
  <1>4. UNCHANGED <<paid, payments, saved, owed, worker>>
    BY DEF Checkout
  <1>5. TypeOK'
    BY <1>1, <1>2, <1>4 DEF IInv, TypeOK, Checkout
  <1>6. CardRequestsAreCaptures'
    <2>1. ASSUME NEW w \in Workers, worker[w] # Idle, worker[w].request.key \in Sessions
          PROVE  (Completed(worker[w].request.key)
                    /\ worker[w].request = CardRequest(worker[w].request.key))'
      <3>1. Completed(worker[w].request.key) /\ worker[w].request = CardRequest(worker[w].request.key)
        BY <2>1 DEF IInv, CardRequestsAreCaptures
      <3>2. session'[worker[w].request.key] = session[worker[w].request.key]
        BY <1>3, <2>1, <3>1
      <3>3. QED  BY <1>4, <3>1, <3>2 DEF Completed, CardRequest
    <2>2. ASSUME NEW n \in DOMAIN payments, payments[n].key \in Sessions
          PROVE  (/\ Completed(payments[n].key)
                  /\ payments[n] = CardRequest(payments[n].key)
                  /\ paid[payments[n].invoice] = InvoiceTotals[payments[n].invoice])'
      <3>1. /\ Completed(payments[n].key) /\ payments[n] = CardRequest(payments[n].key)
            /\ paid[payments[n].invoice] = InvoiceTotals[payments[n].invoice]
        BY <2>2 DEF IInv, CardRequestsAreCaptures
      <3>2. session'[payments[n].key] = session[payments[n].key]
        BY <1>3, <2>2, <3>1
      <3>3. QED  BY <1>4, <3>1, <3>2 DEF Completed, CardRequest
    <2>3. QED  BY <1>4, <2>1, <2>2 DEF CardRequestsAreCaptures
  <1>7. SessionsAskForTheBalance'
    <2>1. ASSUME NEW t \in Sessions, session'[t] # NoSession
          PROVE  (session[t].amount >= Balance(session[t].invoice))'
      <3>1. CASE t = s
        BY <1>1, <1>2, <1>4, <3>1 DEF IInv, TypeOK, Balance, Cents
      <3>2. CASE t # s
        BY <1>2, <1>4, <2>1, <3>2 DEF IInv, TypeOK, SessionsAskForTheBalance, Balance
      <3>3. QED  BY <3>1, <3>2
    <2>2. QED  BY <2>1 DEF SessionsAskForTheBalance
  <1>8. AcceptedIsRecorded'
    <2>1. ASSUME NEW t \in Sessions, Completed(t)', t \notin owed
          PROVE  Recorded(t)'
      <3>1. t # s
        BY <1>1, <1>2, <2>1 DEF IInv, TypeOK, Completed
      <3>2. session'[t] = session[t]
        BY <1>2, <3>1 DEF IInv, TypeOK
      <3>3. QED  BY <1>4, <2>1, <3>2 DEF IInv, AcceptedIsRecorded, Completed, Recorded
    <2>2. QED  BY <1>4, <2>1 DEF AcceptedIsRecorded, Completed
  <1>9. (NeverOverpaid /\ LockedRowsAreCurrent /\ KeyedSteps /\ OnePaymentPerSession
           /\ SavedResponsesAreTrue)'
    BY <1>4 DEF IInv, NeverOverpaid, LockedRowsAreCurrent, KeyedSteps, Serves, Locks,
                OnePaymentPerSession, SavedResponsesAreTrue
  <1>10. QED  BY <1>5, <1>6, <1>7, <1>8, <1>9 DEF IInv

\* The sessions that were completed stay what they were, and the new one is owed.
LEMMA CustomerPaysKeepsIInv ==
  ASSUME IInv, NEW s \in Sessions, CustomerPays(s)
  PROVE  IInv'
  <1> DEFINE new == [session[s] EXCEPT !.status = "completed"]
  <1>1. session[s] \in Session /\ new \in Session /\ session[s].status = "open"
    BY DEF IInv, TypeOK, CustomerPays, Session
  <1>2. new # NoSession /\ new.amount = session[s].amount /\ new.invoice = session[s].invoice
    BY <1>1 DEF Session, NoSession
  <1>3. session' = [session EXCEPT ![s] = new] /\ owed' = owed \cup {s}
    BY DEF CustomerPays
  <1>4. UNCHANGED <<paid, payments, saved, enabled, worker>>
    BY DEF CustomerPays
  <1> HIDE DEF new
  <1>5. session'[s] = new /\ \A t \in Sessions \ {s} : session'[t] = session[t]
    BY <1>3 DEF IInv, TypeOK
  <1>6. \A t \in Sessions : Completed(t) => session'[t] = session[t]
    BY <1>1, <1>5 DEF Completed
  <1>7. TypeOK'
    BY <1>1, <1>3, <1>4 DEF IInv, TypeOK
  <1>8. CardRequestsAreCaptures'
    <2>1. ASSUME NEW w \in Workers, worker[w] # Idle, worker[w].request.key \in Sessions
          PROVE  (Completed(worker[w].request.key)
                    /\ worker[w].request = CardRequest(worker[w].request.key))'
      <3>1. Completed(worker[w].request.key) /\ worker[w].request = CardRequest(worker[w].request.key)
        BY <2>1 DEF IInv, CardRequestsAreCaptures
      <3>2. session'[worker[w].request.key] = session[worker[w].request.key]
        BY <1>6, <2>1, <3>1
      <3>3. QED  BY <1>4, <3>1, <3>2 DEF Completed, CardRequest
    <2>2. ASSUME NEW n \in DOMAIN payments, payments[n].key \in Sessions
          PROVE  (/\ Completed(payments[n].key)
                  /\ payments[n] = CardRequest(payments[n].key)
                  /\ paid[payments[n].invoice] = InvoiceTotals[payments[n].invoice])'
      <3>1. /\ Completed(payments[n].key) /\ payments[n] = CardRequest(payments[n].key)
            /\ paid[payments[n].invoice] = InvoiceTotals[payments[n].invoice]
        BY <2>2 DEF IInv, CardRequestsAreCaptures
      <3>2. session'[payments[n].key] = session[payments[n].key]
        BY <1>6, <2>2, <3>1
      <3>3. QED  BY <1>4, <3>1, <3>2 DEF Completed, CardRequest
    <2>3. QED  BY <1>4, <2>1, <2>2 DEF CardRequestsAreCaptures
  <1>9. SessionsAskForTheBalance'
    BY <1>1, <1>2, <1>4, <1>5 DEF IInv, CustomerPays, SessionsAskForTheBalance, Balance
  <1>10. AcceptedIsRecorded'
    BY <1>3, <1>4, <1>5 DEF IInv, AcceptedIsRecorded, Recorded
  <1>11. (NeverOverpaid /\ LockedRowsAreCurrent /\ KeyedSteps /\ OnePaymentPerSession
           /\ SavedResponsesAreTrue)'
    BY <1>4 DEF IInv, NeverOverpaid, LockedRowsAreCurrent, KeyedSteps, Serves, Locks,
                OnePaymentPerSession, SavedResponsesAreTrue
  <1>12. QED  BY <1>7, <1>8, <1>9, <1>10, <1>11 DEF IInv

\* The payment fits the balance because the row read is still the row written,
\* and no payment of the same session came before because it left no balance.
LEMMA CommitKeepsIInv ==
  ASSUME IInv, NEW w \in Workers, Commit(w)
  PROVE  IInv'
  <1> DEFINE r == worker[w].request
             i == r.invoice
             n == Len(payments) + 1
             state == IF r.key = NoKey THEN Idle
                      ELSE [phase |-> "save", request |-> r, payment |-> n]
  <1>1. r \in Request /\ worker[w] # Idle
    BY WorkersAreTyped DEF IInv, Commit, Serves, Idle
  <1>2. i \in Invoices /\ r.amount \in Nat /\ r.amount > 0 /\ payments \in Seq(Request)
    BY <1>1 DEF Request, Cents, IInv, TypeOK
  <1>3. paid[i] \in Nat /\ InvoiceTotals[i] \in Nat /\ worker[w].read = paid[i]
    <2>1. worker[w].read = paid[i]
      BY DEF IInv, LockedRowsAreCurrent, Commit
    <2>2. QED  BY <1>2, <2>1, TotalsAreCents DEF IInv, TypeOK
  <1>4. paid[i] + r.amount <= InvoiceTotals[i]
    BY <1>3 DEF Commit, Fits
  <1>5. paid' = [paid EXCEPT ![i] = paid[i] + r.amount] /\ payments' = Append(payments, r)
        /\ worker' = [worker EXCEPT ![w] = state] /\ UNCHANGED <<saved, enabled, session, owed>>
    BY <1>3 DEF Commit, SetWorker, gateway
  <1>6. n \in Nat \ {0} /\ n \notin DOMAIN payments /\ DOMAIN payments' = DOMAIN payments \cup {n}
        /\ payments'[n] = r /\ \A m \in DOMAIN payments : payments'[m] = payments[m]
    BY <1>1, <1>2, <1>5
  <1>7. /\ state \in Saving \cup {Idle} /\ state.phase \in {"save", "idle"}
        /\ state # Idle => /\ state.phase = "save" /\ state.request = r
                           /\ state.payment = n /\ r.key # NoKey
        /\ state.phase = "save" => state # Idle
    BY <1>1, <1>6 DEF Saving, Idle, Cents
  <1>8. \A v \in Workers : worker'[v] = IF v = w THEN state ELSE worker[v]
    BY <1>5 DEF IInv, TypeOK
  <1>9. \A j \in Invoices : /\ paid'[j] \in Nat /\ paid[j] \in Nat
                            /\ paid[j] <= paid'[j] /\ paid'[j] <= InvoiceTotals[j]
                            /\ j # i => paid'[j] = paid[j]
    BY <1>2, <1>3, <1>4, <1>5 DEF IInv, TypeOK, NeverOverpaid
  <1>10. paid'[i] = paid[i] + r.amount
    BY <1>2, <1>5 DEF IInv, TypeOK
  <1> HIDE DEF state, n, i, r
  <1>11. TypeOK'
    <2>1. payments' \in Seq(Request)
      BY <1>1, <1>2, <1>5, AppendProperties
    <2>2. paid' \in [Invoices -> Nat]
      BY <1>5, <1>9 DEF IInv, TypeOK
    <2>3. worker' \in [Workers -> Serving \cup Paying \cup Saving \cup {Idle}]
      BY <1>5, <1>7 DEF IInv, TypeOK
    <2>4. QED  BY <1>5, <2>1, <2>2, <2>3 DEF IInv, TypeOK
  <1>12. NeverOverpaid'
    BY <1>9 DEF NeverOverpaid
  <1>13. LockedRowsAreCurrent'
    <2>1. ASSUME NEW v \in Workers, worker'[v].phase = "locked"
          PROVE  /\ v # w /\ worker'[v] = worker[v] /\ worker[v].request.invoice \in Invoices
                 /\ worker[v].request.invoice # i
      <3>1. v # w /\ worker'[v] = worker[v]
        BY <1>7, <1>8, <2>1
      <3>2. worker[v].request \in Request
        BY <2>1, <3>1, WorkersAreTyped DEF IInv, Idle
      <3>3. worker[v].request.invoice # i
        BY <2>1, <3>1 DEF IInv, LockedRowsAreCurrent, Commit, Serves, Locks, i, r
      <3>4. QED  BY <3>1, <3>2, <3>3 DEF Request
    <2>2. QED  BY <1>9, <2>1 DEF IInv, LockedRowsAreCurrent, Serves, Locks
  <1>14. KeyedSteps'
    BY <1>6, <1>7, <1>8 DEF IInv, KeyedSteps, Serves
  <1>15. ASSUME r.key \in Sessions
         PROVE  Completed(r.key) /\ r = CardRequest(r.key) /\ paid'[i] = InvoiceTotals[i]
    <2>1. Completed(r.key) /\ r = CardRequest(r.key)
      BY <1>1, <1>15 DEF IInv, CardRequestsAreCaptures, r
    <2>2. r.amount = session[r.key].amount /\ i = session[r.key].invoice
      BY <2>1 DEF CardRequest, i
    <2>3. r.amount >= InvoiceTotals[i] - paid[i]
      BY <1>15, <2>1, <2>2 DEF IInv, SessionsAskForTheBalance, Balance, Completed
    <2>4. QED  BY <1>2, <1>3, <1>4, <1>10, <2>1, <2>3
  <1>16. \A m \in DOMAIN payments : payments[m] \in Request /\ payments[m].invoice \in Invoices
    <2>1. ASSUME NEW m \in DOMAIN payments
          PROVE  payments[m] \in Request
      BY <1>2, ElementOfSeq
    <2>2. QED  BY <2>1 DEF Request
  <1>17. CardRequestsAreCaptures'
    <2>1. ASSUME NEW v \in Workers, worker'[v] # Idle, worker'[v].request.key \in Sessions
          PROVE  (Completed(worker[v].request.key)
                    /\ worker[v].request = CardRequest(worker[v].request.key))'
      <3>1. CASE v = w
        <4>1. worker'[v].request = r /\ r.key \in Sessions
          BY <1>7, <1>8, <2>1, <3>1
        <4>2. QED  BY <1>5, <1>15, <4>1 DEF Completed, CardRequest
      <3>2. CASE v # w
        <4>1. worker'[v] = worker[v]
          BY <1>8, <3>2
        <4>2. Completed(worker[v].request.key) /\ worker[v].request = CardRequest(worker[v].request.key)
          BY <2>1, <4>1 DEF IInv, CardRequestsAreCaptures
        <4>3. QED  BY <1>5, <4>1, <4>2 DEF Completed, CardRequest
      <3>3. QED  BY <3>1, <3>2
    <2>2. ASSUME NEW m \in DOMAIN payments, payments[m].key \in Sessions
          PROVE  paid'[payments[m].invoice] = InvoiceTotals[payments[m].invoice]
      <3>1. paid[payments[m].invoice] = InvoiceTotals[payments[m].invoice]
        BY <2>2 DEF IInv, CardRequestsAreCaptures
      <3>2. QED  BY <1>9, <1>16, <3>1, TotalsAreCents
    <2>3. ASSUME NEW m \in DOMAIN payments', payments'[m].key \in Sessions
          PROVE  (/\ Completed(payments[m].key)
                  /\ payments[m] = CardRequest(payments[m].key)
                  /\ paid[payments[m].invoice] = InvoiceTotals[payments[m].invoice])'
      <3>1. CASE m = n
        BY <1>5, <1>6, <1>15, <2>3, <3>1 DEF Completed, CardRequest, i
      <3>2. CASE m \in DOMAIN payments
        BY <1>5, <1>6, <2>2, <2>3, <3>2 DEF IInv, CardRequestsAreCaptures, Completed, CardRequest
      <3>3. QED  BY <1>6, <3>1, <3>2
    <2>4. QED  BY <2>1, <2>3 DEF CardRequestsAreCaptures
  <1>18. SessionsAskForTheBalance'
    <2>1. ASSUME NEW s \in Sessions, session[s] # NoSession
          PROVE  session[s].amount >= InvoiceTotals[session[s].invoice] - paid'[session[s].invoice]
      <3>1. session[s].invoice \in Invoices /\ session[s].amount \in Nat
        BY <2>1 DEF IInv, TypeOK, Session, Cents
      <3>2. session[s].amount >= InvoiceTotals[session[s].invoice] - paid[session[s].invoice]
        BY <2>1 DEF IInv, SessionsAskForTheBalance, Balance
      <3>3. QED  BY <1>9, <3>1, <3>2, TotalsAreCents
    <2>2. QED  BY <1>5, <2>1 DEF SessionsAskForTheBalance, Balance
  <1>19. OnePaymentPerSession'
    <2>1. ASSUME NEW m \in DOMAIN payments, payments[m].key = r.key, r.key \in Sessions
          PROVE  FALSE
      <3>1. payments[m] = r /\ paid[payments[m].invoice] = InvoiceTotals[payments[m].invoice]
        BY <1>15, <2>1 DEF IInv, CardRequestsAreCaptures
      <3>2. paid[i] = InvoiceTotals[i]
        BY <3>1 DEF i
      <3>3. QED  BY <1>2, <1>3, <1>4, <3>2
    <2>2. QED  BY <1>6, <2>1 DEF IInv, OnePaymentPerSession
  <1>20. SavedResponsesAreTrue'
    BY <1>5, <1>6 DEF IInv, SavedResponsesAreTrue
  <1>21. AcceptedIsRecorded'
    BY <1>5, <1>6 DEF IInv, AcceptedIsRecorded, Recorded
  <1>22. QED
    BY <1>11, <1>12, <1>13, <1>14, <1>17, <1>18, <1>19, <1>20, <1>21 DEF IInv

-----------------------------------------------------------------------------

\* Every step of every request, of Stripe and of the tenant keeps the invariant.
LEMMA NextIInv ==
  ASSUME IInv, [Next]_vars
  PROVE  IInv'
  <1>1. ASSUME NEW w \in Workers, NEW request \in ClientRequests, Post(w, request)
        PROVE  IInv'
    BY <1>1, WorkerMovesKeepIInv
  <1>2. ASSUME NEW w \in Workers,
               Replay(w) \/ LookupMisses(w) \/ LockInvoice(w) \/ Commit(w) \/ SaveKey(w) \/ Fail(w)
        PROVE  IInv'
    BY <1>2, ReplayKeepsIInv, CommitKeepsIInv, SaveKeyKeepsIInv, WorkerMovesKeepIInv
  <1>3. ASSUME NEW value \in BOOLEAN, SetProvider(value)
        PROVE  IInv'
    BY <1>3, SetProviderKeepsIInv
  <1>4. ASSUME NEW i \in Invoices, NEW s \in Sessions, Checkout(i, s)
        PROVE  IInv'
    BY <1>4, CheckoutKeepsIInv
  <1>5. ASSUME NEW s \in Sessions, CustomerPays(s)
        PROVE  IInv'
    BY <1>5, CustomerPaysKeepsIInv
  <1>6. ASSUME NEW w \in Workers, NEW s \in Sessions, Webhook(w, s)
        PROVE  IInv'
    BY <1>6, WorkerMovesKeepIInv
  <1>7. CASE UNCHANGED vars
    BY <1>7 DEF vars, gateway, IInv, TypeOK, NeverOverpaid, LockedRowsAreCurrent, KeyedSteps,
         Serves, Locks, CardRequestsAreCaptures, Completed, CardRequest, SessionsAskForTheBalance,
         Balance, OnePaymentPerSession, SavedResponsesAreTrue, AcceptedIsRecorded, Recorded
  <1>8. QED  BY <1>1, <1>2, <1>3, <1>4, <1>5, <1>6, <1>7 DEF Next

\* The inductive invariant holds of every behaviour, for any number of invoices,
\* sessions and workers.
THEOREM PaymentsInvariant == Spec => []IInv
  <1>1. Init => IInv
    BY InitIInv
  <1>2. IInv /\ [Next]_vars => IInv'
    BY NextIInv
  <1>3. QED  BY <1>1, <1>2, PTL DEF Spec

\* The state of recordPayment, of the keys and of Stripe keeps its types: the
\* amount of a session, in particular, is never zero.
THEOREM PaymentsTypeOK == Spec => []TypeOK
  BY PaymentsInvariant, PTL DEF IInv

\* No invoice is paid beyond its total.
THEOREM InvoicesAreNeverOverpaid == Spec => []NeverOverpaid
  BY PaymentsInvariant, PTL DEF IInv

\* A card payment is recorded once, however often its webhook is delivered and
\* wherever the server stops.
THEOREM WebhooksPayOnce == Spec => []OnePaymentPerSession
  BY PaymentsInvariant, PTL DEF IInv

\* A webhook that Stripe believes delivered has its payment.
THEOREM AcceptedWebhooksAreRecorded == Spec => []AcceptedIsRecorded
  BY PaymentsInvariant, PTL DEF IInv

\* A replayed answer is that of a committed payment with the same key.
THEOREM ReplayedAnswersAreTrue == Spec => []SavedResponsesAreTrue
  BY PaymentsInvariant, PTL DEF IInv

-----------------------------------------------------------------------------
(* The amounts.                                                            *)

Amounts == [n \in DOMAIN payments |-> payments[n].amount]
PaymentsOf(i) == {n \in DOMAIN payments : payments[n].invoice = i}

AmountsAddUp == \A i \in Invoices : paid[i] = SumOn(Amounts, PaymentsOf(i))

\* The sums the invariant speaks of are those of the property.
LEMMA PaidIsTheSum == AmountsAddUp <=> PaidIsTheSumOfPayments
  BY Zenon DEF AmountsAddUp, PaidIsTheSumOfPayments, SumOn, Amounts, PaymentsOf

\* The payments of an invoice are finitely many whole amounts.
LEMMA AmountsAreTyped ==
  ASSUME TypeOK
  PROVE  /\ IsFiniteSet(DOMAIN payments)
         /\ \A n \in DOMAIN payments : Amounts[n] \in Int
  <1>1. payments \in Seq(Request) /\ DOMAIN payments = 1..Len(payments) /\ Len(payments) \in Nat
    BY DEF TypeOK
  <1>2. IsFiniteSet(1..Len(payments))
    BY <1>1, FS_Interval
  <1>3. ASSUME NEW n \in DOMAIN payments
        PROVE  payments[n] \in Request
    BY <1>1, ElementOfSeq
  <1>4. QED  BY <1>1, <1>2, <1>3 DEF Amounts, Request, Cents

\* A commit adds to the invoice what it adds to its payments, because the
\* amount it had read under the lock is still the amount of the row.
LEMMA CommitAddsUp ==
  ASSUME IInv, AmountsAddUp, NEW w \in Workers, Commit(w)
  PROVE  AmountsAddUp'
  <1> DEFINE r == worker[w].request
             n == Len(payments) + 1
  <1>1. r \in Request /\ payments \in Seq(Request) /\ r.invoice \in Invoices /\ r.amount \in Int
    BY WorkersAreTyped DEF IInv, TypeOK, Commit, Serves, Idle, Request, Cents
  <1>2. /\ paid' = [paid EXCEPT ![r.invoice] = paid[r.invoice] + r.amount]
        /\ payments' = Append(payments, r)
    BY DEF IInv, LockedRowsAreCurrent, Commit
  <1>3. /\ n \notin DOMAIN payments
        /\ DOMAIN payments' = DOMAIN payments \cup {n}
        /\ payments'[n] = r
        /\ \A m \in DOMAIN payments : payments'[m] = payments[m]
    BY <1>1, <1>2
  <1> HIDE DEF r, n
  <1>4. IsFiniteSet(DOMAIN payments) /\ \A m \in DOMAIN payments : Amounts[m] \in Int
    BY AmountsAreTyped DEF IInv
  <1>5. Amounts'[n] = r.amount /\ \A m \in DOMAIN payments : Amounts'[m] = Amounts[m]
    BY <1>3 DEF Amounts
  <1>6. ASSUME NEW i \in Invoices
        PROVE  paid'[i] = SumOn(Amounts', PaymentsOf(i)')
    <2>1. IsFiniteSet(PaymentsOf(i)) /\ PaymentsOf(i) \subseteq DOMAIN payments
      BY <1>4, FS_Subset DEF PaymentsOf
    <2>2. paid[i] = SumOn(Amounts, PaymentsOf(i)) /\ paid[i] \in Int
      BY DEF AmountsAddUp, IInv, TypeOK
    <2>3. SumOn(Amounts', PaymentsOf(i)) = SumOn(Amounts, PaymentsOf(i))
      BY <1>5, <2>1, SumAgree
    <2>4. CASE i = r.invoice
      <3>1. PaymentsOf(i)' = PaymentsOf(i) \cup {n} /\ n \notin PaymentsOf(i)
        BY <1>3, <2>4 DEF PaymentsOf
      <3>2. SumOn(Amounts', PaymentsOf(i) \cup {n}) = r.amount + SumOn(Amounts', PaymentsOf(i))
        BY <1>1, <1>4, <1>5, <2>1, <3>1, SumAdd
      <3>3. paid'[i] = paid[i] + r.amount
        BY <1>1, <1>2, <2>4 DEF IInv, TypeOK
      <3>4. QED  BY <1>1, <2>2, <2>3, <3>1, <3>2, <3>3
    <2>5. CASE i # r.invoice
      <3>1. PaymentsOf(i)' = PaymentsOf(i)
        BY <1>3, <2>5 DEF PaymentsOf
      <3>2. paid'[i] = paid[i]
        BY <1>1, <1>2, <2>5 DEF IInv, TypeOK
      <3>3. QED  BY <2>2, <2>3, <3>1, <3>2
    <2>6. QED  BY <2>4, <2>5
  <1>7. QED  BY <1>6 DEF AmountsAddUp

\* The paid amount of every invoice is the sum of its payments, for any number
\* of requests, webhooks and invoices: no overlapping request loses another's
\* payment (recordPayment, InvoicesService).
THEOREM PaidAmountsAddUp == Spec => []PaidIsTheSumOfPayments
  <1>1. Init => AmountsAddUp
    <2> SUFFICES ASSUME Init, NEW i \in Invoices
                 PROVE  paid[i] = SumOn(Amounts, PaymentsOf(i))
      BY DEF AmountsAddUp
    <2>1. PaymentsOf(i) = {} /\ paid[i] = 0
      BY DEF Init, PaymentsOf
    <2>2. QED  BY <2>1, SumEmpty
  <1>2. IInv /\ AmountsAddUp /\ [Next]_vars => AmountsAddUp'
    <2>1. ASSUME IInv, AmountsAddUp, NEW w \in Workers, Commit(w)
          PROVE  AmountsAddUp'
      BY <2>1, CommitAddsUp
    <2>2. ASSUME AmountsAddUp, UNCHANGED <<paid, payments>>
          PROVE  AmountsAddUp'
      <3>1. Amounts' = Amounts /\ \A i \in Invoices : PaymentsOf(i)' = PaymentsOf(i)
        BY <2>2 DEF Amounts, PaymentsOf
      <3>2. QED  BY <2>2, <3>1 DEF AmountsAddUp
    <2>3. [Next]_vars => UNCHANGED <<paid, payments>> \/ \E w \in Workers : Commit(w)
      BY DEF Next, vars, Post, Replay, LookupMisses, LockInvoice, SaveKey, Fail, SetProvider,
             Checkout, CustomerPays, Webhook
    <2>4. QED  BY <2>1, <2>2, <2>3
  <1>3. QED  BY <1>1, <1>2, PaymentsInvariant, PaidIsTheSum, PTL DEF Spec

-----------------------------------------------------------------------------
(* The outbox.  Dispatchers overwrite each other's rows, so nothing can be *)
(* said of the row alone: the invariant is that every copy under way is one*)
(* that may be kept, whatever the row says by then.                       *)

\* What may stand in the row of event e, after n errors and, if done, a delivery.
GoodRow(r, n, done) ==
  /\ r.attempts <= n
  /\ r.status = "pending" => r.attempts < MaxAttempts
  /\ r.status = "dispatched" => done
  /\ r.status = "failed" => r.attempts = MaxAttempts

\* What a dispatcher may hold of an event before it has met an error.
GoodCopy(copy, n, done) ==
  /\ copy.status \in {"pending", "dispatched"}
  /\ copy.attempts < MaxAttempts
  /\ copy.attempts <= n
  /\ copy.status = "dispatched" => done

GoodBatch(batch, ns, ok) == \A e \in DOMAIN batch : GoodCopy(batch[e], ns[e], e \in ok)

GoodDispatcher(state, ns, ok) ==
  /\ state.phase \in {"ready", "handled", "error"} => GoodBatch(state.batch, ns, ok)
  /\ state.phase \in {"handled", "error"} =>
       GoodCopy(state.copy, ns[state.event], state.event \in ok)
  /\ state.phase = "handled" => state.event \in ok
  /\ state.phase = "error" => state.copy.attempts < ns[state.event]

RowsAreGood == \A e \in Events : row[e] # Absent => GoodRow(row[e], errors[e], e \in delivered)
CopiesAreGood == \A d \in Dispatchers : GoodDispatcher(dispatcher[d], errors, delivered)

OutboxIInv == OutboxTypeOK /\ RowsAreGood /\ CopiesAreGood

-----------------------------------------------------------------------------

\* What the phase of a dispatcher says of its type.
LEMMA PhaseTypes ==
  ASSUME OutboxTypeOK, NEW d \in Dispatchers
  PROVE  /\ dispatcher[d].phase = "ready" => dispatcher[d] \in Ready
         /\ dispatcher[d].phase \in {"handled", "error"} => dispatcher[d] \in Busy
         /\ dispatcher[d].phase \in {"resting", "ready", "handled", "error"}
         /\ dispatcher[d].phase = "resting" => dispatcher[d] = Resting
  BY DEF OutboxTypeOK, Ready, Busy, Resting

\* A batch holds a copy of a row for each of its events.
LEMMA BatchTypes ==
  ASSUME NEW batch \in Batch
  PROVE  /\ DOMAIN batch \subseteq Events
         /\ \A e \in DOMAIN batch : batch[e] \in Row
         /\ \A e : Rest(batch, e) \in Batch
  <1>1. PICK S \in SUBSET Events : batch \in [S -> Row]
    BY DEF Batch
  <1>2. ASSUME NEW e
        PROVE  Rest(batch, e) \in [S \ {e} -> Row]
    BY <1>1 DEF Rest
  <1>3. ASSUME NEW e
        PROVE  Rest(batch, e) \in Batch
    BY <1>2, S \ {e} \in SUBSET Events DEF Batch
  <1>4. QED  BY <1>1, <1>3

\* Errors are only added and deliveries only recorded, so what was good stays so.
LEMMA GoodStaysGood ==
  ASSUME NEW ns \in [Events -> 0..MaxAttempts], NEW ms \in [Events -> 0..MaxAttempts],
         NEW ok \in SUBSET Events, NEW all \in SUBSET Events,
         ok \subseteq all, \A e \in Events : ns[e] <= ms[e]
  PROVE  /\ \A e \in Events, r \in Row :
              GoodRow(r, ns[e], e \in ok) => GoodRow(r, ms[e], e \in all)
         /\ \A state \in Ready \cup Busy \cup {Resting} :
              GoodDispatcher(state, ns, ok) => GoodDispatcher(state, ms, all)
  <1>0. /\ \A e \in Events : ns[e] \in Int /\ ms[e] \in Int
        /\ \A r \in Row : r.attempts \in Int
        /\ MaxAttempts \in Int
    BY OutboxAssumption DEF Row
  <1>1. ASSUME NEW e \in Events, NEW r \in Row
        PROVE  /\ GoodRow(r, ns[e], e \in ok) => GoodRow(r, ms[e], e \in all)
               /\ GoodCopy(r, ns[e], e \in ok) => GoodCopy(r, ms[e], e \in all)
    BY <1>0 DEF GoodRow, GoodCopy
  <1>2. ASSUME NEW batch \in Batch, GoodBatch(batch, ns, ok)
        PROVE  GoodBatch(batch, ms, all)
    BY <1>1, <1>2, BatchTypes DEF GoodBatch
  <1>3. ASSUME NEW state \in Ready \cup Busy \cup {Resting}, GoodDispatcher(state, ns, ok)
        PROVE  GoodDispatcher(state, ms, all)
    <2>1. CASE state \in Ready
      BY <1>2, <1>3, <2>1 DEF Ready, GoodDispatcher
    <2>2. CASE state \in Busy
      <3>1. state.event \in Events /\ state.copy \in Row /\ state.batch \in Batch
            /\ state.phase \in {"handled", "error"}
        BY <2>2 DEF Busy
      <3>2. QED  BY <1>0, <1>1, <1>2, <1>3, <3>1 DEF GoodDispatcher
    <2>3. CASE state = Resting
      BY <2>3 DEF Resting, GoodDispatcher
    <2>4. QED  BY <1>3, <2>1, <2>2, <2>3
  <1>4. QED  BY <1>1, <1>3

\* A step that puts a good state in a dispatcher and good rows in the table keeps
\* the invariant.
LEMMA StepKeepsIInv ==
  ASSUME OutboxIInv, NEW d \in Dispatchers, NEW state \in Ready \cup Busy \cup {Resting},
         SetDispatcher(d, state), GoodDispatcher(state, errors', delivered'),
         row' \in [Events -> Row \cup {Absent}], delivered' \subseteq Events,
         errors' \in [Events -> 0..MaxAttempts], delivered \subseteq delivered',
         \A e \in Events : errors[e] <= errors'[e],
         \A e \in Events : row'[e] # row[e] => GoodRow(row'[e], errors'[e], e \in delivered')
  PROVE  OutboxIInv'
  <1> errors \in [Events -> 0..MaxAttempts] /\ delivered \in SUBSET Events
      /\ delivered' \in SUBSET Events
    BY DEF OutboxIInv, OutboxTypeOK
  <1>1. OutboxTypeOK'
    BY DEF OutboxIInv, OutboxTypeOK, SetDispatcher
  <1>2. RowsAreGood'
    <2>1. ASSUME NEW e \in Events, row'[e] # Absent
          PROVE  GoodRow(row'[e], errors'[e], e \in delivered')
      <3>1. CASE row'[e] = row[e]
        <4>1. row[e] \in Row /\ GoodRow(row[e], errors[e], e \in delivered)
          BY <2>1, <3>1 DEF OutboxIInv, OutboxTypeOK, RowsAreGood
        <4>2. QED  BY <3>1, <4>1, GoodStaysGood
      <3>2. CASE row'[e] # row[e]
        BY <3>2
      <3>3. QED  BY <3>1, <3>2
    <2>2. QED  BY <2>1 DEF RowsAreGood
  <1>3. CopiesAreGood'
    <2>1. ASSUME NEW c \in Dispatchers
          PROVE  GoodDispatcher(dispatcher'[c], errors', delivered')
      <3>1. CASE c = d
        BY <3>1 DEF OutboxIInv, OutboxTypeOK, SetDispatcher
      <3>2. CASE c # d
        <4>1. dispatcher'[c] = dispatcher[c] /\ dispatcher[c] \in Ready \cup Busy \cup {Resting}
              /\ GoodDispatcher(dispatcher[c], errors, delivered)
          BY <3>2 DEF OutboxIInv, OutboxTypeOK, SetDispatcher, CopiesAreGood
        <4>2. QED  BY <4>1, GoodStaysGood
      <3>3. QED  BY <3>1, <3>2
    <2>2. QED  BY <2>1 DEF CopiesAreGood
  <1>4. QED  BY <1>1, <1>2, <1>3 DEF OutboxIInv

-----------------------------------------------------------------------------

\* What goes on with the rest of a batch.
LEMMA GoingOnIsGood ==
  ASSUME NEW batch \in Batch, NEW ns, NEW ok, GoodBatch(batch, ns, ok)
  PROVE  LET state == IF DOMAIN batch = {} THEN Resting
                      ELSE [phase |-> "ready", batch |-> batch]
         IN  state \in Ready \cup Busy \cup {Resting} /\ GoodDispatcher(state, ns, ok)
  <1>1. CASE DOMAIN batch = {}
    BY <1>1 DEF Resting, GoodDispatcher
  <1>2. CASE DOMAIN batch # {}
    BY <1>2 DEF Ready, GoodDispatcher
  <1>3. QED  BY <1>1, <1>2

\* An emitted event has had no error.
LEMMA EmitKeepsIInv ==
  ASSUME OutboxIInv, NEW e \in Events, Emit(e)
  PROVE  OutboxIInv'
  <1> DEFINE new == [status |-> "pending", attempts |-> 0]
  <1>1. new \in Row /\ 0 < MaxAttempts
    BY OutboxAssumption DEF Row, Statuses
  <1>2. errors[e] \in Nat
    BY OutboxAssumption DEF OutboxIInv, OutboxTypeOK
  <1>3. GoodRow(new, errors[e], e \in delivered)
    BY <1>1, <1>2 DEF GoodRow
  <1>4. row' = [row EXCEPT ![e] = new] /\ UNCHANGED <<dispatcher, delivered, errors>>
    BY DEF Emit, history
  <1> HIDE DEF new
  <1>5. OutboxTypeOK'
    BY <1>1, <1>4 DEF OutboxIInv, OutboxTypeOK
  <1>6. RowsAreGood' /\ CopiesAreGood'
    BY <1>3, <1>4 DEF OutboxIInv, OutboxTypeOK, RowsAreGood, CopiesAreGood
  <1>7. QED  BY <1>5, <1>6 DEF OutboxIInv

\* What is read from a good pending row is a good copy.
LEMMA TickKeepsIInv ==
  ASSUME OutboxIInv, NEW d \in Dispatchers, Tick(d)
  PROVE  OutboxIInv'
  <1>1. PICK batch \in SUBSET Events :
          /\ IsFirstBatch(batch)
          /\ SetDispatcher(d, [phase |-> "ready", batch |-> [e \in batch |-> row[e]]])
    BY DEF Tick
  <1> DEFINE copies == [e \in batch |-> row[e]]
             state == [phase |-> "ready", batch |-> copies]
  <1>2. ASSUME NEW e \in batch
        PROVE  row[e] \in Row /\ GoodCopy(row[e], errors[e], e \in delivered)
    <2>1. row[e].status = "pending" /\ e \in Events
      BY <1>1 DEF IsFirstBatch, Pending
    <2>2. row[e] # Absent
      BY <2>1 DEF Absent
    <2>3. row[e] \in Row /\ GoodRow(row[e], errors[e], e \in delivered)
      BY <2>1, <2>2 DEF OutboxIInv, OutboxTypeOK, RowsAreGood
    <2>4. QED  BY <2>1, <2>3 DEF GoodRow, GoodCopy
  <1>3. copies \in Batch /\ GoodBatch(copies, errors, delivered)
    <2>1. copies \in [batch -> Row]
      BY <1>2
    <2>2. QED  BY <1>2, <2>1 DEF Batch, GoodBatch
  <1>4. state \in Ready /\ GoodDispatcher(state, errors, delivered)
    BY <1>3 DEF Ready, GoodDispatcher
  <1>5. UNCHANGED <<row, delivered, errors>>
    BY DEF Tick, history
  <1>6. \A e \in Events : errors[e] <= errors[e]
    BY OutboxAssumption DEF OutboxIInv, OutboxTypeOK
  <1> HIDE DEF state
  <1>7. SetDispatcher(d, state)
    BY <1>1 DEF state
  <1>8. QED  BY <1>4, <1>5, <1>6, <1>7, StepKeepsIInv DEF OutboxIInv, OutboxTypeOK

\* What a dispatcher takes from its batch.
LEMMA HandledCopies ==
  ASSUME OutboxIInv, NEW d \in Dispatchers, NEW e \in Events, NEW outcome \in {"handled", "error"},
         Handle(d, e, outcome)
  PROVE  \E state \in Busy :
           /\ SetDispatcher(d, state) /\ UNCHANGED row
           /\ state.phase = outcome /\ state.event = e
           /\ GoodBatch(state.batch, errors, delivered)
           /\ GoodCopy(state.copy, errors[e], e \in delivered)
  <1> DEFINE batch == dispatcher[d].batch
             state == [phase |-> outcome, event |-> e, copy |-> batch[e], batch |-> Rest(batch, e)]
  <1>1. batch \in Batch /\ GoodBatch(batch, errors, delivered) /\ e \in DOMAIN batch
    BY PhaseTypes DEF OutboxIInv, CopiesAreGood, GoodDispatcher, Handle, Ready
  <1>2. batch[e] \in Row /\ Rest(batch, e) \in Batch
    BY <1>1, BatchTypes
  <1>3. GoodBatch(Rest(batch, e), errors, delivered) /\ GoodCopy(batch[e], errors[e], e \in delivered)
    BY <1>1 DEF GoodBatch, Rest
  <1>4. state \in Busy
    BY <1>2 DEF Busy
  <1>5. SetDispatcher(d, state) /\ UNCHANGED row
    BY DEF Handle
  <1>6. QED  BY <1>3, <1>4, <1>5

\* Counting an error never lowers a count and never passes the limit.
LEMMA ErrorsAreCounted ==
  ASSUME OutboxTypeOK, NEW e \in Events, CountError(e)
  PROVE  /\ errors' \in [Events -> 0..MaxAttempts]
         /\ \A f \in Events : errors[f] <= errors'[f]
         /\ \A n \in Int : n < MaxAttempts /\ n <= errors[e] => n < errors'[e]
  BY OutboxAssumption DEF OutboxTypeOK, CountError

\* A good batch or copy stays one when errors are added and deliveries recorded.
LEMMA GoodPartsStayGood ==
  ASSUME NEW ns \in [Events -> 0..MaxAttempts], NEW ms \in [Events -> 0..MaxAttempts],
         NEW ok \in SUBSET Events, NEW all \in SUBSET Events,
         ok \subseteq all, \A e \in Events : ns[e] <= ms[e],
         NEW batch \in Batch, GoodBatch(batch, ns, ok),
         NEW e \in Events, NEW copy \in Row, GoodCopy(copy, ns[e], e \in ok)
  PROVE  GoodBatch(batch, ms, all) /\ GoodCopy(copy, ms[e], e \in all)
  <1>1. \A f \in Events : ns[f] \in Int /\ ms[f] \in Int
    BY OutboxAssumption
  <1>2. \A r \in Row : r.attempts \in Int
    BY OutboxAssumption DEF Row
  <1>3. GoodCopy(copy, ms[e], e \in all)
    BY <1>1, <1>2 DEF GoodCopy
  <1>4. ASSUME NEW f \in DOMAIN batch
        PROVE  GoodCopy(batch[f], ms[f], f \in all)
    <2>1. f \in Events /\ batch[f] \in Row /\ GoodCopy(batch[f], ns[f], f \in ok)
      BY BatchTypes DEF GoodBatch
    <2>2. QED  BY <1>1, <1>2, <2>1 DEF GoodCopy
  <1>5. QED  BY <1>3, <1>4 DEF GoodBatch

\* A consumer that throws adds an error to what the copy knows of.
LEMMA HandleFailsKeepsIInv ==
  ASSUME OutboxIInv, NEW d \in Dispatchers, NEW e \in Events, HandleFails(d, e)
  PROVE  OutboxIInv'
  <1>1. PICK state \in Busy :
          /\ SetDispatcher(d, state) /\ UNCHANGED row
          /\ state.phase = "error" /\ state.event = e
          /\ GoodBatch(state.batch, errors, delivered)
          /\ GoodCopy(state.copy, errors[e], e \in delivered)
    BY HandledCopies DEF HandleFails
  <1>2. state.batch \in Batch /\ state.copy \in Row /\ state.copy.attempts \in Int
    BY OutboxAssumption DEF Busy, Row
  <1>3. /\ errors' \in [Events -> 0..MaxAttempts] /\ \A f \in Events : errors[f] <= errors'[f]
        /\ \A n \in Int : n < MaxAttempts /\ n <= errors[e] => n < errors'[e]
        /\ delivered' = delivered
    BY ErrorsAreCounted DEF HandleFails, OutboxIInv
  <1>4. errors \in [Events -> 0..MaxAttempts] /\ delivered \in SUBSET Events
        /\ row \in [Events -> Row \cup {Absent}]
    BY DEF OutboxIInv, OutboxTypeOK
  <1>5. GoodBatch(state.batch, errors', delivered') /\ GoodCopy(state.copy, errors'[e], e \in delivered')
    BY <1>1, <1>2, <1>3, <1>4, GoodPartsStayGood
  <1>6. GoodDispatcher(state, errors', delivered')
    BY <1>1, <1>2, <1>3, <1>5 DEF GoodDispatcher, GoodCopy
  <1>7. QED  BY <1>1, <1>3, <1>4, <1>6, StepKeepsIInv

\* A handled event is recorded before it is marked.
LEMMA HandleWorksKeepsIInv ==
  ASSUME OutboxIInv, NEW d \in Dispatchers, NEW e \in Events, HandleWorks(d, e)
  PROVE  OutboxIInv'
  <1>1. PICK state \in Busy :
          /\ SetDispatcher(d, state) /\ UNCHANGED row
          /\ state.phase = "handled" /\ state.event = e
          /\ GoodBatch(state.batch, errors, delivered)
          /\ GoodCopy(state.copy, errors[e], e \in delivered)
    BY HandledCopies DEF HandleWorks
  <1>2. state.batch \in Batch /\ state.copy \in Row
    BY DEF Busy
  <1>3. errors' = errors /\ delivered' = delivered \cup {e}
    BY DEF HandleWorks
  <1>4. /\ errors \in [Events -> 0..MaxAttempts] /\ delivered \in SUBSET Events
        /\ row \in [Events -> Row \cup {Absent}]
        /\ \A f \in Events : errors[f] <= errors'[f]
    BY <1>3, OutboxAssumption DEF OutboxIInv, OutboxTypeOK
  <1>5. delivered' \in SUBSET Events /\ delivered \subseteq delivered'
        /\ errors' \in [Events -> 0..MaxAttempts]
    BY <1>3, <1>4
  <1>6. GoodBatch(state.batch, errors', delivered') /\ GoodCopy(state.copy, errors'[e], e \in delivered')
    BY <1>1, <1>2, <1>4, <1>5, GoodPartsStayGood
  <1>7. GoodDispatcher(state, errors', delivered')
    BY <1>1, <1>3, <1>6 DEF GoodDispatcher
  <1>8. QED  BY <1>1, <1>4, <1>5, <1>7, StepKeepsIInv

\* What is saved as dispatched has been handled, whatever the copy's attempts say.
LEMMA MarkDispatchedKeepsIInv ==
  ASSUME OutboxIInv, NEW d \in Dispatchers, MarkDispatched(d)
  PROVE  OutboxIInv'
  <1> DEFINE e == dispatcher[d].event
             copy == dispatcher[d].copy
             batch == dispatcher[d].batch
             kept == [copy EXCEPT !.status = "dispatched"]
             state == IF DOMAIN batch = {} THEN Resting
                      ELSE [phase |-> "ready", batch |-> batch]
  <1>1. dispatcher[d].phase = "handled" /\ e \in Events /\ copy \in Row /\ batch \in Batch
    BY PhaseTypes DEF OutboxIInv, MarkDispatched, Busy
  <1>2. e \in delivered /\ GoodBatch(batch, errors, delivered) /\ GoodCopy(copy, errors[e], e \in delivered)
    BY <1>1 DEF OutboxIInv, CopiesAreGood, GoodDispatcher
  <1>3. kept \in Row /\ GoodRow(kept, errors[e], e \in delivered)
    BY <1>1, <1>2 DEF Row, Statuses, GoodRow, GoodCopy
  <1>4. state \in Ready \cup Busy \cup {Resting} /\ GoodDispatcher(state, errors, delivered)
    BY <1>1, <1>2, GoingOnIsGood
  <1>5. row' = [row EXCEPT ![e] = kept] /\ SetDispatcher(d, state) /\ UNCHANGED <<delivered, errors>>
    BY DEF MarkDispatched, GoOn, history
  <1>6. \A f \in Events : errors[f] <= errors'[f]
    BY <1>5, OutboxAssumption DEF OutboxIInv, OutboxTypeOK
  <1> HIDE DEF kept, state, e
  <1>7. row' \in [Events -> Row \cup {Absent}]
    BY <1>1, <1>3, <1>5 DEF OutboxIInv, OutboxTypeOK
  <1>8. \A f \in Events : row'[f] # row[f] => GoodRow(row'[f], errors'[f], f \in delivered')
    BY <1>1, <1>3, <1>5 DEF OutboxIInv, OutboxTypeOK
  <1>9. QED  BY <1>4, <1>5, <1>6, <1>7, <1>8, StepKeepsIInv DEF OutboxIInv, OutboxTypeOK

\* A mark that fails leaves a copy that says dispatched, of a handled event.
LEMMA MarkDispatchedFailsKeepsIInv ==
  ASSUME OutboxIInv, NEW d \in Dispatchers, MarkDispatchedFails(d)
  PROVE  OutboxIInv'
  <1> DEFINE old == dispatcher[d]
             e == old.event
             state == [old EXCEPT !.phase = "error", !.copy.status = "dispatched"]
  <1>1. old \in Busy /\ old.phase = "handled"
    BY PhaseTypes DEF OutboxIInv, MarkDispatchedFails
  <1>2. e \in Events /\ old.copy \in Row /\ old.batch \in Batch /\ old.copy.attempts \in Int
    BY <1>1, OutboxAssumption DEF Busy, Row
  <1>3. e \in delivered /\ GoodBatch(old.batch, errors, delivered)
        /\ GoodCopy(old.copy, errors[e], e \in delivered)
    BY <1>1 DEF OutboxIInv, CopiesAreGood, GoodDispatcher
  <1>4. /\ state \in Busy /\ state.phase = "error" /\ state.event = e /\ state.batch = old.batch
        /\ state.copy = [old.copy EXCEPT !.status = "dispatched"]
    <2>1. [old.copy EXCEPT !.status = "dispatched"] \in Row
      BY <1>2 DEF Row, Statuses
    <2>2. QED  BY <1>1, <2>1 DEF Busy
  <1>5. state.copy \in Row /\ state.copy.attempts = old.copy.attempts /\ state.copy.status = "dispatched"
    BY <1>2, <1>4 DEF Row, Statuses
  <1>6. SetDispatcher(d, state) /\ CountError(e) /\ UNCHANGED <<row, delivered>>
    BY DEF MarkDispatchedFails
  <1> HIDE DEF state
  <1>7. /\ errors' \in [Events -> 0..MaxAttempts] /\ \A f \in Events : errors[f] <= errors'[f]
        /\ \A n \in Int : n < MaxAttempts /\ n <= errors[e] => n < errors'[e]
    BY <1>2, <1>6, ErrorsAreCounted DEF OutboxIInv
  <1>8. GoodCopy(state.copy, errors[e], e \in delivered)
    BY <1>3, <1>5 DEF GoodCopy
  <1>9. errors \in [Events -> 0..MaxAttempts] /\ delivered \in SUBSET Events
        /\ row \in [Events -> Row \cup {Absent}]
    BY DEF OutboxIInv, OutboxTypeOK
  <1>10. GoodBatch(state.batch, errors', delivered') /\ GoodCopy(state.copy, errors'[e], e \in delivered')
    <2>1. GoodBatch(state.batch, errors, delivered) /\ state.batch \in Batch
      BY <1>2, <1>3, <1>4
    <2>2. QED  BY <1>2, <1>5, <1>6, <1>7, <1>8, <1>9, <2>1, GoodPartsStayGood
  <1>11. GoodDispatcher(state, errors', delivered')
    <2>1. state.copy.attempts < errors'[e]
      BY <1>2, <1>5, <1>7, <1>8 DEF GoodCopy
    <2>2. QED  BY <1>4, <1>10, <2>1 DEF GoodDispatcher
  <1>12. QED  BY <1>4, <1>6, <1>7, <1>9, <1>11, StepKeepsIInv

\* The attempts saved are no more than the errors met, and the last of them gives
\* the event up.
LEMMA MarkFailedKeepsIInv ==
  ASSUME OutboxIInv, NEW d \in Dispatchers, MarkFailed(d)
  PROVE  OutboxIInv'
  <1> DEFINE e == dispatcher[d].event
             copy == dispatcher[d].copy
             batch == dispatcher[d].batch
             state == IF DOMAIN batch = {} THEN Resting
                      ELSE [phase |-> "ready", batch |-> batch]
  <1>1. dispatcher[d].phase = "error" /\ e \in Events /\ copy \in Row /\ batch \in Batch
    BY PhaseTypes DEF OutboxIInv, MarkFailed, Busy
  <1>2. /\ GoodBatch(batch, errors, delivered) /\ GoodCopy(copy, errors[e], e \in delivered)
        /\ copy.attempts < errors[e]
    BY <1>1 DEF OutboxIInv, CopiesAreGood, GoodDispatcher
  <1>3. copy.attempts \in Nat /\ errors[e] \in Nat /\ MaxAttempts \in Nat
    BY <1>1, OutboxAssumption DEF OutboxIInv, OutboxTypeOK, Row
  <1>4. Failed(copy) \in Row /\ GoodRow(Failed(copy), errors[e], e \in delivered)
    BY <1>2, <1>3 DEF Failed, Row, Statuses, GoodRow, GoodCopy
  <1>5. state \in Ready \cup Busy \cup {Resting} /\ GoodDispatcher(state, errors, delivered)
    BY <1>1, <1>2, GoingOnIsGood
  <1>6. row' = [row EXCEPT ![e] = Failed(copy)] /\ SetDispatcher(d, state) /\ UNCHANGED <<delivered, errors>>
    BY DEF MarkFailed, GoOn, history
  <1>7. \A f \in Events : errors[f] <= errors'[f]
    BY <1>6, OutboxAssumption DEF OutboxIInv, OutboxTypeOK
  <1> HIDE DEF copy, state, e
  <1>8. row' \in [Events -> Row \cup {Absent}]
    BY <1>1, <1>4, <1>6 DEF OutboxIInv, OutboxTypeOK
  <1>9. \A f \in Events : row'[f] # row[f] => GoodRow(row'[f], errors'[f], f \in delivered')
    BY <1>1, <1>4, <1>6 DEF OutboxIInv, OutboxTypeOK
  <1>10. QED  BY <1>5, <1>6, <1>7, <1>8, <1>9, StepKeepsIInv DEF OutboxIInv, OutboxTypeOK

\* A tick that ends leaves nothing behind.
LEMMA AbortKeepsIInv ==
  ASSUME OutboxIInv, NEW d \in Dispatchers, Abort(d)
  PROVE  OutboxIInv'
  <1>1. GoodDispatcher(Resting, errors, delivered)
    BY DEF Resting, GoodDispatcher
  <1>2. SetDispatcher(d, Resting) /\ UNCHANGED <<row, delivered, errors>>
    BY DEF Abort, history
  <1>3. \A f \in Events : errors[f] <= errors[f]
    BY OutboxAssumption DEF OutboxIInv, OutboxTypeOK
  <1>4. QED  BY <1>1, <1>2, <1>3, StepKeepsIInv DEF OutboxIInv, OutboxTypeOK

-----------------------------------------------------------------------------

\* Before the first event there is nothing to go wrong.
LEMMA OutboxInitIInv == OutboxInit => OutboxIInv
  <1> SUFFICES ASSUME OutboxInit PROVE OutboxIInv
    OBVIOUS
  <1>1. OutboxTypeOK
    BY OutboxAssumption DEF OutboxInit, OutboxTypeOK
  <1>2. RowsAreGood
    BY DEF OutboxInit, RowsAreGood
  <1>3. GoodDispatcher(Resting, errors, delivered)
    BY DEF Resting, GoodDispatcher
  <1>4. CopiesAreGood
    BY <1>3 DEF OutboxInit, CopiesAreGood
  <1>5. QED  BY <1>1, <1>2, <1>4 DEF OutboxIInv

\* Every step of every dispatcher keeps the invariant.
LEMMA OutboxNextIInv ==
  ASSUME OutboxIInv, [OutboxNext]_outboxVars
  PROVE  OutboxIInv'
  <1>1. ASSUME NEW e \in Events, Emit(e)
        PROVE  OutboxIInv'
    BY <1>1, EmitKeepsIInv
  <1>2. ASSUME NEW d \in Dispatchers,
               Tick(d) \/ MarkDispatched(d) \/ MarkDispatchedFails(d) \/ MarkFailed(d) \/ Abort(d)
        PROVE  OutboxIInv'
    BY <1>2, TickKeepsIInv, MarkDispatchedKeepsIInv, MarkDispatchedFailsKeepsIInv,
       MarkFailedKeepsIInv, AbortKeepsIInv
  <1>3. ASSUME NEW d \in Dispatchers, NEW e \in Events, HandleFails(d, e) \/ HandleWorks(d, e)
        PROVE  OutboxIInv'
    BY <1>3, HandleFailsKeepsIInv, HandleWorksKeepsIInv
  <1>4. CASE UNCHANGED outboxVars
    BY <1>4 DEF outboxVars, OutboxIInv, OutboxTypeOK, RowsAreGood, CopiesAreGood
  <1>5. QED  BY <1>1, <1>2, <1>3, <1>4 DEF OutboxNext

\* The inductive invariant holds of every behaviour, for any number of events,
\* attempts and dispatchers.
THEOREM OutboxInvariant == OutboxSpec => []OutboxIInv
  <1>1. OutboxInit => OutboxIInv
    BY OutboxInitIInv
  <1>2. OutboxIInv /\ [OutboxNext]_outboxVars => OutboxIInv'
    BY OutboxNextIInv
  <1>3. QED  BY <1>1, <1>2, PTL DEF OutboxSpec

\* The attempts of a row and of the copies stay within the limit of markFailed.
THEOREM EventsKeepTheirTypes == OutboxSpec => []OutboxTypeOK
  BY OutboxInvariant, PTL DEF OutboxIInv

\* What markDispatched has written was handled by every consumer.
THEOREM DispatchedEventsWereDelivered == OutboxSpec => []DispatchedWasDelivered
  <1>1. OutboxIInv => DispatchedWasDelivered
    BY DEF OutboxIInv, RowsAreGood, GoodRow, DispatchedWasDelivered, Absent
  <1>2. QED  BY <1>1, OutboxInvariant, PTL

\* markFailed gives up no event before the limit of errors.
THEOREM GivenUpEventsWereTried == OutboxSpec => []GivenUpWasTried
  <1>1. ASSUME OutboxIInv, NEW e \in Events, row[e].status = "failed"
        PROVE  errors[e] = MaxAttempts
    <2>1. row[e] # Absent /\ errors[e] \in 0..MaxAttempts /\ MaxAttempts \in Nat
      BY <1>1, OutboxAssumption DEF OutboxIInv, OutboxTypeOK, Absent
    <2>2. QED  BY <1>1, <2>1 DEF OutboxIInv, RowsAreGood, GoodRow
  <1>2. OutboxIInv => GivenUpWasTried
    BY <1>1 DEF GivenUpWasTried
  <1>3. QED  BY <1>2, OutboxInvariant, PTL


-----------------------------------------------------------------------------
(* Revaluations.                                                           *)
(*                                                                         *)
(* A run is good as long as what it has read and decided holds of the      *)
(* entries: they can change under it, but then its end races with another  *)
(* for the document.  The parts of the invariant are about a run, books,   *)
(* entries and raced documents that they are given, so that a lemma can    *)
(* compare those before and after a step.                                  *)

\* A document and the balance that a revaluation read.
Listed == [doc : Documents, balance : Nat]

Revaluing ==
  [phase : {"list", "next", "prior", "post"}, rate : Rates, kind : {ForeignInvoices, Bills},
   doc : Listed \cup {NoRow}, todo : SUBSET Listed, read : SUBSET Listed,
   holdsSeries : BOOLEAN, reversed : SUBSET (Nat \ {0}), posted : Seq(Entry)]

Reversing ==
  [phase : {"reverse"}, entry : Nat \ {0}, holdsSeries : {FALSE}, read : SUBSET Listed]

\* Requests that hold a bill.
ToIssue == [phase : {"issue"}, doc : Bills]

IssuingBill == [phase : {"issuing"}, doc : Bills, rate : Rates, loaded : Book]

PayingBill == [phase : {"pay"}, doc : Bills, amount : PaidAmounts, copy : Book]

RevaluationsTypeOK ==
  /\ book \in [Documents -> Book]
  /\ account \in [Documents -> Int]
  /\ entries \in Seq(Entry)
  /\ run \in [Requests -> {NoRun} \cup Revaluing \cup Reversing]
  /\ saving \in [Requests -> {NoSaving} \cup ToIssue \cup IssuingBill \cup PayingBill]
  /\ raced \in SUBSET Documents
  /\ valued \in [Documents -> Rates \cup {None}]

\* The adjustments of a document that are in force, and what they add up to.
AdjustmentsIn(es) == [n \in DOMAIN es |-> es[n].amount]

InForce(es, d) == {n \in DOMAIN es : es[n].doc = d /\ es[n].reversals = 0}

AdjustedBy(es, d) == SumOn(AdjustmentsIn(es), InForce(es, d))

Issued(bk, d) == bk[d].rate # None

BookedIn(bk, line) == Converted(line.balance, bk[line.doc].rate)

TargetOf(state, line) == Converted(line.balance, state.rate)

NewOf(state, d) == {n \in DOMAIN state.posted : state.posted[n].doc = d}

ReadDoc(state, d) == \E line \in state.read : line.doc = d

\* A document is read once, and the documents of one kind after the other.
GoodList(state, bk) ==
  /\ state.todo \subseteq state.read
  /\ \A line \in state.todo : line.doc \in state.kind
  /\ \A line, other \in state.read : line.doc = other.doc => line = other
  /\ state.kind = ForeignInvoices => \A line \in state.read : line.doc \in ForeignInvoices
  /\ state.phase = "list" =>
       state.todo = {} /\ \A line \in state.read : line.doc \notin state.kind
  /\ state.phase \in {"prior", "post"} => state.doc \in state.todo
  /\ \A line \in state.read : Issued(bk, line.doc)

\* What a run reverses is in force, unless another ended with the document.
Reversible(state, n, es, rc) ==
  /\ n \in DOMAIN es
  /\ ReadDoc(state, es[n].doc)
  /\ es[n].doc \in rc \/ es[n].reversals = 0

NoChange(state, d, es) ==
  (\A n \in state.reversed : es[n].doc # d) /\ NewOf(state, d) = {}

\* A line that had its value already.
Kept(state, line, bk, es) ==
  /\ NoChange(state, line.doc, es)
  /\ BookedIn(bk, line) + AdjustedBy(es, line.doc) = TargetOf(state, line)

\* A line that was revalued: all that was in force is reversed, and one entry, if
\* any, makes up the difference.
Revalued(state, line, bk, es) ==
  /\ InForce(es, line.doc) \subseteq state.reversed
  /\ \/ NewOf(state, line.doc) = {} /\ TargetOf(state, line) = BookedIn(bk, line)
     \/ \E n \in DOMAIN state.posted :
          /\ NewOf(state, line.doc) = {n}
          /\ state.posted[n].amount = TargetOf(state, line) - BookedIn(bk, line)

GoodEntries(state, es, rc) ==
  /\ \A n \in state.reversed : Reversible(state, n, es, rc)
  /\ \A n \in DOMAIN state.posted :
       ReadDoc(state, state.posted[n].doc) /\ state.posted[n].reversals = 0

\* Lines to come have no entry, the current one has its reversals only, and those
\* behind have their value, as long as nobody else ended with their document.
GoodLines(state, bk, es, rc) ==
  /\ \A line \in state.todo :
       (state.phase = "post" /\ line = state.doc) \/ NoChange(state, line.doc, es)
  /\ state.phase = "post" =>
       /\ NewOf(state, state.doc.doc) = {}
       /\ state.doc.doc \in rc \/ InForce(es, state.doc.doc) \subseteq state.reversed
  /\ \A line \in state.read \ state.todo :
       line.doc \in rc \/ Kept(state, line, bk, es) \/ Revalued(state, line, bk, es)

GoodRun(state, bk, es, rc) ==
  /\ state \in Revaluing => /\ GoodList(state, bk)
                            /\ GoodEntries(state, es, rc)
                            /\ GoodLines(state, bk, es, rc)
  /\ state \in Reversing => /\ Reversible(state, state.entry, es, rc)
                            /\ \A line \in state.read : Issued(bk, line.doc)

EntriesAreOfIssued == \A n \in DOMAIN entries : Issued(book, entries[n].doc)

RunsAreGood == \A r \in Requests : GoodRun(run[r], book, entries, raced)

\* A copy of a bill is the row, unless another request that held one has ended.
GoodSaving(state, bk, rc) ==
  /\ state \in ToIssue => state.doc \in rc \/ ~Issued(bk, state.doc)
  /\ state \in IssuingBill =>
       /\ state.loaded.rate # None => Issued(bk, state.doc)
       /\ \/ state.doc \in rc
          \/ ~Issued(bk, state.doc) /\ state.loaded = bk[state.doc]
  /\ state \in PayingBill =>
       /\ state.amount <= state.copy.balance /\ state.copy.rate # None
       /\ Issued(bk, state.doc)
       /\ state.doc \in rc \/ state.copy = bk[state.doc]

SavingsAreGood == \A r \in Requests : GoodSaving(saving[r], book, raced)

OneInForce == \A d \in Documents \ raced : \A m, n \in InForce(entries, d) : m = n

\* Before a document is issued, its rate is none and all of this is zero.
AccountsAreNear ==
  \A d \in Documents \ raced :
    Near(d, Converted(book[d].balance, book[d].rate) + AdjustedBy(entries, d))

OnlyIssuedAreValued == \A d \in Documents : valued[d] # None => Issued(book, d)

BooksAreRight ==
  /\ EntriesAreOfIssued /\ OneInForce /\ AccountsAreNear /\ OnlyIssuedAreValued
  /\ RevaluedToRate

RevaluationsIInv == RevaluationsTypeOK /\ RunsAreGood /\ SavingsAreGood /\ BooksAreRight

-----------------------------------------------------------------------------

\* An entry names a document and a whole amount.
LEMMA EntriesAreTyped ==
  ASSUME NEW es \in Seq(Entry)
  PROVE  /\ Len(es) \in Nat /\ DOMAIN es = 1 .. Len(es) /\ IsFiniteSet(DOMAIN es)
         /\ \A n \in DOMAIN es : es[n] \in Entry
         /\ \A n \in DOMAIN es : AdjustmentsIn(es)[n] = es[n].amount /\ es[n].amount \in Int
<1>1. Len(es) \in Nat /\ DOMAIN es = 1 .. Len(es)
  OBVIOUS
<1>2. IsFiniteSet(1 .. Len(es))
  BY <1>1, FS_Interval
<1>3. \A n \in DOMAIN es : es[n] \in Entry
  BY <1>1, ElementOfSeq
<1> QED BY <1>1, <1>2, <1>3 DEF AdjustmentsIn, Entry

\* The adjustments of a document add up to a whole amount.
LEMMA AdjustedByIsInt ==
  ASSUME NEW es \in Seq(Entry), NEW d
  PROVE  AdjustedBy(es, d) \in Int
<1>1. InForce(es, d) \subseteq DOMAIN es
  BY DEF InForce
<1>2. IsFiniteSet(InForce(es, d)) /\ \A n \in InForce(es, d) : AdjustmentsIn(es)[n] \in Int
  BY <1>1, EntriesAreTyped, FS_Subset
<1> QED BY <1>2, SumInt DEF AdjustedBy

\* The sum in the model is the same.
LEMMA PostedIsInForce ==
  \A d : Posted(d) = InForce(entries, d) /\ Sum(Posted(d)) = AdjustedBy(entries, d)
<1>1. \A d : Posted(d) = InForce(entries, d)
  BY DEF Posted, InForce
<1>2. \A d : Sum(Posted(d)) = SumOn(AdjustmentsIn(entries), Posted(d))
  BY Zenon DEF Sum, SumOn, AdjustmentsIn
<1> QED BY <1>1, <1>2 DEF AdjustedBy

\* No entry adds up to nothing, and one to its amount.
LEMMA AdjustedByOne ==
  ASSUME NEW es \in Seq(Entry), NEW d
  PROVE  /\ InForce(es, d) = {} => AdjustedBy(es, d) = 0
         /\ \A n : InForce(es, d) = {n} => AdjustedBy(es, d) = es[n].amount
<1>1. InForce(es, d) = {} => AdjustedBy(es, d) = 0
  BY SumEmpty DEF AdjustedBy
<1>2. ASSUME NEW n, InForce(es, d) = {n} PROVE AdjustedBy(es, d) = es[n].amount
  <2>1. n \in DOMAIN es
    BY <1>2 DEF InForce
  <2>2. AdjustmentsIn(es)[n] = es[n].amount /\ es[n].amount \in Int
    BY <2>1, EntriesAreTyped
  <2>3. SumOn(AdjustmentsIn(es), {}) = 0 /\ IsFiniteSet({}) /\ n \notin {}
    BY SumEmpty, FS_EmptySet
  <2>4. SumOn(AdjustmentsIn(es), {} \cup {n}) = AdjustmentsIn(es)[n] + SumOn(AdjustmentsIn(es), {})
    BY <2>2, <2>3, SumAdd
  <2>5. {} \cup {n} = {n}
    OBVIOUS
  <2> QED BY <1>2, <2>2, <2>3, <2>4, <2>5 DEF AdjustedBy
<1> QED BY <1>1, <1>2

\* The entries es became later: nothing changed outside the documents of touched.
Grew(es, later, touched) ==
  /\ \A n \in DOMAIN es :
       /\ n \in DOMAIN later
       /\ later[n].doc = es[n].doc /\ later[n].amount = es[n].amount
       /\ es[n].doc \notin touched => later[n].reversals = es[n].reversals
  /\ \A n \in DOMAIN later \ DOMAIN es : later[n].doc \in touched

\* Then the adjustments of other documents are the same.
LEMMA OthersAreAdjustedAlike ==
  ASSUME NEW es \in Seq(Entry), NEW later \in Seq(Entry), NEW touched, Grew(es, later, touched),
         NEW d, d \notin touched
  PROVE  InForce(later, d) = InForce(es, d) /\ AdjustedBy(later, d) = AdjustedBy(es, d)
<1>1. InForce(later, d) = InForce(es, d)
  BY DEF InForce, Grew
<1>2. IsFiniteSet(InForce(es, d)) /\ InForce(es, d) \subseteq DOMAIN es
  BY EntriesAreTyped, FS_Subset DEF InForce
<1>3. \A n \in InForce(es, d) : AdjustmentsIn(later)[n] = AdjustmentsIn(es)[n]
  BY <1>2, EntriesAreTyped DEF Grew
<1> QED BY <1>1, <1>2, <1>3, SumAgree DEF AdjustedBy

\* And a run that another's end left behind stays good, for the documents both
\* had read are raced.
LEMMA OthersStayGood ==
  ASSUME NEW es \in Seq(Entry), NEW later \in Seq(Entry), NEW touched, Grew(es, later, touched),
         NEW bk, NEW rc, NEW rcLater, rc \subseteq rcLater,
         NEW state, GoodRun(state, bk, es, rc),
         \A d \in touched : ReadDoc(state, d) => d \in rcLater
  PROVE  GoodRun(state, bk, later, rcLater)
<1>1. ASSUME NEW n, Reversible(state, n, es, rc)
      PROVE  Reversible(state, n, later, rcLater)
  BY <1>1 DEF Reversible, Grew
<1>2. ASSUME state \in Revaluing
      PROVE  GoodEntries(state, later, rcLater) /\ GoodLines(state, bk, later, rcLater)
  <2>1. GoodList(state, bk) /\ GoodEntries(state, es, rc) /\ GoodLines(state, bk, es, rc)
    BY <1>2 DEF GoodRun
  <2>2. GoodEntries(state, later, rcLater)
    BY <1>1, <2>1 DEF GoodEntries
  <2>3. \A n \in state.reversed : n \in DOMAIN es /\ later[n].doc = es[n].doc
    BY <2>1 DEF GoodEntries, Reversible, Grew
  <2>4. \A d : NoChange(state, d, es) => NoChange(state, d, later)
    BY <2>3 DEF NoChange
  <2>5. ASSUME NEW line \in state.read, line.doc \notin rcLater
        PROVE  /\ line.doc \notin rc
               /\ InForce(later, line.doc) = InForce(es, line.doc)
               /\ AdjustedBy(later, line.doc) = AdjustedBy(es, line.doc)
    <3>1. line.doc \notin touched /\ line.doc \notin rc
      BY <2>5 DEF ReadDoc
    <3> QED BY <3>1, OthersAreAdjustedAlike
  <2>6. ASSUME NEW line \in state.read, line.doc \notin rcLater
        PROVE  /\ Kept(state, line, bk, es) => Kept(state, line, bk, later)
               /\ Revalued(state, line, bk, es) => Revalued(state, line, bk, later)
    <3>1. /\ InForce(later, line.doc) = InForce(es, line.doc)
          /\ AdjustedBy(later, line.doc) = AdjustedBy(es, line.doc)
      BY <2>5, <2>6
    <3>2. Kept(state, line, bk, es) => Kept(state, line, bk, later)
      BY <2>4, <3>1 DEF Kept
    <3>3. Revalued(state, line, bk, es) => Revalued(state, line, bk, later)
      BY <3>1 DEF Revalued
    <3> QED BY <3>2, <3>3
  <2>7. \A line \in state.read \ state.todo :
          line.doc \in rcLater \/ Kept(state, line, bk, later) \/ Revalued(state, line, bk, later)
    BY <2>1, <2>5, <2>6 DEF GoodLines
  <2>8. \A line \in state.todo :
          (state.phase = "post" /\ line = state.doc) \/ NoChange(state, line.doc, later)
    BY <2>1, <2>4 DEF GoodLines
  <2>9. ASSUME state.phase = "post"
        PROVE  /\ NewOf(state, state.doc.doc) = {}
               /\ state.doc.doc \in rcLater \/ InForce(later, state.doc.doc) \subseteq state.reversed
    <3>1. state.doc \in state.read
      BY <2>1, <2>9 DEF GoodList
    <3>2. /\ NewOf(state, state.doc.doc) = {}
          /\ state.doc.doc \in rc \/ InForce(es, state.doc.doc) \subseteq state.reversed
      BY <2>1, <2>9 DEF GoodLines
    <3> QED BY <2>5, <3>1, <3>2
  <2>10. GoodLines(state, bk, later, rcLater)
    BY <2>7, <2>8, <2>9 DEF GoodLines
  <2> QED BY <2>2, <2>10
<1> QED BY <1>1, <1>2 DEF GoodRun

\* A document stays issued, and a rate a run relies on changes only with a race.
LEMMA BooksKeepRunsGood ==
  ASSUME NEW bk, NEW later, NEW rc, NEW rcLater, rc \subseteq rcLater,
         \A d \in Documents :
           Issued(bk, d) => Issued(later, d) /\ (d \in rcLater \/ later[d].rate = bk[d].rate),
         NEW es, NEW state, state \in {NoRun} \cup Revaluing \cup Reversing,
         GoodRun(state, bk, es, rc)
  PROVE  GoodRun(state, later, es, rcLater)
<1>1. ASSUME NEW line \in state.read, Issued(bk, line.doc), state # NoRun
      PROVE  /\ Issued(later, line.doc)
             /\ line.doc \in rcLater \/ BookedIn(later, line) = BookedIn(bk, line)
  <2>1. line.doc \in Documents
    BY <1>1 DEF Revaluing, Reversing, Listed
  <2> QED BY <1>1, <2>1 DEF BookedIn
<1>2. CASE state = NoRun
  BY <1>2 DEF NoRun, GoodRun, Revaluing, Reversing
<1>3. CASE state \in Revaluing /\ state # NoRun
  <2>1. GoodList(state, bk) /\ GoodEntries(state, es, rc) /\ GoodLines(state, bk, es, rc)
    BY <1>3 DEF GoodRun
  <2>2. \A line \in state.read :
          /\ Issued(later, line.doc)
          /\ line.doc \in rcLater \/ BookedIn(later, line) = BookedIn(bk, line)
    BY <1>1, <1>3, <2>1 DEF GoodList
  <2>3. GoodList(state, later)
    BY <2>1, <2>2 DEF GoodList
  <2>4. \A line \in state.read :
          Kept(state, line, bk, es) => line.doc \in rcLater \/ Kept(state, line, later, es)
    BY <2>2 DEF Kept
  <2>5. \A line \in state.read :
          Revalued(state, line, bk, es) => line.doc \in rcLater \/ Revalued(state, line, later, es)
    BY <2>2 DEF Revalued
  <2>6. GoodLines(state, later, es, rcLater)
    BY <2>1, <2>4, <2>5 DEF GoodLines
  <2>7. GoodEntries(state, es, rcLater)
    BY <2>1 DEF GoodEntries, Reversible
  <2>8. state \notin Reversing
    BY <1>3 DEF Revaluing, Reversing
  <2> QED BY <2>3, <2>6, <2>7, <2>8 DEF GoodRun
<1>4. CASE state \in Reversing /\ state # NoRun
  <2>1. state \notin Revaluing
    BY <1>4 DEF Revaluing, Reversing
  <2>2. Reversible(state, state.entry, es, rcLater)
    BY <1>4 DEF GoodRun, Reversible
  <2> QED BY <1>1, <1>4, <2>1, <2>2 DEF GoodRun
<1> QED BY <1>2, <1>3, <1>4

\* Copies of bills stay good as long as no bill is saved.
LEMMA SavingsStayGood ==
  ASSUME SavingsAreGood, RevaluationsTypeOK, saving' = saving, raced \subseteq raced',
         \A d \in Bills : book'[d] = book[d]
  PROVE  SavingsAreGood'
<1>1. ASSUME NEW r \in Requests PROVE GoodSaving(saving[r], book', raced')
  <2>1. GoodSaving(saving[r], book, raced)
    BY DEF SavingsAreGood
  <2>2. saving[r] \in ToIssue \cup IssuingBill \cup PayingBill => saving[r].doc \in Bills
    BY DEF ToIssue, IssuingBill, PayingBill
  <2> QED BY <2>1, <2>2 DEF GoodSaving, Issued
<1> QED BY <1>1 DEF SavingsAreGood

-----------------------------------------------------------------------------
(* Steps of one run.                                                       *)

\* The phase of a run tells what it is.
LEMMA PhaseOfRun ==
  ASSUME RevaluationsTypeOK, NEW r \in Requests
  PROVE  /\ run[r].phase = "idle" => run[r] = NoRun
         /\ run[r].phase \in {"list", "next", "prior", "post"} => run[r] \in Revaluing
         /\ run[r].phase = "reverse" => run[r] \in Reversing
         /\ run[r].phase \in {"idle", "list", "next", "prior", "post", "reverse"}
<1>1. run[r] \in {NoRun} \cup Revaluing \cup Reversing
  BY DEF RevaluationsTypeOK
<1>2. CASE run[r] = NoRun
  BY <1>2 DEF NoRun
<1>3. CASE run[r] \in Revaluing
  <2>1. run[r].phase \in {"list", "next", "prior", "post"}
    BY <1>3 DEF Revaluing
  <2> QED BY <1>3, <2>1
<1>4. CASE run[r] \in Reversing
  <2>1. run[r].phase = "reverse"
    BY <1>4 DEF Reversing
  <2> QED BY <1>4, <2>1
<1> QED BY <1>1, <1>2, <1>3, <1>4

\* A request that has not started is good.
LEMMA NoRunIsGood ==
  ASSUME NEW bk, NEW es, NEW rc
  PROVE  GoodRun(NoRun, bk, es, rc)
BY DEF GoodRun, NoRun, Revaluing, Reversing

\* A step that only changes a run, to a good one, keeps the invariant.
LEMMA RunStep ==
  ASSUME RevaluationsIInv, NEW r \in Requests, NEW state, SetRun(r, state),
         state \in {NoRun} \cup Revaluing \cup Reversing,
         GoodRun(state, book, entries, raced)
  PROVE  RevaluationsIInv'
<1>1. run' = [run EXCEPT ![r] = state] /\ UNCHANGED <<book, account, entries, saving, raced, valued>>
  BY DEF SetRun
<1>2. RevaluationsTypeOK'
  BY <1>1 DEF RevaluationsIInv, RevaluationsTypeOK
<1>3. \A u \in Requests : run'[u] = IF u = r THEN state ELSE run[u]
  BY <1>1 DEF RevaluationsIInv, RevaluationsTypeOK
<1>4. RunsAreGood'
  <2>1. \A u \in Requests : GoodRun(run'[u], book, entries, raced)
    BY <1>3 DEF RevaluationsIInv, RunsAreGood
  <2>2. book' = book /\ entries' = entries /\ raced' = raced
    BY <1>1
  <2> QED BY <2>1, <2>2 DEF RunsAreGood
<1>5. BooksAreRight'
  BY <1>1 DEF RevaluationsIInv, BooksAreRight, EntriesAreOfIssued, OneInForce, AccountsAreNear,
    OnlyIssuedAreValued, RevaluedToRate, Near
<1>6. SavingsAreGood'
  BY <1>1, SavingsStayGood DEF RevaluationsIInv
<1> QED BY <1>2, <1>4, <1>5, <1>6 DEF RevaluationsIInv

\* A revaluation starts without having read anything.
LEMMA StartKeeps ==
  ASSUME RevaluationsIInv, NEW r \in Requests, NEW rate \in Rates, Start(r, rate)
  PROVE  RevaluationsIInv'
<1> DEFINE state ==
      [phase |-> "list", rate |-> rate, kind |-> ForeignInvoices, doc |-> NoRow,
       todo |-> {}, read |-> {}, holdsSeries |-> FALSE, reversed |-> {}, posted |-> <<>>]
<1>1. SetRun(r, state)
  BY DEF Start
<1>2. <<>> \in Seq(Entry)
  BY EmptySeq
<1>3. state \in Revaluing /\ state \notin Reversing
  BY <1>2 DEF Revaluing, Reversing
<1>4. GoodList(state, book) /\ GoodEntries(state, entries, raced) /\ GoodLines(state, book, entries, raced)
  BY DEF GoodList, GoodEntries, GoodLines
<1>5. GoodRun(state, book, entries, raced)
  BY <1>3, <1>4 DEF GoodRun
<1> QED BY <1>1, <1>3, <1>5, RunStep

\* A run that rolls back leaves nothing behind.
LEMMA RunsRollBack ==
  ASSUME RevaluationsIInv, NEW r \in Requests, SetRun(r, NoRun)
  PROVE  RevaluationsIInv'
BY NoRunIsGood, RunStep

\* What the invariant says of a run that revalues.
LEMMA RevaluingIsGood ==
  ASSUME RevaluationsIInv, NEW r \in Requests,
         run[r].phase \in {"list", "next", "prior", "post"}
  PROVE  /\ run[r] \in Revaluing /\ run[r] \notin Reversing
         /\ GoodList(run[r], book) /\ GoodEntries(run[r], entries, raced)
         /\ GoodLines(run[r], book, entries, raced)
<1>1. run[r] \in Revaluing
  BY PhaseOfRun DEF RevaluationsIInv
<1>2. run[r] \notin Reversing
  BY <1>1 DEF Revaluing, Reversing
<1>3. GoodRun(run[r], book, entries, raced)
  BY DEF RevaluationsIInv, RunsAreGood
<1> QED BY <1>1, <1>2, <1>3 DEF GoodRun

\* The lines of a list are new, and none has an entry.
LEMMA ListKeeps ==
  ASSUME RevaluationsIInv, NEW r \in Requests, List(r)
  PROVE  RevaluationsIInv'
<1> DEFINE old == run[r]
           listed == {[doc |-> d, balance |-> book[d].balance] :
                        d \in {d \in old.kind : book[d].rate # None}}
           state == [old EXCEPT !.phase = "next", !.todo = listed, !.read = @ \cup listed]
<1>1. old.phase = "list" /\ SetRun(r, state)
  BY DEF List, In
<1>2. /\ old \in Revaluing /\ GoodList(old, book) /\ GoodEntries(old, entries, raced)
      /\ GoodLines(old, book, entries, raced)
  BY <1>1, RevaluingIsGood
<1>3. old.kind \subseteq Documents
  BY <1>2 DEF Revaluing, Documents
<1>4. /\ listed \in SUBSET Listed
      /\ \A line \in listed : line.doc \in old.kind /\ Issued(book, line.doc)
      /\ \A line, other \in listed : line.doc = other.doc => line = other
  BY <1>3 DEF Listed, RevaluationsIInv, RevaluationsTypeOK, Book, Issued
<1> HIDE DEF listed
<1>5. /\ state \in Revaluing /\ state.phase = "next" /\ state.todo = listed
      /\ state.read = old.read \cup listed /\ state.kind = old.kind /\ state.rate = old.rate
      /\ state.reversed = old.reversed /\ state.posted = old.posted
  BY <1>2, <1>4 DEF Revaluing
<1> HIDE DEF state
<1>6. /\ old.todo = {} /\ \A line \in old.read : line.doc \notin old.kind
  BY <1>1, <1>2 DEF GoodList
<1>7. GoodList(state, book)
  <2>1. \A line, other \in state.read : line.doc = other.doc => line = other
    BY <1>2, <1>4, <1>5, <1>6 DEF GoodList
  <2> QED BY <1>2, <1>4, <1>5, <2>1 DEF GoodList
<1>8. \A d : ReadDoc(old, d) => ReadDoc(state, d)
  BY <1>5 DEF ReadDoc
<1>9. GoodEntries(state, entries, raced)
  BY <1>2, <1>5, <1>8 DEF GoodEntries, Reversible
<1>10. ASSUME NEW line \in listed PROVE NoChange(state, line.doc, entries)
  <2>1. \A n \in old.reversed : entries[n].doc # line.doc
    BY <1>2, <1>4, <1>6 DEF GoodEntries, Reversible, ReadDoc
  <2>2. \A n \in DOMAIN old.posted : old.posted[n].doc # line.doc
    BY <1>2, <1>4, <1>6 DEF GoodEntries, ReadDoc
  <2> QED BY <1>5, <2>1, <2>2 DEF NoChange, NewOf
<1>11. ASSUME NEW line \in old.read, line.doc \notin raced
       PROVE  Kept(state, line, book, entries) \/ Revalued(state, line, book, entries)
  <2>1. Kept(old, line, book, entries) \/ Revalued(old, line, book, entries)
    BY <1>2, <1>6, <1>11 DEF GoodLines
  <2> QED BY <1>5, <2>1 DEF Kept, Revalued, NoChange, NewOf, TargetOf
<1>12. GoodLines(state, book, entries, raced)
  BY <1>5, <1>10, <1>11 DEF GoodLines
<1>13. GoodRun(state, book, entries, raced)
  BY <1>5, <1>7, <1>9, <1>12 DEF GoodRun, Revaluing, Reversing
<1> QED BY <1>1, <1>5, <1>13, RunStep

\* A line is left as it is because it has its value, or is taken up.
LEMMA ConsiderKeeps ==
  ASSUME RevaluationsIInv, NEW r \in Requests, Consider(r)
  PROVE  RevaluationsIInv'
<1> DEFINE old == run[r]
<1>1. old.phase = "next"
  BY DEF Consider, In
<1>2. PICK line \in old.todo :
        SetRun(r, IF Booked(line) + Sum(Posted(line.doc)) = Target(r, line) THEN Done(r, line)
                  ELSE [old EXCEPT !.phase = "prior", !.doc = line])
  BY DEF Consider
<1>3. /\ old \in Revaluing /\ GoodList(old, book) /\ GoodEntries(old, entries, raced)
      /\ GoodLines(old, book, entries, raced)
  BY <1>1, RevaluingIsGood
<1>4. line \in Listed
  BY <1>2, <1>3 DEF Revaluing
<1>5. CASE Booked(line) + Sum(Posted(line.doc)) = Target(r, line)
  <2> DEFINE state == Done(r, line)
  <2>1. /\ state \in Revaluing /\ state.phase = "next" /\ state.todo = old.todo \ {line}
        /\ state.read = old.read /\ state.kind = old.kind /\ state.rate = old.rate
        /\ state.reversed = old.reversed /\ state.posted = old.posted
    BY <1>3 DEF Done, Revaluing
  <2> HIDE DEF state
  <2>2. GoodList(state, book)
    BY <1>3, <2>1 DEF GoodList
  <2>3. GoodEntries(state, entries, raced)
    BY <1>3, <2>1 DEF GoodEntries, Reversible, ReadDoc
  <2>4. Kept(state, line, book, entries)
    <3>1. NoChange(old, line.doc, entries)
      BY <1>1, <1>2, <1>3 DEF GoodLines
    <3>2. BookedIn(book, line) + AdjustedBy(entries, line.doc) = TargetOf(old, line)
      BY <1>5, PostedIsInForce DEF Booked, BookedIn, Target, TargetOf
    <3> QED BY <2>1, <3>1, <3>2 DEF Kept, NoChange, NewOf, TargetOf
  <2>5. ASSUME NEW other \in old.read \ old.todo, other.doc \notin raced
        PROVE  Kept(state, other, book, entries) \/ Revalued(state, other, book, entries)
    <3>1. Kept(old, other, book, entries) \/ Revalued(old, other, book, entries)
      BY <1>3, <2>5 DEF GoodLines
    <3> QED BY <2>1, <3>1 DEF Kept, Revalued, NoChange, NewOf, TargetOf
  <2>6. \A other \in old.todo : NoChange(state, other.doc, entries)
    BY <1>1, <1>3, <2>1 DEF GoodLines, NoChange, NewOf
  <2>7. GoodLines(state, book, entries, raced)
    BY <2>1, <2>4, <2>5, <2>6 DEF GoodLines
  <2>8. GoodRun(state, book, entries, raced)
    BY <2>1, <2>2, <2>3, <2>7 DEF GoodRun, Revaluing, Reversing
  <2>9. SetRun(r, state)
    BY <1>2, <1>5 DEF state
  <2> QED BY <2>1, <2>8, <2>9, RunStep
<1>6. CASE Booked(line) + Sum(Posted(line.doc)) # Target(r, line)
  <2> DEFINE state == [old EXCEPT !.phase = "prior", !.doc = line]
  <2>1. /\ state \in Revaluing /\ state.phase = "prior" /\ state.doc = line
        /\ state.todo = old.todo /\ state.read = old.read /\ state.kind = old.kind
        /\ state.rate = old.rate /\ state.reversed = old.reversed /\ state.posted = old.posted
    BY <1>3, <1>4 DEF Revaluing
  <2>2. SetRun(r, state)
    BY <1>2, <1>6
  <2> HIDE DEF state
  <2>3. GoodList(state, book)
    BY <1>2, <1>3, <2>1 DEF GoodList
  <2>4. GoodEntries(state, entries, raced)
    BY <1>3, <2>1 DEF GoodEntries, Reversible, ReadDoc
  <2>5. \A other \in old.todo : NoChange(state, other.doc, entries)
    BY <1>1, <1>3, <2>1 DEF GoodLines, NoChange, NewOf
  <2>6. ASSUME NEW other \in old.read \ old.todo, other.doc \notin raced
        PROVE  Kept(state, other, book, entries) \/ Revalued(state, other, book, entries)
    <3>1. Kept(old, other, book, entries) \/ Revalued(old, other, book, entries)
      BY <1>3, <2>6 DEF GoodLines
    <3> QED BY <2>1, <3>1 DEF Kept, Revalued, NoChange, NewOf, TargetOf
  <2>7. GoodLines(state, book, entries, raced)
    BY <2>1, <2>5, <2>6 DEF GoodLines
  <2>8. GoodRun(state, book, entries, raced)
    BY <2>1, <2>3, <2>4, <2>7 DEF GoodRun, Revaluing, Reversing
  <2> QED BY <2>1, <2>2, <2>8, RunStep
<1> QED BY <1>5, <1>6

\* The current line gets all that is in force of its document to reverse.
LEMMA ReadPriorKeeps ==
  ASSUME RevaluationsIInv, NEW r \in Requests, ReadPrior(r)
  PROVE  RevaluationsIInv'
<1> DEFINE old == run[r]
           line == old.doc
           prior == InForce(entries, line.doc)
           state == [old EXCEPT !.phase = "post", !.reversed = @ \cup prior]
<1>1. old.phase = "prior" /\ SetRun(r, state)
  BY PostedIsInForce DEF ReadPrior, In
<1>2. /\ old \in Revaluing /\ GoodList(old, book) /\ GoodEntries(old, entries, raced)
      /\ GoodLines(old, book, entries, raced)
  BY <1>1, RevaluingIsGood
<1>3. line \in old.todo /\ line \in old.read /\ line \in Listed
  BY <1>1, <1>2 DEF GoodList, Revaluing
<1>4. prior \subseteq DOMAIN entries /\ prior \in SUBSET (Nat \ {0})
  BY EntriesAreTyped DEF InForce, RevaluationsIInv, RevaluationsTypeOK
<1>5. /\ state \in Revaluing /\ state.phase = "post" /\ state.doc = line
      /\ state.todo = old.todo /\ state.read = old.read /\ state.kind = old.kind
      /\ state.rate = old.rate /\ state.reversed = old.reversed \cup prior
      /\ state.posted = old.posted
  BY <1>2, <1>4 DEF Revaluing
<1> HIDE DEF state
<1>6. GoodList(state, book)
  BY <1>2, <1>3, <1>5 DEF GoodList
<1>7. \A n \in prior : entries[n].doc = line.doc /\ entries[n].reversals = 0
  BY DEF InForce
<1>8. GoodEntries(state, entries, raced)
  <2>1. \A n \in old.reversed : Reversible(state, n, entries, raced)
    BY <1>2, <1>5 DEF GoodEntries, Reversible, ReadDoc
  <2>2. \A n \in prior : Reversible(state, n, entries, raced)
    BY <1>3, <1>4, <1>5, <1>7 DEF Reversible, ReadDoc
  <2> QED BY <1>2, <1>5, <2>1, <2>2 DEF GoodEntries, ReadDoc
<1> HIDE DEF prior
<1>9. \A other \in old.todo : NoChange(old, other.doc, entries)
  BY <1>1, <1>2 DEF GoodLines
<1>10. \A other \in old.read : other.doc = line.doc => other = line
  BY <1>2, <1>3 DEF GoodList
<1>11. \A d : d # line.doc /\ NoChange(old, d, entries) => NoChange(state, d, entries)
  BY <1>5, <1>7 DEF NoChange, NewOf
<1>12. \A other \in old.todo : other = line \/ NoChange(state, other.doc, entries)
  BY <1>2, <1>9, <1>10, <1>11 DEF GoodList
<1>13. NewOf(state, line.doc) = {} /\ InForce(entries, line.doc) \subseteq state.reversed
  BY <1>3, <1>5, <1>9 DEF NoChange, NewOf, prior
<1>14. ASSUME NEW other \in old.read \ old.todo, other.doc \notin raced
       PROVE  Kept(state, other, book, entries) \/ Revalued(state, other, book, entries)
  <2>1. other.doc # line.doc
    BY <1>3, <1>10
  <2>2. Kept(old, other, book, entries) \/ Revalued(old, other, book, entries)
    BY <1>2, <1>14 DEF GoodLines
  <2>3. Kept(old, other, book, entries) => Kept(state, other, book, entries)
    BY <1>5, <1>11, <2>1 DEF Kept, TargetOf
  <2>4. Revalued(old, other, book, entries) => Revalued(state, other, book, entries)
    BY <1>5 DEF Revalued, NewOf, TargetOf
  <2> QED BY <2>2, <2>3, <2>4
<1>15. GoodLines(state, book, entries, raced)
  BY <1>5, <1>12, <1>13, <1>14 DEF GoodLines
<1>16. GoodRun(state, book, entries, raced)
  BY <1>5, <1>6, <1>8, <1>15 DEF GoodRun, Revaluing, Reversing
<1> QED BY <1>1, <1>5, <1>16, RunStep

\* What is converted is a whole amount.
LEMMA ConvertedIsInt ==
  ASSUME NEW amount \in Int, NEW rate \in Int
  PROVE  Converted(amount, rate) \in Int
<1> DEFINE twice == amount * rate
<1>1. twice \in Int
  OBVIOUS
<1> HIDE DEF twice
<1>2. (twice + 1) \div 2 \in Int
  BY <1>1
<1> QED BY <1>2 DEF Converted, twice

\* The values of a line that was read.
LEMMA ValuesAreInt ==
  ASSUME RevaluationsIInv, NEW state \in Revaluing, NEW line \in Listed
  PROVE  TargetOf(state, line) \in Int /\ BookedIn(book, line) \in Int
<1>1. line.doc \in Documents /\ line.balance \in Int
  BY DEF Listed
<1>2. Rates \subseteq Int
  BY RevaluationsAssumption
<1>3. book[line.doc] \in Book
  BY <1>1 DEF RevaluationsIInv, RevaluationsTypeOK
<1>4. book[line.doc].rate \in Int
  <2>1. book[line.doc].rate \in Rates \cup {None}
    BY <1>3 DEF Book
  <2>2. None \in Int
    BY DEF None
  <2> QED BY <1>2, <2>1, <2>2
<1>5. state.rate \in Int
  BY <1>2 DEF Revaluing
<1> QED BY <1>1, <1>4, <1>5, ConvertedIsInt DEF TargetOf, BookedIn

\* The current line gets one entry, or none when it is back at its booked value.
LEMMA PostAdjustmentKeeps ==
  ASSUME RevaluationsIInv, NEW r \in Requests, PostAdjustment(r)
  PROVE  RevaluationsIInv'
<1> DEFINE old == run[r]
           line == old.doc
           adjustment == TargetOf(old, line) - BookedIn(book, line)
           reverses == \E n \in old.reversed : entries[n].doc = line.doc
           entry == [doc |-> line.doc, amount |-> adjustment, reversals |-> 0]
           posted == IF adjustment = 0 THEN old.posted ELSE Append(old.posted, entry)
           state == [Done(r, line) EXCEPT
                       !.holdsSeries = @ \/ reverses \/ adjustment # 0, !.posted = posted]
<1>1. Adjustment(r, line) = adjustment
  BY DEF Adjustment, Target, Booked, TargetOf, BookedIn
<1>2. old.phase = "post"
  BY DEF PostAdjustment, In
<1>3. /\ old \in Revaluing /\ GoodList(old, book) /\ GoodEntries(old, entries, raced)
      /\ GoodLines(old, book, entries, raced)
  BY <1>2, RevaluingIsGood
<1>4. line \in old.todo /\ line \in old.read /\ line \in Listed
  BY <1>2, <1>3 DEF GoodList, Revaluing
<1>5. old.posted \in Seq(Entry)
  BY <1>3 DEF Revaluing
<1>6. Done(r, line).posted = old.posted
  BY <1>3 DEF Done, Revaluing
<1>7. SetRun(r, state)
  BY <1>1, <1>6 DEF PostAdjustment
<1>8. TargetOf(old, line) \in Int /\ BookedIn(book, line) \in Int /\ adjustment \in Int
  BY <1>3, <1>4, ValuesAreInt
<1>9. entry \in Entry
  BY <1>4, <1>8 DEF Entry, Listed
<1>10. posted \in Seq(Entry)
  <2> HIDE DEF entry, adjustment
  <2> QED BY <1>5, <1>9, AppendProperties
<1>11. reverses \in BOOLEAN /\ (adjustment # 0) \in BOOLEAN
  OBVIOUS
<1>12. /\ DOMAIN old.posted \subseteq DOMAIN posted
       /\ \A n \in DOMAIN old.posted : posted[n] = old.posted[n]
       /\ adjustment = 0 => posted = old.posted
       /\ adjustment # 0 => /\ Len(old.posted) + 1 \notin DOMAIN old.posted
                            /\ DOMAIN posted = DOMAIN old.posted \cup {Len(old.posted) + 1}
                            /\ posted[Len(old.posted) + 1] = entry
  <2> HIDE DEF entry, adjustment
  <2> QED BY <1>5, <1>9, AppendProperties, LenProperties
<1> HIDE DEF posted, reverses, adjustment
<1>13. /\ state \in Revaluing /\ state.phase = "next" /\ state.todo = old.todo \ {line}
       /\ state.read = old.read /\ state.kind = old.kind /\ state.rate = old.rate
       /\ state.reversed = old.reversed /\ state.posted = posted
  BY <1>3, <1>10, <1>11 DEF Done, Revaluing
<1> HIDE DEF state
<1>14. GoodList(state, book)
  BY <1>3, <1>13 DEF GoodList
<1>15. GoodEntries(state, entries, raced)
  <2>1. \A n \in state.reversed : Reversible(state, n, entries, raced)
    BY <1>3, <1>13 DEF GoodEntries, Reversible, ReadDoc
  <2>2. ASSUME NEW n \in DOMAIN posted
        PROVE  ReadDoc(state, posted[n].doc) /\ posted[n].reversals = 0
    <3>1. CASE n \in DOMAIN old.posted
      BY <1>3, <1>12, <1>13, <3>1 DEF GoodEntries, ReadDoc
    <3>2. CASE n \notin DOMAIN old.posted
      <4>1. posted[n] = entry
        BY <1>12, <3>2
      <4> QED BY <1>4, <1>13, <4>1 DEF ReadDoc
    <3> QED BY <3>1, <3>2
  <2> QED BY <1>13, <2>1, <2>2 DEF GoodEntries
<1>16. \A other \in old.read : other.doc = line.doc => other = line
  BY <1>3, <1>4 DEF GoodList
<1>17. \A d : d # line.doc => NewOf(state, d) = NewOf(old, d)
  BY <1>12, <1>13 DEF NewOf
<1>18. \A other \in old.todo \ {line} : NoChange(state, other.doc, entries)
  <2>1. \A other \in old.todo \ {line} : NoChange(old, other.doc, entries) /\ other.doc # line.doc
    BY <1>3, <1>16 DEF GoodLines, GoodList
  <2> QED BY <1>13, <1>17, <2>1 DEF NoChange
<1>19. ASSUME line.doc \notin raced
       PROVE  Revalued(state, line, book, entries)
  <2>1. NewOf(old, line.doc) = {} /\ InForce(entries, line.doc) \subseteq old.reversed
    BY <1>2, <1>3, <1>19 DEF GoodLines
  <2>2. TargetOf(state, line) = TargetOf(old, line)
    BY <1>13 DEF TargetOf
  <2>3. CASE adjustment = 0
    <3>1. NewOf(state, line.doc) = {}
      BY <1>12, <1>13, <2>1, <2>3 DEF NewOf
    <3>2. TargetOf(state, line) = BookedIn(book, line)
      BY <1>8, <2>2, <2>3 DEF adjustment
    <3> QED BY <1>13, <2>1, <3>1, <3>2 DEF Revalued
  <2>4. CASE adjustment # 0
    <3> DEFINE n == Len(old.posted) + 1
    <3>1. n \in DOMAIN posted /\ posted[n].doc = line.doc /\ posted[n].amount = adjustment
      BY <1>12, <2>4
    <3>2. NewOf(state, line.doc) = {n}
      BY <1>12, <1>13, <2>1, <2>4, <3>1 DEF NewOf
    <3> HIDE DEF n
    <3> QED BY <1>13, <2>1, <2>2, <3>1, <3>2 DEF Revalued, adjustment
  <2> QED BY <2>3, <2>4
<1>20. ASSUME NEW other \in old.read \ old.todo, other.doc \notin raced
       PROVE  Kept(state, other, book, entries) \/ Revalued(state, other, book, entries)
  <2>1. other.doc # line.doc
    BY <1>4, <1>16
  <2>2. Kept(old, other, book, entries) \/ Revalued(old, other, book, entries)
    BY <1>3, <1>20 DEF GoodLines
  <2>3. NewOf(state, other.doc) = NewOf(old, other.doc) /\ TargetOf(state, other) = TargetOf(old, other)
    BY <1>13, <1>17, <2>1 DEF TargetOf
  <2>4. Kept(old, other, book, entries) => Kept(state, other, book, entries)
    BY <1>13, <2>3 DEF Kept, NoChange
  <2>5. Revalued(old, other, book, entries) => Revalued(state, other, book, entries)
    <3> SUFFICES ASSUME Revalued(old, other, book, entries)
                 PROVE  Revalued(state, other, book, entries)
      OBVIOUS
    <3>1. CASE NewOf(old, other.doc) = {} /\ TargetOf(old, other) = BookedIn(book, other)
      BY <1>13, <2>3, <3>1 DEF Revalued
    <3>2. CASE \E n \in DOMAIN old.posted :
                 /\ NewOf(old, other.doc) = {n}
                 /\ old.posted[n].amount = TargetOf(old, other) - BookedIn(book, other)
      BY <1>12, <1>13, <2>3, <3>2 DEF Revalued
    <3> QED BY <3>1, <3>2 DEF Revalued
  <2> QED BY <2>2, <2>4, <2>5
<1>21. GoodLines(state, book, entries, raced)
  BY <1>13, <1>18, <1>19, <1>20 DEF GoodLines
<1>22. GoodRun(state, book, entries, raced)
  BY <1>13, <1>14, <1>15, <1>21 DEF GoodRun, Revaluing, Reversing
<1> QED BY <1>7, <1>13, <1>22, RunStep

\* Invoices are no bills, so the next list is of documents not read yet.
LEMMA NextKindKeeps ==
  ASSUME RevaluationsIInv, NEW r \in Requests, NextKind(r)
  PROVE  RevaluationsIInv'
<1> DEFINE old == run[r]
           state == [old EXCEPT !.phase = "list", !.kind = Bills]
<1>1. old.phase = "next" /\ old.todo = {} /\ old.kind = ForeignInvoices /\ SetRun(r, state)
  BY DEF NextKind, In
<1>2. /\ old \in Revaluing /\ GoodList(old, book) /\ GoodEntries(old, entries, raced)
      /\ GoodLines(old, book, entries, raced)
  BY <1>1, RevaluingIsGood
<1>3. /\ state \in Revaluing /\ state.phase = "list" /\ state.todo = old.todo
      /\ state.read = old.read /\ state.kind = Bills /\ state.rate = old.rate
      /\ state.reversed = old.reversed /\ state.posted = old.posted
  BY <1>2 DEF Revaluing
<1> HIDE DEF state
<1>4. GoodList(state, book)
  BY <1>1, <1>2, <1>3, RevaluationsAssumption DEF GoodList
<1>5. GoodEntries(state, entries, raced)
  BY <1>2, <1>3 DEF GoodEntries, Reversible, ReadDoc
<1>6. ASSUME NEW line \in old.read, line.doc \notin raced
      PROVE  Kept(state, line, book, entries) \/ Revalued(state, line, book, entries)
  <2>1. Kept(old, line, book, entries) \/ Revalued(old, line, book, entries)
    BY <1>1, <1>2, <1>6 DEF GoodLines
  <2> QED BY <1>3, <2>1 DEF Kept, Revalued, NoChange, NewOf, TargetOf
<1>7. GoodLines(state, book, entries, raced)
  BY <1>1, <1>3, <1>6 DEF GoodLines
<1>8. GoodRun(state, book, entries, raced)
  BY <1>3, <1>4, <1>5, <1>7 DEF GoodRun, Revaluing, Reversing
<1> QED BY <1>1, <1>3, <1>8, RunStep

\* A manual reversal starts from an entry in force.
LEMMA ReadToReverseKeeps ==
  ASSUME RevaluationsIInv, NEW r \in Requests, NEW n \in DOMAIN entries, ReadToReverse(r, n)
  PROVE  RevaluationsIInv'
<1> DEFINE line == [doc |-> entries[n].doc, balance |-> 0]
           state == [phase |-> "reverse", entry |-> n, holdsSeries |-> FALSE, read |-> {line}]
<1>1. entries[n].reversals = 0 /\ SetRun(r, state)
  BY DEF ReadToReverse
<1>2. entries[n] \in Entry /\ n \in Nat \ {0}
  BY EntriesAreTyped DEF RevaluationsIInv, RevaluationsTypeOK
<1>3. line \in Listed
  BY <1>2 DEF Listed, Entry
<1> HIDE DEF line
<1>4. state \in Reversing /\ state \notin Revaluing
  BY <1>2, <1>3 DEF Reversing, Revaluing
<1>5. Reversible(state, n, entries, raced) /\ Issued(book, line.doc)
  BY <1>1 DEF Reversible, ReadDoc, line, RevaluationsIInv, BooksAreRight, EntriesAreOfIssued
<1>6. GoodRun(state, book, entries, raced)
  BY <1>4, <1>5 DEF GoodRun
<1> QED BY <1>1, <1>4, <1>6, RunStep

-----------------------------------------------------------------------------
(* Documents are issued and paid.                                          *)

\* A document that is issued stands in its account at the rate of the day.
LEMMA IssueKeeps ==
  ASSUME RevaluationsIInv, NEW d \in ForeignInvoices, NEW rate \in Rates, Issue(d, rate)
  PROVE  RevaluationsIInv'
<1> DEFINE new == [rate |-> rate, balance |-> Total[d], payments |-> 0]
<1>1. /\ book[d].rate = None /\ book' = [book EXCEPT ![d] = new]
      /\ account' = [account EXCEPT ![d] = Converted(Total[d], rate)]
      /\ UNCHANGED <<entries, run, saving, raced, valued>>
  BY DEF Issue
<1>0. d \in Documents /\ d \notin Bills
  BY RevaluationsAssumption DEF Documents
<1>2. Total[d] \in Nat /\ rate \in Int /\ rate # None /\ Rates \subseteq Int
  BY <1>0, RevaluationsAssumption DEF None
<1>3. Converted(Total[d], rate) \in Int
  <2>1. Total[d] \in Int /\ rate \in Int
    BY <1>2
  <2> QED BY <2>1, ConvertedIsInt
<1>4. new \in Book /\ new.rate = rate /\ new.balance = Total[d] /\ new.payments = 0
  BY <1>2 DEF Book
<1> HIDE DEF new
<1>5. RevaluationsTypeOK'
  BY <1>1, <1>3, <1>4 DEF RevaluationsIInv, RevaluationsTypeOK
<1>savings. SavingsAreGood'
  <2>1. \A e \in Bills : book'[e] = book[e]
    BY <1>1, <1>0 DEF RevaluationsIInv, RevaluationsTypeOK, Documents
  <2> QED BY <1>1, <2>1, SavingsStayGood DEF RevaluationsIInv
<1>6. /\ book'[d] = new /\ account'[d] = Converted(Total[d], rate)
      /\ \A e \in Documents \ {d} : book'[e] = book[e] /\ account'[e] = account[e]
  BY <1>1, <1>0 DEF RevaluationsIInv, RevaluationsTypeOK
<1>7. /\ ~Issued(book, d)
      /\ \A e \in Documents : Issued(book, e) => Issued(book', e) /\ book'[e].rate = book[e].rate
  BY <1>1, <1>6 DEF Issued
<1>8. RunsAreGood'
  <2>1. ASSUME NEW r \in Requests PROVE GoodRun(run[r], book', entries, raced)
    <3>1. run[r] \in {NoRun} \cup Revaluing \cup Reversing /\ GoodRun(run[r], book, entries, raced)
      BY DEF RevaluationsIInv, RevaluationsTypeOK, RunsAreGood
    <3> QED BY <1>7, <3>1, BooksKeepRunsGood
  <2> QED BY <1>1, <2>1 DEF RunsAreGood
<1>9. EntriesAreOfIssued' /\ OneInForce' /\ OnlyIssuedAreValued'
  <2>1. \A n \in DOMAIN entries : entries[n].doc \in Documents
    BY EntriesAreTyped DEF RevaluationsIInv, RevaluationsTypeOK, Entry
  <2>2. \A e \in Documents : Issued(book, e) => Issued(book', e)
    BY <1>7 DEF Issued
  <2>3. EntriesAreOfIssued'
    BY <1>1, <2>1, <2>2 DEF RevaluationsIInv, BooksAreRight, EntriesAreOfIssued
  <2>4. OnlyIssuedAreValued'
    BY <1>1, <2>2 DEF RevaluationsIInv, BooksAreRight, OnlyIssuedAreValued
  <2>5. OneInForce'
    BY <1>1 DEF RevaluationsIInv, BooksAreRight, OneInForce
  <2> QED BY <2>3, <2>4, <2>5
<1>10. AccountsAreNear'
  <2> SUFFICES ASSUME NEW e \in Documents \ raced
               PROVE  Near(e, Converted(book[e].balance, book[e].rate) + AdjustedBy(entries, e))'
    BY <1>1 DEF AccountsAreNear
  <2>1. CASE e = d
    <3>1. InForce(entries, d) = {}
      BY <1>7 DEF InForce, RevaluationsIInv, BooksAreRight, EntriesAreOfIssued
    <3>2. AdjustedBy(entries, d) = 0
      BY <3>1, AdjustedByOne DEF RevaluationsIInv, RevaluationsTypeOK
    <3> QED BY <1>1, <1>3, <1>4, <1>6, <2>1, <3>2 DEF Near
  <2>2. CASE e # d
    <3>1. Near(e, Converted(book[e].balance, book[e].rate) + AdjustedBy(entries, e))
      BY <1>6, <2>2 DEF RevaluationsIInv, BooksAreRight, AccountsAreNear
    <3> QED BY <1>1, <1>6, <2>2, <3>1 DEF Near
  <2> QED BY <2>1, <2>2
<1>11. RevaluedToRate'
  <2> SUFFICES ASSUME NEW e \in Documents \ raced, valued[e] # None
               PROVE  Near(e, Converted(book[e].balance, valued[e]))'
    BY <1>1 DEF RevaluedToRate
  <2>1. e # d
    BY <1>7 DEF RevaluationsIInv, BooksAreRight, OnlyIssuedAreValued
  <2>2. Near(e, Converted(book[e].balance, valued[e]))
    BY DEF RevaluationsIInv, BooksAreRight, RevaluedToRate
  <2> QED BY <1>1, <1>6, <2>1, <2>2 DEF Near
<1> QED BY <1>5, <1>savings, <1>8, <1>9, <1>10, <1>11 DEF RevaluationsIInv, BooksAreRight

\* A payment and what it leaves, converted one by one, differ from the whole by a
\* unit at most.
LEMMA ConvertedInParts ==
  ASSUME NEW whole \in Int, NEW part \in Int, NEW rate \in Int
  PROVE  LET error == Converted(whole, rate) - Converted(part, rate) - Converted(whole - part, rate)
         IN  error \in Int /\ -1 <= error /\ error <= 1
<1> DEFINE a == part * rate
           b == (whole - part) * rate
           c == whole * rate
<1>1. a \in Int /\ b \in Int /\ c \in Int /\ c = a + b
  OBVIOUS
<1> HIDE DEF a, b, c
<1>2. /\ (a + 1) \div 2 \in Int /\ (b + 1) \div 2 \in Int /\ (c + 1) \div 2 \in Int
      /\ 2 * ((a + 1) \div 2) <= a + 1 /\ a + 1 <= 2 * ((a + 1) \div 2) + 1
      /\ 2 * ((b + 1) \div 2) <= b + 1 /\ b + 1 <= 2 * ((b + 1) \div 2) + 1
      /\ 2 * ((c + 1) \div 2) <= c + 1 /\ c + 1 <= 2 * ((c + 1) \div 2) + 1
  BY <1>1
<1> DEFINE x == (a + 1) \div 2
           y == (b + 1) \div 2
           z == (c + 1) \div 2
<1>3. Converted(whole, rate) = z /\ Converted(part, rate) = x /\ Converted(whole - part, rate) = y
  BY DEF Converted, a, b, c
<1>4. /\ x \in Int /\ y \in Int /\ z \in Int
      /\ 2 * x <= a + 1 /\ a <= 2 * x /\ 2 * y <= b + 1 /\ b <= 2 * y /\ 2 * z <= c + 1 /\ c <= 2 * z
  BY <1>1, <1>2
<1> HIDE DEF x, y, z
<1>5. -1 <= z - x - y /\ z - x - y <= 1 /\ z - x - y \in Int
  BY <1>1, <1>4
<1> QED BY <1>3, <1>5

\* A payment at the booked rate adds a unit of rounding at most.
LEMMA PayKeeps ==
  ASSUME RevaluationsIInv, NEW d \in ForeignInvoices, NEW amount \in PaidAmounts, Pay(d, amount)
  PROVE  RevaluationsIInv'
<1> DEFINE old == book[d]
           new == [old EXCEPT !.balance = @ - amount, !.payments = @ + 1]
           cleared == Converted(amount, old.rate)
<1>0. d \in Documents /\ d \notin Bills
  BY RevaluationsAssumption DEF Documents
<1>1. /\ amount <= old.balance /\ book' = [book EXCEPT ![d] = new]
      /\ account' = [account EXCEPT ![d] = @ - cleared]
      /\ valued' = [valued EXCEPT ![d] = None]
      /\ UNCHANGED <<entries, run, saving, raced>>
  BY <1>0 DEF Pay, RevaluationsIInv, RevaluationsTypeOK, Book
<1>2. amount \in Nat /\ amount \in Int /\ Rates \subseteq Int
  BY RevaluationsAssumption
<1>3. old \in Book /\ account[d] \in Int
  BY <1>0 DEF RevaluationsIInv, RevaluationsTypeOK
<1>4. /\ old.balance \in Nat /\ old.payments \in Nat /\ old.rate \in Rates \cup {None}
      /\ old.balance \in Int /\ old.balance - amount \in Nat /\ old.balance - amount \in Int
  <2>1. old.balance \in Nat /\ old.payments \in Nat /\ old.rate \in Rates \cup {None}
    BY <1>3 DEF Book
  <2> HIDE DEF old
  <2> QED BY <1>1, <1>2, <2>1
<1>5. old.rate \in Int
  <2>1. None \in Int
    BY DEF None
  <2> QED BY <1>2, <1>4, <2>1
<1>6. cleared \in Int
  BY <1>2, <1>5, ConvertedIsInt
<1>7. /\ new \in Book /\ new.rate = old.rate /\ new.balance = old.balance - amount
      /\ new.payments = old.payments + 1
  <2> HIDE DEF old
  <2>1. old.payments + 1 \in Nat
    BY <1>4
  <2> QED BY <1>3, <1>4, <2>1 DEF Book
<1> HIDE DEF new, cleared
<1>8. RevaluationsTypeOK'
  BY <1>0, <1>1, <1>3, <1>6, <1>7 DEF RevaluationsIInv, RevaluationsTypeOK
<1>savings. SavingsAreGood'
  <2>1. \A e \in Bills : book'[e] = book[e]
    BY <1>1, <1>0 DEF RevaluationsIInv, RevaluationsTypeOK, Documents
  <2> QED BY <1>1, <2>1, SavingsStayGood DEF RevaluationsIInv
<1>9. /\ book'[d] = new /\ account'[d] = account[d] - cleared /\ valued'[d] = None
      /\ \A e \in Documents \ {d} : /\ book'[e] = book[e] /\ account'[e] = account[e]
                                    /\ valued'[e] = valued[e]
  BY <1>1, <1>0 DEF RevaluationsIInv, RevaluationsTypeOK
<1>10. \A e \in Documents : book'[e].rate = book[e].rate
  BY <1>7, <1>9
<1>11. RunsAreGood'
  <2>1. ASSUME NEW r \in Requests PROVE GoodRun(run[r], book', entries, raced)
    <3>1. run[r] \in {NoRun} \cup Revaluing \cup Reversing /\ GoodRun(run[r], book, entries, raced)
      BY DEF RevaluationsIInv, RevaluationsTypeOK, RunsAreGood
    <3>2. \A e \in Documents : Issued(book, e) => Issued(book', e) /\ book'[e].rate = book[e].rate
      BY <1>10 DEF Issued
    <3> QED BY <3>1, <3>2, BooksKeepRunsGood
  <2> QED BY <1>1, <2>1 DEF RunsAreGood
<1>12. EntriesAreOfIssued' /\ OneInForce' /\ OnlyIssuedAreValued'
  <2>1. \A n \in DOMAIN entries : entries[n].doc \in Documents
    BY EntriesAreTyped DEF RevaluationsIInv, RevaluationsTypeOK, Entry
  <2>2. \A e \in Documents : Issued(book', e) <=> Issued(book, e)
    BY <1>10 DEF Issued
  <2>3. EntriesAreOfIssued'
    BY <1>1, <2>1, <2>2 DEF RevaluationsIInv, BooksAreRight, EntriesAreOfIssued
  <2>4. OnlyIssuedAreValued'
    BY <1>9, <2>2 DEF RevaluationsIInv, BooksAreRight, OnlyIssuedAreValued
  <2>5. OneInForce'
    BY <1>1 DEF RevaluationsIInv, BooksAreRight, OneInForce
  <2> QED BY <2>3, <2>4, <2>5
<1>13. AccountsAreNear'
  <2> SUFFICES ASSUME NEW e \in Documents \ raced
               PROVE  Near(e, Converted(book[e].balance, book[e].rate) + AdjustedBy(entries, e))'
    BY <1>1 DEF AccountsAreNear
  <2>1. Near(e, Converted(book[e].balance, book[e].rate) + AdjustedBy(entries, e))
    BY DEF RevaluationsIInv, BooksAreRight, AccountsAreNear
  <2>2. CASE e = d
    <3> DEFINE sum == AdjustedBy(entries, d)
               whole == Converted(old.balance, old.rate)
               rest == Converted(old.balance - amount, old.rate)
    <3>1. sum \in Int
      BY AdjustedByIsInt DEF RevaluationsIInv, RevaluationsTypeOK
    <3>2. whole \in Int /\ rest \in Int
      BY <1>2, <1>4, <1>5, ConvertedIsInt
    <3>3. -1 <= whole - cleared - rest /\ whole - cleared - rest <= 1
      BY <1>2, <1>4, <1>5, ConvertedInParts DEF cleared
    <3>4. /\ -old.payments <= account[d] - (whole + sum)
          /\ account[d] - (whole + sum) <= old.payments
      BY <2>1, <2>2 DEF Near
    <3>5. Converted(book'[d].balance, book'[d].rate) = rest
      BY <1>7, <1>9
    <3> HIDE DEF sum, whole, rest
    <3>6. /\ -(old.payments + 1) <= (account[d] - cleared) - (rest + sum)
          /\ (account[d] - cleared) - (rest + sum) <= old.payments + 1
      BY <1>3, <1>4, <1>6, <3>1, <3>2, <3>3, <3>4
    <3>7. AdjustedBy(entries, d)' = sum
      BY <1>1 DEF sum
    <3> QED BY <1>7, <1>9, <2>2, <3>5, <3>6, <3>7 DEF Near
  <2>3. CASE e # d
    BY <1>1, <1>9, <2>1, <2>3 DEF Near
  <2> QED BY <2>2, <2>3
<1>14. RevaluedToRate'
  <2> SUFFICES ASSUME NEW e \in Documents \ raced, valued'[e] # None
               PROVE  Near(e, Converted(book[e].balance, valued[e]))'
    BY <1>1 DEF RevaluedToRate
  <2>1. e # d
    BY <1>9
  <2>2. Near(e, Converted(book[e].balance, valued[e]))
    BY <1>9, <2>1 DEF RevaluationsIInv, BooksAreRight, RevaluedToRate
  <2> QED BY <1>9, <2>1, <2>2 DEF Near
<1> QED BY <1>8, <1>savings, <1>11, <1>12, <1>13, <1>14 DEF RevaluationsIInv, BooksAreRight

-----------------------------------------------------------------------------
(* Requests that hold a bill.                                              *)

\* A request that has no bill is good.
LEMMA NoSavingIsGood ==
  ASSUME NEW bk, NEW rc
  PROVE  GoodSaving(NoSaving, bk, rc)
BY DEF GoodSaving, NoSaving, ToIssue, IssuingBill, PayingBill

\* The phase of such a request tells what it holds.
LEMMA PhaseOfSaving ==
  ASSUME RevaluationsTypeOK, NEW r \in Requests
  PROVE  /\ saving[r].phase = "issue" => saving[r] \in ToIssue
         /\ saving[r].phase = "issuing" => saving[r] \in IssuingBill
         /\ saving[r].phase = "pay" => saving[r] \in PayingBill
<1>1. saving[r] \in {NoSaving} \cup ToIssue \cup IssuingBill \cup PayingBill
  BY DEF RevaluationsTypeOK
<1>2. CASE saving[r] = NoSaving
  BY <1>2 DEF NoSaving
<1>3. CASE saving[r] \in ToIssue
  <2>1. saving[r].phase = "issue"
    BY <1>3 DEF ToIssue
  <2> QED BY <1>3, <2>1
<1>4. CASE saving[r] \in IssuingBill
  <2>1. saving[r].phase = "issuing"
    BY <1>4 DEF IssuingBill
  <2> QED BY <1>4, <2>1
<1>5. CASE saving[r] \in PayingBill
  <2>1. saving[r].phase = "pay"
    BY <1>5 DEF PayingBill
  <2> QED BY <1>5, <2>1
<1> QED BY <1>1, <1>2, <1>3, <1>4, <1>5

\* A step that only changes such a request, to a good one, keeps the invariant.
LEMMA SavingStep ==
  ASSUME RevaluationsIInv, NEW r \in Requests, NEW state, SetSaving(r, state),
         state \in {NoSaving} \cup ToIssue \cup IssuingBill \cup PayingBill,
         GoodSaving(state, book, raced)
  PROVE  RevaluationsIInv'
<1>1. /\ saving' = [saving EXCEPT ![r] = state]
      /\ UNCHANGED <<book, account, entries, run, raced, valued>>
  BY DEF SetSaving
<1>2. RevaluationsTypeOK'
  BY <1>1 DEF RevaluationsIInv, RevaluationsTypeOK
<1>3. \A u \in Requests : saving'[u] = IF u = r THEN state ELSE saving[u]
  BY <1>1 DEF RevaluationsIInv, RevaluationsTypeOK
<1>4. SavingsAreGood'
  <2>1. \A u \in Requests : GoodSaving(saving'[u], book, raced)
    BY <1>3 DEF RevaluationsIInv, SavingsAreGood
  <2>2. book' = book /\ raced' = raced
    BY <1>1
  <2> QED BY <2>1, <2>2 DEF SavingsAreGood
<1>5. RunsAreGood'
  BY <1>1 DEF RevaluationsIInv, RunsAreGood
<1>6. BooksAreRight'
  BY <1>1 DEF RevaluationsIInv, BooksAreRight, EntriesAreOfIssued, OneInForce, AccountsAreNear,
    OnlyIssuedAreValued, RevaluedToRate, Near
<1> QED BY <1>2, <1>4, <1>5, <1>6 DEF RevaluationsIInv

\* A transaction that rolls back leaves nothing behind.
LEMMA RollbackKeeps ==
  ASSUME RevaluationsIInv, NEW r \in Requests, Rollback(r)
  PROVE  RevaluationsIInv'
<1>1. CASE SetRun(r, NoRun)
  BY <1>1, RunsRollBack
<1>2. CASE SetSaving(r, NoSaving)
  BY <1>2, NoSavingIsGood, SavingStep
<1> QED BY <1>1, <1>2 DEF Rollback

\* The bill is a draft when it is read.
LEMMA ReadToIssueBillKeeps ==
  ASSUME RevaluationsIInv, NEW r \in Requests, NEW d \in Bills, ReadToIssueBill(r, d)
  PROVE  RevaluationsIInv'
<1> DEFINE state == [phase |-> "issue", doc |-> d]
<1>1. SetSaving(r, state) /\ book[d].rate = None
  BY DEF ReadToIssueBill
<1>2. state \in ToIssue /\ state \notin IssuingBill /\ state \notin PayingBill
  BY DEF ToIssue, IssuingBill, PayingBill
<1>3. GoodSaving(state, book, raced)
  BY <1>1, <1>2 DEF GoodSaving, Issued
<1> QED BY <1>1, <1>2, <1>3, SavingStep

\* What save loads is the row, and a draft still unless another has ended.
LEMMA LoadToIssueBillKeeps ==
  ASSUME RevaluationsIInv, NEW r \in Requests, NEW rate \in Rates, LoadToIssueBill(r, rate)
  PROVE  RevaluationsIInv'
<1> DEFINE d == saving[r].doc
           state == [phase |-> "issuing", doc |-> d, rate |-> rate, loaded |-> book[d]]
<1>1. SetSaving(r, state) /\ saving[r].phase = "issue"
  BY DEF LoadToIssueBill, Holds
<1>2. saving[r] \in ToIssue /\ GoodSaving(saving[r], book, raced)
  BY <1>1, PhaseOfSaving DEF RevaluationsIInv, SavingsAreGood
<1>3. d \in Bills /\ d \in Documents /\ book[d] \in Book
  BY <1>2 DEF ToIssue, Documents, RevaluationsIInv, RevaluationsTypeOK
<1> HIDE DEF d
<1>4. state \in IssuingBill /\ state \notin ToIssue /\ state \notin PayingBill
  BY <1>3 DEF ToIssue, IssuingBill, PayingBill
<1>5. d \in raced \/ ~Issued(book, d)
  BY <1>2 DEF GoodSaving, d
<1>6. GoodSaving(state, book, raced)
  BY <1>4, <1>5 DEF GoodSaving, Issued
<1> QED BY <1>1, <1>4, <1>6, SavingStep

\* The bill is issued and its balance covers the payment when it is read.
LEMMA ReadToPayBillKeeps ==
  ASSUME RevaluationsIInv, NEW r \in Requests, NEW d \in Bills, NEW amount \in PaidAmounts,
         ReadToPayBill(r, d, amount)
  PROVE  RevaluationsIInv'
<1> DEFINE state == [phase |-> "pay", doc |-> d, amount |-> amount, copy |-> book[d]]
<1>1. SetSaving(r, state) /\ book[d].rate # None /\ amount <= book[d].balance
  BY DEF ReadToPayBill
<1>2. book[d] \in Book
  BY DEF Documents, RevaluationsIInv, RevaluationsTypeOK
<1>3. state \in PayingBill /\ state \notin ToIssue /\ state \notin IssuingBill
  BY <1>2 DEF ToIssue, IssuingBill, PayingBill
<1>4. GoodSaving(state, book, raced)
  BY <1>1, <1>3 DEF GoodSaving, Issued
<1> QED BY <1>1, <1>3, <1>4, SavingStep

\* A saved bill keeps the invariant if its account is near afterwards, unless others
\* hold it.
LEMMA SavedBillKeeps ==
  ASSUME RevaluationsIInv, NEW r \in Requests, NEW d \in Bills, Saved(r, d),
         NEW new \in Book, book' = [book EXCEPT ![d] = new], new.rate # None,
         NEW left \in Int, account' = [account EXCEPT ![d] = left],
         valued' = [valued EXCEPT ![d] = None],
         d \in raced \/ (Issued(book, d) => new.rate = book[d].rate),
         d \notin raced =>
           LET error == left - (Converted(new.balance, new.rate) + AdjustedBy(entries, d))
           IN  -new.payments <= error /\ error <= new.payments
  PROVE  RevaluationsIInv'
<1>1. /\ saving' = [saving EXCEPT ![r] = NoSaving]
      /\ raced' = raced \cup {e \in {d} : \E other \in Requests \ {r} : saving[other].doc = e}
      /\ entries' = entries /\ run' = run
  BY DEF Saved
<1>2. /\ d \in Documents /\ raced \subseteq raced' /\ raced' \in SUBSET Documents
      /\ \A e \in Documents \ {d} : e \in raced' <=> e \in raced
  BY <1>1 DEF Documents, RevaluationsIInv, RevaluationsTypeOK
<1>3. RevaluationsTypeOK'
  BY <1>1, <1>2 DEF RevaluationsIInv, RevaluationsTypeOK
<1>4. /\ book'[d] = new /\ account'[d] = left /\ valued'[d] = None
      /\ \A e \in Documents \ {d} : /\ book'[e] = book[e] /\ account'[e] = account[e]
                                    /\ valued'[e] = valued[e]
  BY <1>2 DEF RevaluationsIInv, RevaluationsTypeOK
<1>5. \A e \in Documents :
        Issued(book, e) => Issued(book', e) /\ (e \in raced' \/ book'[e].rate = book[e].rate)
  BY <1>2, <1>4 DEF Issued
<1>6. RunsAreGood'
  <2>1. ASSUME NEW u \in Requests PROVE GoodRun(run[u], book', entries, raced')
    <3>1. run[u] \in {NoRun} \cup Revaluing \cup Reversing /\ GoodRun(run[u], book, entries, raced)
      BY DEF RevaluationsIInv, RevaluationsTypeOK, RunsAreGood
    <3> QED BY <1>2, <1>5, <3>1, BooksKeepRunsGood
  <2> QED BY <1>1, <2>1 DEF RunsAreGood
<1>7. SavingsAreGood'
  <2>1. ASSUME NEW u \in Requests PROVE GoodSaving(saving'[u], book', raced')
    <3>1. CASE u = r
      <4>1. saving'[u] = NoSaving
        BY <1>1, <3>1 DEF RevaluationsIInv, RevaluationsTypeOK
      <4> QED BY <4>1, NoSavingIsGood
    <3>2. CASE u # r
      <4>1. saving'[u] = saving[u] /\ GoodSaving(saving[u], book, raced)
        BY <1>1, <3>2 DEF RevaluationsIInv, RevaluationsTypeOK, SavingsAreGood
      <4>2. saving[u] \in ToIssue \cup IssuingBill \cup PayingBill => saving[u].doc \in Documents
        BY DEF ToIssue, IssuingBill, PayingBill, Documents
      <4>3. saving[u].doc = d => saving[u].doc \in raced'
        BY <1>1, <3>2
      <4>4. saving[u].doc # d /\ saving[u].doc \in Documents =>
              book'[saving[u].doc] = book[saving[u].doc]
        BY <1>4
      <4>5. saving[u].doc \in Documents /\ Issued(book, saving[u].doc) => Issued(book', saving[u].doc)
        BY <1>5
      <4> QED BY <1>2, <4>1, <4>2, <4>3, <4>4, <4>5 DEF GoodSaving, Issued
    <3> QED BY <3>1, <3>2
  <2> QED BY <2>1 DEF SavingsAreGood
<1>8. EntriesAreOfIssued' /\ OneInForce' /\ OnlyIssuedAreValued'
  <2>1. \A n \in DOMAIN entries : entries[n].doc \in Documents
    BY EntriesAreTyped DEF RevaluationsIInv, RevaluationsTypeOK, Entry
  <2>2. EntriesAreOfIssued'
    BY <1>1, <1>5, <2>1 DEF RevaluationsIInv, BooksAreRight, EntriesAreOfIssued
  <2>3. OnlyIssuedAreValued'
    BY <1>4, <1>5 DEF RevaluationsIInv, BooksAreRight, OnlyIssuedAreValued
  <2>4. OneInForce'
    BY <1>1, <1>2 DEF RevaluationsIInv, BooksAreRight, OneInForce
  <2> QED BY <2>2, <2>3, <2>4
<1>9. AccountsAreNear'
  <2> SUFFICES ASSUME NEW e \in Documents, e \notin raced'
               PROVE  Near(e, Converted(book[e].balance, book[e].rate) + AdjustedBy(entries, e))'
    BY DEF AccountsAreNear
  <2>1. e \notin raced
    BY <1>2
  <2>2. CASE e = d
    BY <1>1, <1>4, <2>1, <2>2 DEF Near
  <2>3. CASE e # d
    <3>1. Near(e, Converted(book[e].balance, book[e].rate) + AdjustedBy(entries, e))
      BY <2>1 DEF RevaluationsIInv, BooksAreRight, AccountsAreNear
    <3> QED BY <1>1, <1>4, <2>3, <3>1 DEF Near
  <2> QED BY <2>2, <2>3
<1>10. RevaluedToRate'
  <2> SUFFICES ASSUME NEW e \in Documents, e \notin raced', valued'[e] # None
               PROVE  Near(e, Converted(book[e].balance, valued[e]))'
    BY DEF RevaluedToRate
  <2>1. e # d /\ e \notin raced
    BY <1>2, <1>4
  <2>2. Near(e, Converted(book[e].balance, valued[e]))
    BY <1>4, <2>1 DEF RevaluationsIInv, BooksAreRight, RevaluedToRate
  <2> QED BY <1>4, <2>1, <2>2 DEF Near
<1> QED BY <1>3, <1>6, <1>7, <1>8, <1>9, <1>10 DEF RevaluationsIInv, BooksAreRight

\* An issued bill stands in its account at the rate of the day.
LEMMA IssueBillKeeps ==
  ASSUME RevaluationsIInv, NEW r \in Requests, IssueBill(r)
  PROVE  RevaluationsIInv'
<1> DEFINE d == saving[r].doc
           loaded == saving[r].loaded
           rate == saving[r].rate
           old == book[d]
           newRate == IF loaded.rate = rate THEN old.rate ELSE rate
           newBalance == IF loaded.balance = Total[d] THEN old.balance ELSE Total[d]
           new == [rate |-> newRate, balance |-> newBalance, payments |-> old.payments]
           posted == Converted(Total[d], rate)
<1>1. /\ saving[r].phase = "issuing" /\ Saved(r, d)
      /\ book' = [book EXCEPT ![d] = new]
      /\ account' = [account EXCEPT ![d] = @ + posted]
      /\ valued' = [valued EXCEPT ![d] = None]
  BY DEF IssueBill, Holds
<1>2. saving[r] \in IssuingBill /\ GoodSaving(saving[r], book, raced)
  BY <1>1, PhaseOfSaving DEF RevaluationsIInv, SavingsAreGood
<1>3. d \in Bills /\ d \in Documents /\ rate \in Rates /\ loaded \in Book
  BY <1>2 DEF IssuingBill, Documents
<1>4. /\ loaded.rate # None => Issued(book, d)
      /\ d \in raced \/ (~Issued(book, d) /\ loaded = old)
  BY <1>2 DEF GoodSaving
<1>5. old \in Book /\ account[d] \in Int /\ book \in [Documents -> Book] /\ account \in [Documents -> Int]
  BY <1>3 DEF RevaluationsIInv, RevaluationsTypeOK
<1> HIDE DEF d, loaded, rate
<1>6. Total[d] \in Nat /\ Total[d] \in Int /\ Total[d] # 0 /\ rate # None
  BY <1>3, RevaluationsAssumption
<1>7. rate \in Int
  <2>1. Rates \subseteq Int
    BY RevaluationsAssumption
  <2> QED BY <1>3, <2>1
<1>8. posted \in Int
  BY <1>6, <1>7, ConvertedIsInt
<1>9. old.rate \in Rates \cup {None} /\ old.balance \in Nat /\ old.payments \in Nat
  BY <1>5 DEF Book
<1>10. newRate \in Rates /\ newRate # None /\ newBalance \in Nat
  <2>1. loaded.rate = rate => old.rate # None
    BY <1>4, <1>6 DEF Issued
  <2> HIDE DEF old
  <2> QED BY <1>3, <1>6, <1>9, <2>1
<1>11. /\ new \in Book /\ new.rate = newRate /\ new.balance = newBalance
       /\ new.payments = old.payments
  <2> HIDE DEF old, newRate, newBalance
  <2> QED BY <1>9, <1>10 DEF Book
<1> DEFINE left == account[d] + posted
<1>12. left \in Int /\ account' = [account EXCEPT ![d] = left]
  BY <1>1, <1>3, <1>5, <1>8
<1>13. ASSUME d \notin raced
       PROVE  LET error == left - (Converted(new.balance, new.rate) + AdjustedBy(entries, d))
              IN  -new.payments <= error /\ error <= new.payments
  <2>1. ~Issued(book, d) /\ loaded = old
    BY <1>4, <1>13
  <2>2. newRate = rate /\ newBalance = Total[d]
    BY <1>6, <2>1 DEF Issued
  <2>3. AdjustedBy(entries, d) = 0
    <3>1. InForce(entries, d) = {}
      BY <2>1 DEF InForce, RevaluationsIInv, BooksAreRight, EntriesAreOfIssued
    <3> QED BY <3>1, AdjustedByOne DEF RevaluationsIInv, RevaluationsTypeOK
  <2>4. Near(d, Converted(old.balance, old.rate) + 0)
    BY <1>3, <1>13, <2>3 DEF RevaluationsIInv, BooksAreRight, AccountsAreNear
  <2>5. Converted(old.balance, old.rate) = 0
    <3>1. old.rate = None /\ old.balance \in Int
      BY <1>9, <2>1 DEF Issued
    <3> HIDE DEF old
    <3>2. old.balance * 0 = 0
      BY <3>1
    <3> QED BY <3>1, <3>2 DEF Converted, None
  <2>6. -old.payments <= account[d] /\ account[d] <= old.payments
    BY <1>5, <2>4, <2>5 DEF Near
  <2>7. Converted(new.balance, new.rate) = posted
    BY <1>11, <2>2
  <2> HIDE DEF posted, new, old
  <2> QED BY <1>5, <1>8, <1>9, <1>11, <2>3, <2>6, <2>7
<1>14. new.rate # None /\ (d \in raced \/ (Issued(book, d) => new.rate = book[d].rate))
  BY <1>4, <1>10, <1>11
<1> HIDE DEF new, left
<1> QED BY <1>1, <1>3, <1>11, <1>12, <1>13, <1>14, SavedBillKeeps

\* So does a paid one at the rate it was booked at, but for a unit of rounding.
LEMMA PayBillKeeps ==
  ASSUME RevaluationsIInv, NEW r \in Requests, PayBill(r)
  PROVE  RevaluationsIInv'
<1> DEFINE d == saving[r].doc
           copy == saving[r].copy
           amount == saving[r].amount
           old == book[d]
           new == [rate |-> copy.rate, balance |-> copy.balance - amount,
                   payments |-> old.payments + 1]
           cleared == Converted(amount, copy.rate)
           left == account[d] - cleared
<1>1. /\ saving[r].phase = "pay" /\ Saved(r, d)
      /\ book' = [book EXCEPT ![d] = [rate |-> copy.rate, balance |-> copy.balance - amount,
                                      payments |-> @.payments + 1]]
      /\ account' = [account EXCEPT ![d] = @ - cleared]
      /\ valued' = [valued EXCEPT ![d] = None]
  BY DEF PayBill, Holds
<1>2. saving[r] \in PayingBill /\ GoodSaving(saving[r], book, raced)
  BY <1>1, PhaseOfSaving DEF RevaluationsIInv, SavingsAreGood
<1>3. d \in Bills /\ d \in Documents /\ amount \in PaidAmounts /\ copy \in Book
  BY <1>2 DEF PayingBill, Documents
<1>4. /\ amount <= copy.balance /\ copy.rate # None /\ Issued(book, d)
      /\ d \in raced \/ copy = old
  BY <1>2 DEF GoodSaving
<1>5. old \in Book /\ account[d] \in Int /\ book \in [Documents -> Book] /\ account \in [Documents -> Int]
  BY <1>3 DEF RevaluationsIInv, RevaluationsTypeOK
<1> HIDE DEF d, copy, amount
<1>6. amount \in Nat /\ amount \in Int /\ Rates \subseteq Int
  BY <1>3, RevaluationsAssumption
<1>7. /\ copy.rate \in Rates /\ copy.rate \in Int /\ copy.balance \in Nat /\ copy.balance \in Int
      /\ old.payments \in Nat /\ old.payments + 1 \in Nat
  <2> HIDE DEF old
  <2>1. copy.rate \in Rates /\ copy.balance \in Nat /\ old.payments \in Nat
    BY <1>3, <1>4, <1>5 DEF Book
  <2>2. copy.rate \in Int
    BY <1>6, <2>1
  <2>3. copy.balance \in Int /\ old.payments + 1 \in Nat
    BY <2>1
  <2> QED BY <2>1, <2>2, <2>3
<1>8. copy.balance - amount \in Nat /\ copy.balance - amount \in Int
  BY <1>4, <1>6, <1>7
<1>9. cleared \in Int
  BY <1>6, <1>7, ConvertedIsInt
<1>10. /\ new \in Book /\ new.rate = copy.rate /\ new.balance = copy.balance - amount
       /\ new.payments = old.payments + 1
  <2> HIDE DEF old
  <2> QED BY <1>7, <1>8 DEF Book
<1>11. book' = [book EXCEPT ![d] = new]
  BY <1>1
<1>12. left \in Int /\ account' = [account EXCEPT ![d] = left]
  BY <1>1, <1>5, <1>9
<1>13. ASSUME d \notin raced
       PROVE  LET error == left - (Converted(new.balance, new.rate) + AdjustedBy(entries, d))
              IN  -new.payments <= error /\ error <= new.payments
  <2> DEFINE sum == AdjustedBy(entries, d)
             whole == Converted(copy.balance, copy.rate)
             rest == Converted(copy.balance - amount, copy.rate)
  <2>1. sum \in Int
    BY AdjustedByIsInt DEF RevaluationsIInv, RevaluationsTypeOK
  <2>2. whole \in Int /\ rest \in Int
    BY <1>7, <1>8, ConvertedIsInt
  <2>3. -1 <= whole - cleared - rest /\ whole - cleared - rest <= 1
    BY <1>6, <1>7, ConvertedInParts
  <2>4. Near(d, whole + sum)
    BY <1>3, <1>4, <1>13 DEF RevaluationsIInv, BooksAreRight, AccountsAreNear
  <2>5. -old.payments <= account[d] - (whole + sum) /\ account[d] - (whole + sum) <= old.payments
    BY <2>4 DEF Near
  <2>6. Converted(new.balance, new.rate) = rest
    BY <1>10
  <2> HIDE DEF sum, whole, rest, cleared, new, old
  <2>7. /\ -(old.payments + 1) <= left - (rest + sum) /\ left - (rest + sum) <= old.payments + 1
    BY <1>5, <1>7, <1>9, <2>1, <2>2, <2>3, <2>5
  <2> QED BY <1>10, <2>6, <2>7 DEF sum
<1>14. new.rate # None /\ (d \in raced \/ (Issued(book, d) => new.rate = book[d].rate))
  BY <1>4, <1>10
<1> HIDE DEF new, left
<1> QED BY <1>1, <1>3, <1>10, <1>11, <1>12, <1>13, <1>14, SavedBillKeeps

-----------------------------------------------------------------------------
(* A revaluation, or a manual reversal, ends.                              *)

\* The entries it leaves: those marked, and its own behind them.
LEMMA EntriesOfEnd ==
  ASSUME entries \in Seq(Entry), NEW ns, NEW new \in Seq(Entry),
         entries' = Marked(ns) \o new
  PROVE  /\ entries' \in Seq(Entry)
         /\ DOMAIN entries' = DOMAIN entries \cup {Len(entries) + n : n \in DOMAIN new}
         /\ \A n \in DOMAIN new :
              Len(entries) + n \notin DOMAIN entries /\ entries'[Len(entries) + n] = new[n]
         /\ \A n \in DOMAIN entries :
              /\ entries'[n].doc = entries[n].doc /\ entries'[n].amount = entries[n].amount
              /\ n \in ns => entries'[n].reversals # 0
              /\ n \notin ns => entries'[n].reversals = entries[n].reversals
<1> DEFINE marked == Marked(ns)
<1>1. /\ Len(entries) \in Nat /\ DOMAIN entries = 1 .. Len(entries)
      /\ \A n \in DOMAIN entries : entries[n] \in Entry
  BY EntriesAreTyped
<1>2. DOMAIN marked = 1 .. Len(entries)
  BY <1>1 DEF Marked
<1>3. ASSUME NEW n \in 1 .. Len(entries)
      PROVE  /\ marked[n] \in Entry
             /\ marked[n].doc = entries[n].doc /\ marked[n].amount = entries[n].amount
             /\ n \in ns => marked[n].reversals # 0
             /\ n \notin ns => marked[n].reversals = entries[n].reversals
  <2>1. entries[n] \in Entry
    BY <1>1
  <2>2. CASE n \in ns
    <3> DEFINE e == entries[n]
               more == [e EXCEPT !.reversals = @ + 1]
    <3>1. marked[n] = more
      BY <1>1, <2>2 DEF Marked
    <3>2. e.reversals \in Nat /\ e.doc \in Documents /\ e.amount \in Int
      BY <2>1 DEF Entry
    <3>3. e.reversals + 1 \in Nat /\ e.reversals + 1 # 0
      BY <3>2
    <3>4. /\ more \in Entry /\ more.doc = e.doc /\ more.amount = e.amount
          /\ more.reversals = e.reversals + 1
      BY <2>1, <3>3 DEF Entry
    <3> QED BY <2>2, <3>1, <3>3, <3>4
  <2>3. CASE n \notin ns
    <3>1. marked[n] = entries[n]
      BY <1>1, <2>3 DEF Marked
    <3> QED BY <2>1, <2>3, <3>1
  <2> QED BY <2>2, <2>3
<1> HIDE DEF marked
<1>4. marked = [n \in 1 .. Len(entries) |-> marked[n]]
  <2>1. marked = [n \in DOMAIN marked |-> marked[n]]
    BY DEF marked, Marked
  <2> QED BY <1>2, <2>1
<1>5. marked \in Seq(Entry) /\ Len(marked) = Len(entries)
  <2>1. \A n \in 1 .. Len(entries) : marked[n] \in Entry
    BY <1>3
  <2>2. marked \in [1 .. Len(entries) -> Entry]
    BY <1>4, <2>1
  <2>3. marked \in Seq(Entry)
    <3>1. marked \in UNION {[1 .. n -> Entry] : n \in Nat}
      BY <1>1, <2>2
    <3> QED BY Zenon, <3>1, SeqDef
  <2> QED BY <1>1, <1>2, <2>3, LenProperties
<1>6. /\ entries' \in Seq(Entry) /\ Len(entries') = Len(entries) + Len(new)
      /\ \A n \in 1 .. Len(entries) + Len(new) :
           entries'[n] = IF n <= Len(entries) THEN marked[n] ELSE new[n - Len(entries)]
  <2>1. entries' = marked \o new
    BY DEF marked
  <2>2. /\ marked \o new \in Seq(Entry) /\ Len(marked \o new) = Len(marked) + Len(new)
        /\ \A n \in 1 .. Len(marked) + Len(new) :
             (marked \o new)[n] = IF n <= Len(marked) THEN marked[n] ELSE new[n - Len(marked)]
    BY <1>5, ConcatProperties
  <2> QED BY <1>5, <2>1, <2>2
<1>7. Len(new) \in Nat /\ DOMAIN new = 1 .. Len(new) /\ DOMAIN entries' = 1 .. Len(entries) + Len(new)
  BY <1>6, LenProperties
<1>8. \A n \in DOMAIN entries : entries'[n] = marked[n]
  BY <1>1, <1>6, <1>7
<1>9. ASSUME NEW n \in DOMAIN new
      PROVE  Len(entries) + n \notin DOMAIN entries /\ entries'[Len(entries) + n] = new[n]
  <2>1. /\ Len(entries) + n \in 1 .. Len(entries) + Len(new) /\ ~(Len(entries) + n <= Len(entries))
        /\ (Len(entries) + n) - Len(entries) = n
    BY <1>1, <1>7
  <2> QED BY <1>1, <1>6, <2>1
<1>10. DOMAIN entries' = DOMAIN entries \cup {Len(entries) + n : n \in DOMAIN new}
  <2>1. ASSUME NEW m \in DOMAIN entries', m \notin DOMAIN entries
        PROVE  m \in {Len(entries) + n : n \in DOMAIN new}
    <3>1. m - Len(entries) \in DOMAIN new /\ m = Len(entries) + (m - Len(entries))
      BY <1>1, <1>7, <2>1
    <3> QED BY <3>1
  <2>2. DOMAIN entries \subseteq DOMAIN entries'
    BY <1>1, <1>7
  <2>3. \A n \in DOMAIN new : Len(entries) + n \in DOMAIN entries'
    BY <1>1, <1>7
  <2> QED BY <2>1, <2>2, <2>3
<1>11. ASSUME NEW n \in DOMAIN entries
       PROVE  /\ entries'[n].doc = entries[n].doc /\ entries'[n].amount = entries[n].amount
              /\ n \in ns => entries'[n].reversals # 0
              /\ n \notin ns => entries'[n].reversals = entries[n].reversals
  BY <1>1, <1>3, <1>8
<1> QED BY <1>6, <1>9, <1>10, <1>11

\* Documents that two requests have read are raced once one of them ends.
LEMMA ReadByTwoIsRaced ==
  ASSUME NEW r \in Requests, NEW u \in Requests, u # r,
         NEW d \in Reading(r), ReadDoc(run[u], d)
  PROVE  d \in Raced(r)
BY DEF Raced, Reading, ReadDoc

\* Ending one request keeps the runs of the others good.
LEMMA EndKeepsRuns ==
  ASSUME RevaluationsIInv, NEW r \in Requests,
         entries' \in Seq(Entry), Grew(entries, entries', Reading(r)),
         raced' = Raced(r), book' = book, run' = [run EXCEPT ![r] = NoRun]
  PROVE  RunsAreGood'
<1>1. ASSUME NEW u \in Requests PROVE GoodRun(run'[u], book', entries', raced')
  <2>1. CASE u = r
    <3>1. run'[u] = NoRun
      BY <2>1 DEF RevaluationsIInv, RevaluationsTypeOK
    <3> QED BY <3>1, NoRunIsGood
  <2>2. CASE u # r
    <3>1. run'[u] = run[u] /\ GoodRun(run[u], book, entries, raced)
      BY <2>2 DEF RevaluationsIInv, RevaluationsTypeOK, RunsAreGood
    <3>2. raced \subseteq raced' /\ entries \in Seq(Entry)
      BY DEF Raced, RevaluationsIInv, RevaluationsTypeOK
    <3>3. \A d \in Reading(r) : ReadDoc(run[u], d) => d \in raced'
      BY <2>2, ReadByTwoIsRaced
    <3>4. GoodRun(run[u], book, entries', raced')
      BY <3>1, <3>2, <3>3, OthersStayGood
    <3> QED BY <3>1, <3>4
  <2> QED BY <2>1, <2>2
<1> QED BY <1>1 DEF RunsAreGood

\* What a revaluation changes in an account, in the terms of the invariant.
LEMMA ChangeIsSums ==
  ASSUME NEW r \in Requests, NEW d
  PROVE  Change(r, d) = SumOn(AdjustmentsIn(run[r].posted), NewOf(run[r], d))
                          - SumOn(AdjustmentsIn(entries), {n \in run[r].reversed : entries[n].doc = d})
<1>1. Sum({n \in run[r].reversed : entries[n].doc = d})
        = SumOn(AdjustmentsIn(entries), {n \in run[r].reversed : entries[n].doc = d})
  BY Zenon DEF Sum, SumOn, AdjustmentsIn
<1> QED BY Zenon, <1>1 DEF Change, SumOn, AdjustmentsIn, NewOf

\* The state in which a revaluation commits: all lines are behind it.
CommittedRun(r) ==
  /\ run[r] \in Revaluing /\ run[r].todo = {}
  /\ GoodList(run[r], book) /\ GoodEntries(run[r], entries, raced)
  /\ GoodLines(run[r], book, entries, raced)
  /\ entries' = Marked(run[r].reversed) \o run[r].posted
  /\ account' = [d \in Documents |-> account[d] + Change(r, d)]
  /\ book' = book

\* Its entries are whole amounts, and those it reverses exist.
LEMMA CommittedEntries ==
  ASSUME RevaluationsIInv, NEW r \in Requests, CommittedRun(r)
  PROVE  /\ entries' \in Seq(Entry)
         /\ Grew(entries, entries', Reading(r))
         /\ run[r].posted \in Seq(Entry) /\ run[r].reversed \subseteq DOMAIN entries
         /\ \A n \in DOMAIN entries' \ DOMAIN entries : ReadDoc(run[r], entries'[n].doc)
         /\ \A d : InForce(entries', d) =
                     (InForce(entries, d) \ run[r].reversed)
                       \cup {Len(entries) + n : n \in NewOf(run[r], d)}
<1> DEFINE ns == run[r].reversed
           new == run[r].posted
<1>1. /\ entries \in Seq(Entry) /\ new \in Seq(Entry) /\ entries' = Marked(ns) \o new
      /\ \A n \in ns : n \in DOMAIN entries /\ ReadDoc(run[r], entries[n].doc)
      /\ \A n \in DOMAIN new : ReadDoc(run[r], new[n].doc) /\ new[n].reversals = 0
  BY DEF CommittedRun, Revaluing, GoodEntries, Reversible, RevaluationsIInv, RevaluationsTypeOK
<1> HIDE DEF ns, new
<1>2. /\ entries' \in Seq(Entry)
      /\ DOMAIN entries' = DOMAIN entries \cup {Len(entries) + n : n \in DOMAIN new}
      /\ \A n \in DOMAIN new :
           Len(entries) + n \notin DOMAIN entries /\ entries'[Len(entries) + n] = new[n]
      /\ \A n \in DOMAIN entries :
           /\ entries'[n].doc = entries[n].doc /\ entries'[n].amount = entries[n].amount
           /\ n \in ns => entries'[n].reversals # 0
           /\ n \notin ns => entries'[n].reversals = entries[n].reversals
  BY <1>1, EntriesOfEnd
<1>3. \A d : ReadDoc(run[r], d) <=> d \in Reading(r)
  BY DEF ReadDoc, Reading
<1>4. \A n \in DOMAIN entries' \ DOMAIN entries : ReadDoc(run[r], entries'[n].doc)
  BY <1>1, <1>2
<1>5. Grew(entries, entries', Reading(r))
  BY <1>1, <1>2, <1>3, <1>4 DEF Grew
<1>6. ASSUME NEW d
      PROVE  InForce(entries', d) =
               (InForce(entries, d) \ ns) \cup {Len(entries) + n : n \in NewOf(run[r], d)}
  <2>1. ASSUME NEW m \in InForce(entries', d), m \in DOMAIN entries
        PROVE  m \in InForce(entries, d) \ ns
    BY <1>2, <2>1 DEF InForce
  <2>2. ASSUME NEW m \in InForce(entries', d), m \notin DOMAIN entries
        PROVE  m \in {Len(entries) + n : n \in NewOf(run[r], d)}
    <3>1. PICK n \in DOMAIN new : m = Len(entries) + n
      BY <1>2, <2>2 DEF InForce
    <3>2. new[n].doc = d
      BY <1>2, <2>2, <3>1 DEF InForce
    <3> QED BY <3>1, <3>2 DEF NewOf, new
  <2>3. ASSUME NEW m \in InForce(entries, d) \ ns
        PROVE  m \in InForce(entries', d)
    BY <1>2, <2>3 DEF InForce
  <2>4. ASSUME NEW n \in NewOf(run[r], d)
        PROVE  Len(entries) + n \in InForce(entries', d)
    <3>1. n \in DOMAIN new /\ new[n].doc = d
      BY DEF NewOf, new
    <3> QED BY <1>1, <1>2, <3>1 DEF InForce
  <2> QED BY <2>1, <2>2, <2>3, <2>4
<1> QED BY <1>1, <1>2, <1>4, <1>5, <1>6 DEF ns, new

\* A document it did not read keeps its entries and its account.
LEMMA CommitElsewhere ==
  ASSUME RevaluationsIInv, NEW r \in Requests, CommittedRun(r),
         NEW d \in Documents, ~ReadDoc(run[r], d)
  PROVE  /\ InForce(entries', d) = InForce(entries, d)
         /\ AdjustedBy(entries', d) = AdjustedBy(entries, d)
         /\ account'[d] = account[d]
<1>1. d \notin Reading(r)
  BY DEF Reading, ReadDoc
<1>2. InForce(entries', d) = InForce(entries, d) /\ AdjustedBy(entries', d) = AdjustedBy(entries, d)
  BY <1>1, CommittedEntries, OthersAreAdjustedAlike DEF RevaluationsIInv, RevaluationsTypeOK
<1>3. NewOf(run[r], d) = {} /\ {n \in run[r].reversed : entries[n].doc = d} = {}
  BY DEF CommittedRun, GoodEntries, Reversible, NewOf
<1>4. Change(r, d) = 0 - 0
  BY <1>3, ChangeIsSums, SumEmpty
<1>5. account[d] \in Int /\ account'[d] = account[d] + Change(r, d)
  BY DEF CommittedRun, RevaluationsIInv, RevaluationsTypeOK
<1> QED BY <1>2, <1>4, <1>5

\* A document it read, and nobody else ended with, has at most one adjustment, which
\* is what its account changes by, and stands at the rate of the run.
LEMMA CommitByLine ==
  ASSUME RevaluationsIInv, NEW r \in Requests, CommittedRun(r),
         NEW line \in run[r].read, line.doc \notin raced
  PROVE  LET d == line.doc
         IN  /\ \A m, n \in InForce(entries', d) : m = n
             /\ account'[d] - AdjustedBy(entries', d) = account[d] - AdjustedBy(entries, d)
             /\ BookedIn(book, line) + AdjustedBy(entries', d) = TargetOf(run[r], line)
<1> DEFINE d == line.doc
           state == run[r]
           about == {n \in state.reversed : entries[n].doc = d}
<1>1. state \in Revaluing /\ line \in Listed /\ d \in Documents
  BY DEF CommittedRun, Revaluing, Listed
<1>2. entries \in Seq(Entry) /\ entries' \in Seq(Entry) /\ state.posted \in Seq(Entry)
  BY CommittedEntries DEF RevaluationsIInv, RevaluationsTypeOK
<1>3. /\ TargetOf(state, line) \in Int /\ BookedIn(book, line) \in Int
      /\ account[d] \in Int /\ AdjustedBy(entries, d) \in Int /\ AdjustedBy(entries', d) \in Int
  BY <1>1, <1>2, ValuesAreInt, AdjustedByIsInt DEF RevaluationsIInv, RevaluationsTypeOK
<1>4. account'[d] = account[d] + Change(r, d)
  BY <1>1 DEF CommittedRun
<1>5. Change(r, d) = SumOn(AdjustmentsIn(state.posted), NewOf(state, d))
                       - SumOn(AdjustmentsIn(entries), about)
  BY ChangeIsSums
<1>6. InForce(entries', d) =
        (InForce(entries, d) \ state.reversed) \cup {Len(entries) + n : n \in NewOf(state, d)}
  BY CommittedEntries
<1>7. Kept(state, line, book, entries) \/ Revalued(state, line, book, entries)
  BY DEF CommittedRun, GoodLines
<1>8. \A m, n \in InForce(entries, d) : m = n
  BY <1>1 DEF RevaluationsIInv, BooksAreRight, OneInForce
<1> HIDE DEF d, state
<1>9. CASE Kept(state, line, book, entries)
  <2>1. about = {} /\ NewOf(state, d) = {}
    BY <1>9 DEF Kept, NoChange, d
  <2>2. \A n \in InForce(entries, d) : n \notin state.reversed
    BY <2>1 DEF InForce
  <2>3. InForce(entries', d) = InForce(entries, d)
    BY <1>6, <2>1, <2>2
  <2>4. AdjustedBy(entries', d) = AdjustedBy(entries, d)
    <3>1. \A n \in InForce(entries, d) : AdjustmentsIn(entries')[n] = AdjustmentsIn(entries)[n]
      <4>1. InForce(entries, d) \subseteq DOMAIN entries
        BY DEF InForce
      <4>2. Grew(entries, entries', Reading(r))
        BY CommittedEntries
      <4> QED BY <1>2, <4>1, <4>2, EntriesAreTyped DEF Grew
    <3>2. IsFiniteSet(InForce(entries, d))
      BY <1>2, EntriesAreTyped, FS_Subset DEF InForce
    <3> QED BY <2>3, <3>1, <3>2, SumAgree DEF AdjustedBy
  <2>5. Change(r, d) = 0 - 0
    BY <1>5, <2>1, SumEmpty
  <2>6. BookedIn(book, line) + AdjustedBy(entries, d) = TargetOf(state, line)
    BY <1>9 DEF Kept, d
  <2>7. account'[d] - AdjustedBy(entries', d) = account[d] - AdjustedBy(entries, d)
    BY <1>3, <1>4, <2>4, <2>5
  <2> QED BY <1>8, <2>3, <2>4, <2>6, <2>7 DEF d, state
<1>10. CASE Revalued(state, line, book, entries)
  <2>1. InForce(entries, d) \subseteq state.reversed
    BY <1>10 DEF Revalued, d
  <2>2. about = InForce(entries, d)
    <3>1. \A n \in state.reversed : Reversible(state, n, entries, raced)
      BY DEF CommittedRun, GoodEntries, state
    <3>2. d \notin raced
      BY DEF d
    <3> QED BY <2>1, <3>1, <3>2 DEF Reversible, InForce
  <2>3. InForce(entries', d) = {Len(entries) + n : n \in NewOf(state, d)}
    BY <1>6, <2>1
  <2>4. Change(r, d) = SumOn(AdjustmentsIn(state.posted), NewOf(state, d)) - AdjustedBy(entries, d)
    BY <1>5, <2>2 DEF AdjustedBy
  <2> HIDE DEF about
  <2>5. CASE NewOf(state, d) = {} /\ TargetOf(state, line) = BookedIn(book, line)
    <3>1. InForce(entries', d) = {}
      BY <2>3, <2>5
    <3>2. AdjustedBy(entries', d) = 0
      BY <1>2, <3>1, AdjustedByOne
    <3>3. SumOn(AdjustmentsIn(state.posted), NewOf(state, d)) = 0
      BY <2>5, SumEmpty
    <3>4. account'[d] - AdjustedBy(entries', d) = account[d] - AdjustedBy(entries, d)
      BY <1>3, <1>4, <2>4, <3>2, <3>3
    <3>5. BookedIn(book, line) + AdjustedBy(entries', d) = TargetOf(state, line)
      BY <1>3, <2>5, <3>2
    <3> QED BY <3>1, <3>4, <3>5 DEF d, state
  <2>6. ASSUME NEW n \in DOMAIN state.posted, NewOf(state, d) = {n},
               state.posted[n].amount = TargetOf(state, line) - BookedIn(book, line)
        PROVE  /\ \A k, m \in InForce(entries', d) : k = m
               /\ account'[d] - AdjustedBy(entries', d) = account[d] - AdjustedBy(entries, d)
               /\ BookedIn(book, line) + AdjustedBy(entries', d) = TargetOf(state, line)
    <3> DEFINE amount == state.posted[n].amount
    <3>1. InForce(entries', d) = {Len(entries) + n}
      BY <2>3, <2>6
    <3>2. entries'[Len(entries) + n] = state.posted[n]
      <4>1. entries' = Marked(state.reversed) \o state.posted
        BY DEF CommittedRun, state
      <4> QED BY <1>2, <4>1, EntriesOfEnd
    <3>3. AdjustedBy(entries', d) = amount
      BY <1>2, <3>1, <3>2, AdjustedByOne
    <3>4. /\ AdjustmentsIn(state.posted)[n] = amount /\ amount \in Int
      BY <1>2, EntriesAreTyped
    <3>5. SumOn(AdjustmentsIn(state.posted), {n}) = amount
      <4>1. SumOn(AdjustmentsIn(state.posted), {}) = 0 /\ IsFiniteSet({}) /\ n \notin {}
        BY SumEmpty, FS_EmptySet
      <4>2. SumOn(AdjustmentsIn(state.posted), {} \cup {n}) =
              AdjustmentsIn(state.posted)[n] + SumOn(AdjustmentsIn(state.posted), {})
        BY <3>4, <4>1, SumAdd
      <4>3. {} \cup {n} = {n}
        OBVIOUS
      <4> QED BY <3>4, <4>1, <4>2, <4>3
    <3>6. Change(r, d) = amount - AdjustedBy(entries, d)
      BY <2>4, <2>6, <3>5
    <3>7. amount = TargetOf(state, line) - BookedIn(book, line)
      BY <2>6
    <3> HIDE DEF amount
    <3>8. account'[d] - AdjustedBy(entries', d) = account[d] - AdjustedBy(entries, d)
      BY <1>3, <1>4, <3>3, <3>4, <3>6
    <3>9. BookedIn(book, line) + AdjustedBy(entries', d) = TargetOf(state, line)
      BY <1>3, <3>3, <3>4, <3>7
    <3> QED BY <3>1, <3>8, <3>9
  <2> QED BY <1>10, <2>5, <2>6 DEF Revalued, d, state
<1> QED BY <1>7, <1>9, <1>10

\* What it changes in an account is a whole amount.
LEMMA ChangeIsInt ==
  ASSUME RevaluationsIInv, NEW r \in Requests, CommittedRun(r), NEW d
  PROVE  Change(r, d) \in Int
<1> DEFINE about == {n \in run[r].reversed : entries[n].doc = d}
<1>1. /\ run[r].posted \in Seq(Entry) /\ run[r].reversed \subseteq DOMAIN entries
      /\ entries \in Seq(Entry)
  BY CommittedEntries DEF RevaluationsIInv, RevaluationsTypeOK
<1>2. NewOf(run[r], d) \subseteq DOMAIN run[r].posted /\ about \subseteq DOMAIN entries
  BY <1>1 DEF NewOf
<1> HIDE DEF about
<1>3. /\ IsFiniteSet(NewOf(run[r], d))
      /\ \A n \in NewOf(run[r], d) : AdjustmentsIn(run[r].posted)[n] \in Int
  BY <1>1, <1>2, EntriesAreTyped, FS_Subset
<1>4. IsFiniteSet(about) /\ \A n \in about : AdjustmentsIn(entries)[n] \in Int
  BY <1>1, <1>2, EntriesAreTyped, FS_Subset
<1>5. /\ SumOn(AdjustmentsIn(run[r].posted), NewOf(run[r], d)) \in Int
      /\ SumOn(AdjustmentsIn(entries), about) \in Int
  BY <1>3, <1>4, SumInt
<1>6. Change(r, d) = SumOn(AdjustmentsIn(run[r].posted), NewOf(run[r], d))
                       - SumOn(AdjustmentsIn(entries), about)
  BY ChangeIsSums DEF about
<1> QED BY <1>5, <1>6

\* A revaluation that commits leaves every document that nobody raced it for with one
\* adjustment, and at its rate if the balance it read is still the balance.
LEMMA CommitKeeps ==
  ASSUME RevaluationsIInv, NEW r \in Requests, CommitRun(r)
  PROVE  RevaluationsIInv'
<1> DEFINE state == run[r]
           current(d) == [doc |-> d, balance |-> book[d].balance]
           values == [d \in Documents |->
                        IF current(d) \in state.read THEN state.rate
                        ELSE IF d \in Reading(r) THEN None ELSE valued[d]]
<1>1. /\ state.phase = "next" /\ state.todo = {}
      /\ entries' = Marked(state.reversed) \o state.posted
      /\ account' = [d \in Documents |-> account[d] + Change(r, d)]
      /\ valued' = values /\ raced' = Raced(r)
      /\ run' = [run EXCEPT ![r] = NoRun] /\ book' = book /\ saving' = saving
  BY DEF CommitRun, In
<1>2. /\ state \in Revaluing /\ GoodList(state, book) /\ GoodEntries(state, entries, raced)
      /\ GoodLines(state, book, entries, raced)
  BY <1>1, RevaluingIsGood
<1>3. CommittedRun(r)
  BY <1>1, <1>2 DEF CommittedRun
<1>4. /\ entries' \in Seq(Entry) /\ Grew(entries, entries', Reading(r))
      /\ \A n \in DOMAIN entries' \ DOMAIN entries : ReadDoc(state, entries'[n].doc)
  BY <1>3, CommittedEntries
<1>5. /\ account \in [Documents -> Int] /\ book \in [Documents -> Book]
      /\ valued \in [Documents -> Rates \cup {None}] /\ raced \subseteq Documents
      /\ run \in [Requests -> {NoRun} \cup Revaluing \cup Reversing]
      /\ saving \in [Requests -> {NoSaving} \cup ToIssue \cup IssuingBill \cup PayingBill]
      /\ entries \in Seq(Entry)
  BY DEF RevaluationsIInv, RevaluationsTypeOK
<1>6. state.rate \in Rates /\ Reading(r) \subseteq Documents
  BY <1>2 DEF Revaluing, Listed, Reading
<1>7. \A d \in Documents :
        /\ valued'[d] = IF current(d) \in state.read THEN state.rate
                        ELSE IF d \in Reading(r) THEN None ELSE valued[d]
        /\ account'[d] = account[d] + Change(r, d) /\ account'[d] \in Int
  <2>1. \A d \in Documents : Change(r, d) \in Int
    BY <1>3, ChangeIsInt
  <2> QED BY <1>1, <1>5, <2>1
<1>8. /\ \A d : ReadDoc(state, d) <=> d \in Reading(r)
      /\ \A d : current(d) \in state.read => ReadDoc(state, d)
  BY DEF ReadDoc, Reading
<1> HIDE DEF values, current
<1>9. RevaluationsTypeOK'
  <2>1. account' \in [Documents -> Int]
    BY <1>1, <1>7
  <2>2. valued' \in [Documents -> Rates \cup {None}]
    <3>1. \A d \in Documents : values[d] \in Rates \cup {None}
      BY <1>1, <1>5, <1>6, <1>7
    <3> QED BY <1>1, <3>1 DEF values
  <2>3. raced' \in SUBSET Documents
    BY <1>1, <1>5, <1>6 DEF Raced
  <2>4. run' \in [Requests -> {NoRun} \cup Revaluing \cup Reversing]
    BY <1>1, <1>5
  <2> QED BY <1>1, <1>4, <1>5, <2>1, <2>2, <2>3, <2>4 DEF RevaluationsTypeOK
<1>10. RunsAreGood'
  BY <1>1, <1>4, EndKeepsRuns
<1>11. raced \subseteq raced'
  BY <1>1 DEF Raced
<1>savings. SavingsAreGood'
  BY <1>1, <1>11, SavingsStayGood DEF RevaluationsIInv
<1>12. EntriesAreOfIssued'
  <2>1. ASSUME NEW n \in DOMAIN entries' PROVE Issued(book, entries'[n].doc)
    <3>1. CASE n \in DOMAIN entries
      BY <1>4, <3>1 DEF Grew, RevaluationsIInv, BooksAreRight, EntriesAreOfIssued
    <3>2. CASE n \notin DOMAIN entries
      BY <1>2, <1>4, <3>2 DEF GoodList, ReadDoc
    <3> QED BY <3>1, <3>2
  <2> QED BY <1>1, <2>1 DEF EntriesAreOfIssued
<1>13. OnlyIssuedAreValued'
  <2> SUFFICES ASSUME NEW d \in Documents, valued'[d] # None
               PROVE  Issued(book, d)
    BY <1>1 DEF OnlyIssuedAreValued
  <2>1. CASE ReadDoc(state, d)
    BY <1>2, <2>1 DEF GoodList, ReadDoc
  <2>2. CASE ~ReadDoc(state, d)
    BY <1>7, <1>8, <2>2 DEF RevaluationsIInv, BooksAreRight, OnlyIssuedAreValued
  <2> QED BY <2>1, <2>2
<1>14. OneInForce'
  <2> SUFFICES ASSUME NEW d \in Documents \ raced'
               PROVE  \A m, n \in InForce(entries', d) : m = n
    BY DEF OneInForce
  <2>1. CASE ReadDoc(state, d)
    <3>1. PICK line \in state.read : line.doc = d
      BY <2>1 DEF ReadDoc
    <3>2. line.doc \notin raced
      BY <1>11, <3>1
    <3> QED BY <1>3, <3>1, <3>2, CommitByLine
  <2>2. CASE ~ReadDoc(state, d)
    <3>1. InForce(entries', d) = InForce(entries, d)
      BY <1>3, <2>2, CommitElsewhere
    <3> QED BY <1>11, <3>1 DEF RevaluationsIInv, BooksAreRight, OneInForce
  <2> QED BY <2>1, <2>2
<1>15. ASSUME NEW d \in Documents \ raced'
       PROVE  account'[d] - AdjustedBy(entries', d) = account[d] - AdjustedBy(entries, d)
  <2>1. CASE ReadDoc(state, d)
    <3>1. PICK line \in state.read : line.doc = d
      BY <2>1 DEF ReadDoc
    <3>2. line.doc \notin raced
      BY <1>11, <3>1
    <3> QED BY <1>3, <3>1, <3>2, CommitByLine
  <2>2. CASE ~ReadDoc(state, d)
    <3>1. AdjustedBy(entries', d) = AdjustedBy(entries, d) /\ account'[d] = account[d]
      BY <1>3, <2>2, CommitElsewhere
    <3> QED BY <3>1
  <2> QED BY <2>1, <2>2
<1>16. ASSUME NEW d \in Documents \ raced'
       PROVE  LET booked == Converted(book[d].balance, book[d].rate)
                  error == account'[d] - (booked + AdjustedBy(entries', d))
              IN  /\ booked \in Int /\ error \in Int /\ book[d].payments \in Nat
                  /\ -book[d].payments <= error /\ error <= book[d].payments
  <2> DEFINE booked == Converted(book[d].balance, book[d].rate)
             sum == AdjustedBy(entries, d)
             after == AdjustedBy(entries', d)
             many == book[d].payments
  <2>1. current(d) \in Listed /\ BookedIn(book, current(d)) = booked /\ many \in Nat
    BY <1>5 DEF Book, Listed, BookedIn, current
  <2>2. booked \in Int
    BY <1>2, <2>1, ValuesAreInt
  <2>3. sum \in Int /\ after \in Int
    BY <1>4, <1>5, AdjustedByIsInt
  <2>4. -many <= account[d] - (booked + sum) /\ account[d] - (booked + sum) <= many
    <3>1. Near(d, booked + sum)
      BY <1>11 DEF RevaluationsIInv, BooksAreRight, AccountsAreNear
    <3> QED BY <3>1 DEF Near
  <2>5. account'[d] - after = account[d] - sum
    BY <1>15
  <2>6. account[d] \in Int /\ account'[d] \in Int
    BY <1>5, <1>7
  <2> HIDE DEF booked, sum, after, many
  <2>7. LET error == account'[d] - (booked + after)
        IN  error \in Int /\ -many <= error /\ error <= many
    BY <2>1, <2>2, <2>3, <2>4, <2>5, <2>6
  <2> QED BY <2>1, <2>2, <2>7 DEF booked, after, many
<1>17. AccountsAreNear'
  <2> SUFFICES ASSUME NEW d \in Documents \ raced'
               PROVE  Near(d, Converted(book[d].balance, book[d].rate) + AdjustedBy(entries, d))'
    BY <1>1 DEF AccountsAreNear
  <2> QED BY <1>1, <1>16 DEF Near
<1>18. RevaluedToRate'
  <2> SUFFICES ASSUME NEW d \in Documents \ raced', valued'[d] # None
               PROVE  Near(d, Converted(book[d].balance, valued[d]))'
    BY DEF RevaluedToRate
  <2>1. CASE current(d) \in state.read
    <3>1. current(d).doc = d /\ current(d).balance = book[d].balance
      BY DEF current
    <3>3. current(d).doc \notin raced
      BY <1>11, <3>1
    <3>4. BookedIn(book, current(d)) + AdjustedBy(entries', d) = TargetOf(state, current(d))
      BY <1>3, <2>1, <3>1, <3>3, CommitByLine
    <3>5. /\ BookedIn(book, current(d)) = Converted(book[d].balance, book[d].rate)
          /\ TargetOf(state, current(d)) = Converted(book[d].balance, valued'[d])
      BY <1>7, <2>1, <3>1 DEF BookedIn, TargetOf
    <3>6. Converted(book[d].balance, book[d].rate) + AdjustedBy(entries', d)
            = Converted(book[d].balance, valued'[d])
      BY <3>4, <3>5
    <3>7. LET error == account'[d] - Converted(book[d].balance, valued'[d])
          IN  -book[d].payments <= error /\ error <= book[d].payments
      BY <1>16, <3>6
    <3> QED BY <1>1, <3>7 DEF Near
  <2>2. CASE current(d) \notin state.read
    <3>1. ~ReadDoc(state, d) /\ valued'[d] = valued[d]
      BY <1>7, <1>8, <2>2
    <3>2. account'[d] = account[d]
      BY <1>3, <3>1, CommitElsewhere
    <3>3. Near(d, Converted(book[d].balance, valued[d]))
      BY <1>11, <3>1 DEF RevaluationsIInv, BooksAreRight, RevaluedToRate
    <3> QED BY <1>1, <3>1, <3>2, <3>3 DEF Near
  <2> QED BY <2>1, <2>2
<1> QED BY <1>9, <1>10, <1>savings, <1>12, <1>13, <1>14, <1>17, <1>18 DEF RevaluationsIInv, BooksAreRight

\* Reversing one entry by hand puts its document where no revaluation had it; unless
\* somebody raced for it, that was the entry in force.
LEMMA ReverseEntryKeeps ==
  ASSUME RevaluationsIInv, NEW r \in Requests, ReverseEntry(r)
  PROVE  RevaluationsIInv'
<1> DEFINE n == run[r].entry
           d == entries[n].doc
           amount == entries[n].amount
<1>1. /\ run[r].phase = "reverse"
      /\ entries' = Marked({n})
      /\ account' = [account EXCEPT ![d] = @ - amount]
      /\ valued' = [valued EXCEPT ![d] = None]
      /\ raced' = Raced(r)
      /\ run' = [run EXCEPT ![r] = NoRun]
      /\ book' = book /\ saving' = saving
  BY DEF ReverseEntry, In
<1>2. /\ account \in [Documents -> Int] /\ book \in [Documents -> Book]
      /\ valued \in [Documents -> Rates \cup {None}] /\ raced \subseteq Documents
      /\ run \in [Requests -> {NoRun} \cup Revaluing \cup Reversing]
      /\ saving \in [Requests -> {NoSaving} \cup ToIssue \cup IssuingBill \cup PayingBill]
      /\ entries \in Seq(Entry)
  BY DEF RevaluationsIInv, RevaluationsTypeOK
<1>3. /\ run[r] \in Reversing /\ Reversible(run[r], n, entries, raced)
      /\ \A line \in run[r].read : Issued(book, line.doc)
  <2>1. run[r] \in Reversing
    BY <1>1, PhaseOfRun DEF RevaluationsIInv
  <2>2. GoodRun(run[r], book, entries, raced)
    BY DEF RevaluationsIInv, RunsAreGood
  <2> QED BY <2>1, <2>2 DEF GoodRun
<1>4. n \in DOMAIN entries /\ d \in Reading(r) /\ (d \in raced \/ entries[n].reversals = 0)
  BY <1>3 DEF Reversible, ReadDoc, Reading
<1>5. d \in Documents /\ amount \in Int
  <2>1. entries[n] \in Entry
    BY <1>2, <1>4, EntriesAreTyped
  <2> QED BY <2>1 DEF Entry
<1>6. /\ entries' \in Seq(Entry) /\ DOMAIN entries' = DOMAIN entries
      /\ \A m \in DOMAIN entries :
           /\ entries'[m].doc = entries[m].doc /\ entries'[m].amount = entries[m].amount
           /\ m = n => entries'[m].reversals # 0
           /\ m # n => entries'[m].reversals = entries[m].reversals
  <2>1. Marked({n}) = Marked({n}) \o <<>>
    <3>1. Marked({n}) \in Seq(Entry)
      <4>1. \A m \in DOMAIN entries : Marked({n})[m] \in Entry
        <5> SUFFICES ASSUME NEW m \in DOMAIN entries PROVE Marked({n})[m] \in Entry
          OBVIOUS
        <5> DEFINE e == entries[m]
                   more == [e EXCEPT !.reversals = @ + 1]
        <5>1. e \in Entry
          BY <1>2, EntriesAreTyped
        <5>2. e.reversals + 1 \in Nat
          BY <5>1 DEF Entry
        <5>3. more \in Entry
          BY <5>1, <5>2 DEF Entry
        <5>4. Marked({n})[m] = IF m \in {n} THEN more ELSE e
          BY DEF Marked
        <5> HIDE DEF e, more
        <5> QED BY <5>1, <5>3, <5>4
      <4>2. Len(entries) \in Nat /\ DOMAIN entries = 1 .. Len(entries)
        BY <1>2, EntriesAreTyped
      <4>3. Marked({n}) = [m \in 1 .. Len(entries) |-> Marked({n})[m]]
        BY <4>2 DEF Marked
      <4>4. Marked({n}) \in [1 .. Len(entries) -> Entry]
        BY <4>1, <4>2, <4>3
      <4>5. Marked({n}) \in UNION {[1 .. k -> Entry] : k \in Nat}
        BY <4>2, <4>4
      <4> QED BY Zenon, <4>5, SeqDef
    <3> QED BY <3>1, ConcatEmptySeq
  <2>2. <<>> \in Seq(Entry) /\ DOMAIN <<>> = {}
    OBVIOUS
  <2>3. entries' = Marked({n}) \o <<>>
    BY <1>1, <2>1
  <2>4. /\ entries' \in Seq(Entry)
        /\ DOMAIN entries' = DOMAIN entries \cup {Len(entries) + m : m \in DOMAIN <<>>}
        /\ \A m \in DOMAIN entries :
             /\ entries'[m].doc = entries[m].doc /\ entries'[m].amount = entries[m].amount
             /\ m \in {n} => entries'[m].reversals # 0
             /\ m \notin {n} => entries'[m].reversals = entries[m].reversals
    BY <1>2, <2>2, <2>3, EntriesOfEnd
  <2> QED BY <2>2, <2>4
<1> HIDE DEF n, d, amount
<1>7. \A m \in DOMAIN entries : entries[m].doc # d => m # n
  BY DEF d
<1>8. Grew(entries, entries', {d}) /\ Grew(entries, entries', Reading(r))
  BY <1>4, <1>6, <1>7 DEF Grew
<1>9. /\ account'[d] = account[d] - amount /\ valued'[d] = None
      /\ \A e \in Documents \ {d} : account'[e] = account[e] /\ valued'[e] = valued[e]
  BY <1>1, <1>2, <1>5
<1>10. raced \subseteq raced'
  BY <1>1 DEF Raced
<1>11. RevaluationsTypeOK'
  <2>1. Reading(r) \subseteq Documents
    <3>1. run[r].read \subseteq Listed
      BY <1>3 DEF Reversing
    <3> QED BY <3>1 DEF Listed, Reading
  <2>2. raced' \in SUBSET Documents
    BY <1>1, <1>2, <2>1 DEF Raced
  <2>3. account' \in [Documents -> Int] /\ valued' \in [Documents -> Rates \cup {None}]
    <3>1. account[d] - amount \in Int
      BY <1>2, <1>5
    <3> QED BY <1>1, <1>2, <3>1
  <2>4. run' \in [Requests -> {NoRun} \cup Revaluing \cup Reversing]
    BY <1>1, <1>2
  <2> QED BY <1>1, <1>2, <1>6, <2>2, <2>3, <2>4 DEF RevaluationsTypeOK
<1>savings. SavingsAreGood'
  BY <1>1, <1>10, SavingsStayGood DEF RevaluationsIInv
<1>12. RunsAreGood'
  BY <1>1, <1>6, <1>8, EndKeepsRuns
<1>13. EntriesAreOfIssued' /\ OnlyIssuedAreValued'
  <2>1. EntriesAreOfIssued'
    BY <1>1, <1>6 DEF RevaluationsIInv, BooksAreRight, EntriesAreOfIssued
  <2>2. OnlyIssuedAreValued'
    BY <1>1, <1>9 DEF RevaluationsIInv, BooksAreRight, OnlyIssuedAreValued
  <2> QED BY <2>1, <2>2
<1>14. \A e \in Documents \ {d} : /\ InForce(entries', e) = InForce(entries, e)
                                  /\ AdjustedBy(entries', e) = AdjustedBy(entries, e)
  <2> SUFFICES ASSUME NEW e \in Documents \ {d}
               PROVE  /\ InForce(entries', e) = InForce(entries, e)
                      /\ AdjustedBy(entries', e) = AdjustedBy(entries, e)
    OBVIOUS
  <2>1. e \notin {d}
    OBVIOUS
  <2> QED BY <1>2, <1>6, <1>8, <2>1, OthersAreAdjustedAlike
<1>15. ASSUME d \notin raced
       PROVE  /\ InForce(entries, d) = {n} /\ InForce(entries', d) = {}
              /\ AdjustedBy(entries, d) = amount /\ AdjustedBy(entries', d) = 0
  <2>1. n \in InForce(entries, d)
    BY <1>4, <1>15 DEF InForce, d
  <2>2. InForce(entries, d) = {n}
    BY <1>5, <1>15, <2>1 DEF RevaluationsIInv, BooksAreRight, OneInForce
  <2>3. InForce(entries', d) = {}
    BY <1>6, <2>2 DEF InForce
  <2>4. AdjustedBy(entries, d) = amount
    BY <1>2, <2>2, AdjustedByOne DEF amount
  <2> QED BY <1>6, <2>2, <2>3, <2>4, AdjustedByOne
<1>16. OneInForce'
  <2> SUFFICES ASSUME NEW e \in Documents \ raced'
               PROVE  \A k, m \in InForce(entries', e) : k = m
    BY DEF OneInForce
  <2>1. CASE e = d
    BY <1>10, <1>15, <2>1
  <2>2. CASE e # d
    BY <1>10, <1>14, <2>2 DEF RevaluationsIInv, BooksAreRight, OneInForce
  <2> QED BY <2>1, <2>2
<1>17. AccountsAreNear'
  <2> SUFFICES ASSUME NEW e \in Documents \ raced'
               PROVE  Near(e, Converted(book[e].balance, book[e].rate) + AdjustedBy(entries, e))'
    BY <1>1 DEF AccountsAreNear
  <2> DEFINE booked == Converted(book[e].balance, book[e].rate)
             many == book[e].payments
  <2>1. Near(e, booked + AdjustedBy(entries, e))
    BY <1>10 DEF RevaluationsIInv, BooksAreRight, AccountsAreNear
  <2>2. booked \in Int /\ many \in Int
    <3>1. book[e].balance \in Int /\ book[e].rate \in Rates \cup {None} /\ many \in Int
      BY <1>2 DEF Book
    <3>2. Rates \subseteq Int
      BY RevaluationsAssumption
    <3>3. None \in Int
      BY DEF None
    <3>4. book[e].rate \in Int
      BY <3>1, <3>2, <3>3
    <3> QED BY <3>1, <3>4, ConvertedIsInt
  <2>3. -many <= account[e] - (booked + AdjustedBy(entries, e))
        /\ account[e] - (booked + AdjustedBy(entries, e)) <= many
    BY <2>1 DEF Near
  <2> HIDE DEF booked, many
  <2>4. -many <= account'[e] - (booked + AdjustedBy(entries', e))
        /\ account'[e] - (booked + AdjustedBy(entries', e)) <= many
    <3>1. CASE e = d
      <4>1. AdjustedBy(entries, e) = amount /\ AdjustedBy(entries', e) = 0
        BY <1>10, <1>15, <3>1
      <4>2. account'[e] = account[e] - amount /\ account[e] \in Int
        BY <1>2, <1>9, <3>1
      <4> QED BY <1>5, <2>2, <2>3, <4>1, <4>2
    <3>2. CASE e # d
      <4>1. AdjustedBy(entries', e) = AdjustedBy(entries, e) /\ account'[e] = account[e]
        BY <1>9, <1>14, <3>2
      <4> QED BY <2>3, <4>1
    <3> QED BY <3>1, <3>2
  <2> QED BY <1>1, <2>4 DEF Near, booked, many
<1>18. RevaluedToRate'
  <2> SUFFICES ASSUME NEW e \in Documents \ raced', valued'[e] # None
               PROVE  Near(e, Converted(book[e].balance, valued[e]))'
    BY DEF RevaluedToRate
  <2>1. e # d /\ account'[e] = account[e] /\ valued'[e] = valued[e]
    BY <1>9
  <2>2. Near(e, Converted(book[e].balance, valued[e]))
    BY <1>10, <2>1 DEF RevaluationsIInv, BooksAreRight, RevaluedToRate
  <2> QED BY <1>1, <2>1, <2>2 DEF Near
<1> QED BY <1>11, <1>savings, <1>12, <1>13, <1>16, <1>17, <1>18 DEF RevaluationsIInv, BooksAreRight

-----------------------------------------------------------------------------
(* The theorems.                                                           *)

\* At first no document is issued.
LEMMA RevaluationsStart ==
  ASSUME RevaluationsInit
  PROVE  RevaluationsIInv
<1> DEFINE unissued == [rate |-> None, balance |-> 0, payments |-> 0]
<1>1. /\ book = [d \in Documents |-> unissued] /\ account = [d \in Documents |-> 0]
      /\ entries = <<>> /\ run = [r \in Requests |-> NoRun] /\ raced = {}
      /\ saving = [r \in Requests |-> NoSaving]
      /\ valued = [d \in Documents |-> None]
  BY DEF RevaluationsInit
<1>2. /\ unissued \in Book /\ unissued.rate = None
      /\ unissued.balance = 0 /\ unissued.payments = 0
  BY DEF Book
<1> HIDE DEF unissued
<1>3. RevaluationsTypeOK
  BY <1>1, <1>2 DEF RevaluationsTypeOK
<1>4. RunsAreGood
  BY <1>1, NoRunIsGood DEF RunsAreGood
<1>5. BooksAreRight
  <2>1. EntriesAreOfIssued /\ OneInForce /\ OnlyIssuedAreValued /\ RevaluedToRate
    BY <1>1, <1>2 DEF EntriesAreOfIssued, OneInForce, OnlyIssuedAreValued, RevaluedToRate,
                      InForce, Issued
  <2>2. ASSUME NEW d \in Documents
        PROVE  Near(d, Converted(book[d].balance, book[d].rate) + AdjustedBy(entries, d))
    <3>1. InForce(entries, d) = {} /\ entries \in Seq(Entry)
      BY <1>1 DEF InForce
    <3>2. AdjustedBy(entries, d) = 0
      BY <3>1, AdjustedByOne
    <3>3. Converted(0, None) = 0
      BY DEF Converted, None
    <3> QED BY <1>1, <1>2, <3>2, <3>3 DEF Near
  <2> QED BY <2>1, <2>2 DEF BooksAreRight, AccountsAreNear
<1>6. SavingsAreGood
  BY <1>1 DEF SavingsAreGood, GoodSaving, NoSaving, ToIssue, IssuingBill, PayingBill
<1> QED BY <1>3, <1>4, <1>5, <1>6 DEF RevaluationsIInv

\* Every step keeps the invariant.
LEMMA RevaluationsStep ==
  ASSUME RevaluationsIInv, [RevaluationsNext]_bookVars
  PROVE  RevaluationsIInv'
<1>1. CASE UNCHANGED bookVars
  BY <1>1 DEF bookVars, RevaluationsIInv, RevaluationsTypeOK, RunsAreGood, SavingsAreGood, BooksAreRight,
              EntriesAreOfIssued, OneInForce, AccountsAreNear, OnlyIssuedAreValued, RevaluedToRate,
              Near
<1>2. ASSUME NEW d \in ForeignInvoices, NEW rate \in Rates, Issue(d, rate) PROVE RevaluationsIInv'
  BY <1>2, IssueKeeps
<1>3. ASSUME NEW d \in ForeignInvoices, NEW amount \in PaidAmounts, Pay(d, amount)
      PROVE  RevaluationsIInv'
  BY <1>3, PayKeeps
<1>4. ASSUME NEW r \in Requests, NEW rate \in Rates, Start(r, rate) PROVE RevaluationsIInv'
  BY <1>4, StartKeeps
<1>5. ASSUME NEW r \in Requests, NEW n \in DOMAIN entries, ReadToReverse(r, n)
      PROVE  RevaluationsIInv'
  BY <1>5, ReadToReverseKeeps
<1>6. ASSUME NEW r \in Requests,
             \/ List(r) \/ Consider(r) \/ ReadPrior(r) \/ PostAdjustment(r) \/ NextKind(r)
             \/ CommitRun(r) \/ ReverseEntry(r) \/ Rollback(r)
      PROVE  RevaluationsIInv'
  BY <1>6, ListKeeps, ConsiderKeeps, ReadPriorKeeps, PostAdjustmentKeeps, NextKindKeeps, CommitKeeps,
     ReverseEntryKeeps, RollbackKeeps
<1>7. ASSUME NEW r \in Requests, NEW d \in Bills, ReadToIssueBill(r, d) PROVE RevaluationsIInv'
  BY <1>7, ReadToIssueBillKeeps
<1>8. ASSUME NEW r \in Requests, NEW d \in Bills, NEW amount \in PaidAmounts,
             ReadToPayBill(r, d, amount)
      PROVE  RevaluationsIInv'
  BY <1>8, ReadToPayBillKeeps
<1>9. ASSUME NEW r \in Requests, NEW rate \in Rates, LoadToIssueBill(r, rate)
      PROVE  RevaluationsIInv'
  BY <1>9, LoadToIssueBillKeeps
<1>10. ASSUME NEW r \in Requests, IssueBill(r) \/ PayBill(r) PROVE RevaluationsIInv'
  BY <1>10, IssueBillKeeps, PayBillKeeps
<1> QED BY <1>1, <1>2, <1>3, <1>4, <1>5, <1>6, <1>7, <1>8, <1>9, <1>10 DEF RevaluationsNext

\* So the invariant always holds.
LEMMA RevaluationsInvariant == RevaluationsSpec => []RevaluationsIInv
<1>1. RevaluationsInit => RevaluationsIInv
  BY RevaluationsStart
<1>2. RevaluationsIInv /\ [RevaluationsNext]_bookVars => RevaluationsIInv'
  BY RevaluationsStep
<1> QED BY <1>1, <1>2, PTL DEF RevaluationsSpec

\* The account of a document is its balance at the booked rate and at most one
\* adjustment, but for the rounding of its payments, whatever is revalued, reversed
\* and paid in which order, unless two revaluations or reversals overlapped on it, or
\* two requests that issue or pay it, if it is a bill (RevaluationsService,
\* InvoicesService, SupplierBillsService and SupplierPaymentsService).
THEOREM AccountsAreExplained == RevaluationsSpec => []AccountExplained
<1>1. RevaluationsIInv => AccountExplained
  <2> SUFFICES ASSUME RevaluationsIInv, NEW d \in Documents \ raced, book[d].rate # None
               PROVE  \E ns \in SUBSET Posted(d) :
                        /\ ns = Posted(d) /\ \A m, n \in ns : m = n
                        /\ Near(d, Converted(book[d].balance, book[d].rate) + Sum(ns))
    BY DEF AccountExplained
  <2>1. Posted(d) = InForce(entries, d) /\ Sum(Posted(d)) = AdjustedBy(entries, d)
    BY PostedIsInForce
  <2>2. \A m, n \in InForce(entries, d) : m = n
    BY DEF RevaluationsIInv, BooksAreRight, OneInForce
  <2>3. Near(d, Converted(book[d].balance, book[d].rate) + AdjustedBy(entries, d))
    BY DEF RevaluationsIInv, BooksAreRight, AccountsAreNear
  <2>4. Near(d, Converted(book[d].balance, book[d].rate) + Sum(Posted(d)))
    BY <2>1, <2>3
  <2> QED BY <2>1, <2>2, <2>4
<1> QED BY <1>1, RevaluationsInvariant, PTL

\* From a revaluation to the next payment or manual reversal, such a document stands
\* in its account at the rate of the revaluation, although a revaluation reads the
\* balances before it locks the journal's series (run, RevaluationsService).
THEOREM DocumentsStandAtTheirRate == RevaluationsSpec => []RevaluedToRate
<1>1. RevaluationsIInv => RevaluedToRate
  BY DEF RevaluationsIInv, BooksAreRight
<1> QED BY <1>1, RevaluationsInvariant, PTL
=============================================================================
