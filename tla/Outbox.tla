------------------------------- MODULE Outbox -------------------------------
(***************************************************************************)
(* The transactional outbox.  Operations leave events in outbox_events with*)
(* their own commit; every ten seconds each API server reads the oldest    *)
(* pending ones and hands them, one after the other, to the consumers.     *)
(*                                                                         *)
(* A tick does not wait for the tick before it, and servers do not know of *)
(* each other: the dispatchers below are all the ticks under way.  Each    *)
(* works on the copies it read, and saving a copy writes back every column *)
(* in which it differs from the row, that is, the whole copy.              *)
(***************************************************************************)
EXTENDS Integers, FiniteSets

CONSTANTS
  Events,
  OccurredAt,   \* occurred_at of the events, the order of their batches
  BatchSize,    \* 100 in dispatchPending
  MaxAttempts,  \* 5 in markFailed
  Dispatchers   \* the ticks under way at the same time

ASSUME OutboxAssumption ==
  /\ OccurredAt \in [Events -> Int]
  /\ BatchSize \in Nat \ {0}
  /\ MaxAttempts \in Nat \ {0}

VARIABLES
  row,         \* outbox_events: the status and the attempts of an event
  dispatcher,  \* by dispatcher, its batch and the event it is busy with
  delivered,   \* history: the events every consumer has handled
  errors       \* history: by event, the errors met, counted up to MaxAttempts

outboxVars == <<row, dispatcher, delivered, errors>>
history == <<delivered, errors>>

Statuses == {"pending", "dispatched", "failed"}
Row == [status : Statuses, attempts : 0..MaxAttempts]
Absent == [status |-> "absent"]

Resting == [phase |-> "resting"]
Batch == UNION {[S -> Row] : S \in SUBSET Events}
Ready == [phase : {"ready"}, batch : Batch]
Busy == [phase : {"handled", "error"}, event : Events, copy : Row, batch : Batch]

OutboxTypeOK ==
  /\ row \in [Events -> Row \cup {Absent}]
  /\ dispatcher \in [Dispatchers -> Ready \cup Busy \cup {Resting}]
  /\ delivered \subseteq Events
  /\ errors \in [Events -> 0..MaxAttempts]

OutboxInit ==
  /\ row = [e \in Events |-> Absent]
  /\ dispatcher = [d \in Dispatchers |-> Resting]
  /\ delivered = {}
  /\ errors = [e \in Events |-> 0]

Pending == {e \in Events : row[e].status = "pending"}

SetDispatcher(d, state) == dispatcher' = [dispatcher EXCEPT ![d] = state]

\* The dispatcher goes on with the rest of its batch.
GoOn(d, batch) ==
  SetDispatcher(d, IF DOMAIN batch = {} THEN Resting
                   ELSE [phase |-> "ready", batch |-> batch])

CountError(e) ==
  errors' = [errors EXCEPT ![e] = IF @ < MaxAttempts THEN @ + 1 ELSE @]

-----------------------------------------------------------------------------

\* An operation commits with the event it emitted.
Emit(e) ==
  /\ row[e] = Absent
  /\ row' = [row EXCEPT ![e] = [status |-> "pending", attempts |-> 0]]
  /\ UNCHANGED <<dispatcher, history>>

\* The oldest of a set of events; events of the same instant come in any order.
IsOldest(e, events) == \A f \in events : OccurredAt[e] <= OccurredAt[f]

IsFirstBatch(batch) ==
  /\ batch \subseteq Pending
  /\ batch # {}
  /\ Cardinality(batch) <= BatchSize
  /\ batch # Pending => Cardinality(batch) = BatchSize
  /\ \A e \in batch : IsOldest(e, Pending \ batch)

\* findPending, without a lock.
Tick(d) ==
  /\ dispatcher[d] = Resting
  /\ \E batch \in SUBSET Events :
       /\ IsFirstBatch(batch)
       /\ SetDispatcher(d, [phase |-> "ready", batch |-> [e \in batch |-> row[e]]])
  /\ UNCHANGED <<row, history>>

Rest(batch, e) == [f \in DOMAIN batch \ {e} |-> batch[f]]

\* The consumers handle an event, or one of them throws.
Handle(d, e, outcome) ==
  LET batch == dispatcher[d].batch
  IN  /\ dispatcher[d].phase = "ready"
      /\ e \in DOMAIN batch
      /\ IsOldest(e, DOMAIN batch)
      /\ SetDispatcher(d, [phase |-> outcome, event |-> e, copy |-> batch[e],
                           batch |-> Rest(batch, e)])
      /\ UNCHANGED row

\* A mistake the runs must notice: an event whose consumer threw counts as handled.
HandleAnyway(d, e) == Handle(d, e, "handled") /\ UNCHANGED history

HandleFails(d, e) ==
  /\ Handle(d, e, "error")
  /\ CountError(e)
  /\ UNCHANGED delivered

HandleWorks(d, e) ==
  /\ Handle(d, e, "handled")
  /\ delivered' = delivered \cup {e}
  /\ UNCHANGED errors

MarkDispatched(d) ==
  LET copy == dispatcher[d].copy
  IN  /\ dispatcher[d].phase = "handled"
      /\ row' = [row EXCEPT ![dispatcher[d].event] = [copy EXCEPT !.status = "dispatched"]]
      /\ GoOn(d, dispatcher[d].batch)
      /\ UNCHANGED history

\* The save of markDispatched fails: its copy already says dispatched.
MarkDispatchedFails(d) ==
  /\ dispatcher[d].phase = "handled"
  /\ SetDispatcher(d, [dispatcher[d] EXCEPT !.phase = "error", !.copy.status = "dispatched"])
  /\ CountError(dispatcher[d].event)
  /\ UNCHANGED <<row, delivered>>

\* Two mistakes the runs must notice: the attempts do not grow, and the last
\* attempt but one is the last.
SameAttempts(copy) == copy

GivenUpEarly(copy) ==
  [attempts |-> copy.attempts + 1,
   status |-> IF copy.attempts + 2 >= MaxAttempts THEN "failed" ELSE copy.status]

Failed(copy) ==
  [attempts |-> copy.attempts + 1,
   status |-> IF copy.attempts + 1 >= MaxAttempts THEN "failed" ELSE copy.status]

MarkFailed(d) ==
  /\ dispatcher[d].phase = "error"
  /\ row' = [row EXCEPT ![dispatcher[d].event] = Failed(dispatcher[d].copy)]
  /\ GoOn(d, dispatcher[d].batch)
  /\ UNCHANGED history

\* The server stops, or markFailed throws: the tick ends and its copies are lost.
Abort(d) ==
  /\ dispatcher[d] # Resting
  /\ SetDispatcher(d, Resting)
  /\ UNCHANGED <<row, history>>

OutboxNext ==
  \/ \E e \in Events : Emit(e)
  \/ \E d \in Dispatchers :
       \/ Tick(d) \/ MarkDispatched(d) \/ MarkDispatchedFails(d) \/ MarkFailed(d) \/ Abort(d)
       \/ \E e \in Events : HandleFails(d, e) \/ HandleWorks(d, e)

OutboxSpec == OutboxInit /\ [][OutboxNext]_outboxVars

Handled(d, e) == HandleFails(d, e) \/ HandleWorks(d, e)

Written(d, e) ==
  /\ dispatcher[d].phase \in {"handled", "error"} /\ dispatcher[d].event = e
  /\ MarkDispatched(d) \/ MarkFailed(d)

\* The schedule ticks for ever, and the server does not stop each time it comes
\* to the same step of the same event.
OutboxFairness ==
  /\ \A d \in Dispatchers : WF_outboxVars(Tick(d))
  /\ \A e \in Events : /\ SF_outboxVars(\E d \in Dispatchers : Handled(d, e))
                       /\ SF_outboxVars(\E d \in Dispatchers : Written(d, e))

OutboxFairSpec == OutboxSpec /\ OutboxFairness

-----------------------------------------------------------------------------

\* An event is marked dispatched only when its consumers have handled it, also
\* by a dispatcher that saves a copy from before other dispatchers were at it.
DispatchedWasDelivered ==
  \A e \in Events : row[e].status = "dispatched" => e \in delivered

\* No event is given up before as many errors as the limit says, although
\* dispatchers overwrite each other's attempts.
GivenUpWasTried ==
  \A e \in Events : row[e].status = "failed" => errors[e] = MaxAttempts

\* Every event ends dispatched or given up and stays so: events that always
\* fail do not keep younger ones out of the batch, and overlapping dispatchers
\* do not reopen an event for ever.
EveryEventSettles ==
  \A e \in Events :
    row[e] # Absent ~> [](row[e].status \in {"dispatched", "failed"})
=============================================================================
