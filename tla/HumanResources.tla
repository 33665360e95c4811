-------------------------- MODULE HumanResources --------------------------
(***************************************************************************)
(* Payrolls, leaves and attendance.  Every operation reads a row, checks   *)
(* it, and saves what it made of that copy.                                *)
(***************************************************************************)
EXTENDS ReadCheckSave, Integers, FiniteSets

CONSTANTS
  Payrolls,    \* the payrolls there can be
  Periods,     \* the months they are for
  Nets,        \* the net totals a payroll can have
  Leaves,      \* the leaves there can be
  LeaveDates,  \* the ranges of dates a leave can have
  WorkDays,    \* the days of employees: hr_attendance is unique by both
  Times        \* the times at which somebody can clock in or out

NoTime == 0

ASSUME HumanResourcesAssumption ==
  /\ Nets \subseteq Nat
  /\ Times \subseteq Nat \ {NoTime}
  /\ Payrolls \cup Periods \cup Leaves \cup WorkDays \subseteq Documents
  /\ Payrolls \cap Periods = {}

VARIABLES
  payroll,     \* hr_payrolls
  entries,     \* by payroll, the journal entries posted for it
  leave,       \* hr_leaves
  approved,    \* by leave, the dates that its last approval read
  attendance   \* hr_attendance

hrVars == <<payroll, entries, leave, approved, attendance>>

PayrollRow ==
  [status : {"draft", "posted", "cancelled"}, period : Periods, net : Nets, entry : Nat]

LeaveRow ==
  [status : {"pending", "approved", "rejected"}, dates : LeaveDates, deleted : BOOLEAN]

DayRow == [in : Times \cup {NoTime}, out : Times \cup {NoTime}, minutes : Nat, deleted : BOOLEAN]

HumanResourcesTypeOK ==
  /\ payroll \in [Payrolls -> PayrollRow \cup {Absent}]
  /\ entries \in [Payrolls -> Nat]
  /\ leave \in [Leaves -> LeaveRow \cup {Absent}]
  /\ approved \in [Leaves -> SUBSET LeaveDates]
  /\ attendance \in [WorkDays -> DayRow \cup {Absent}]

HumanResourcesInit ==
  /\ payroll = [p \in Payrolls |-> Absent]
  /\ entries = [p \in Payrolls |-> 0]
  /\ leave = [l \in Leaves |-> Absent]
  /\ approved = [l \in Leaves |-> {}]
  /\ attendance = [d \in WorkDays |-> Absent]

-----------------------------------------------------------------------------
(* PayrollsService                                                         *)

SavePayroll(p, row) ==
  payroll' = [payroll EXCEPT ![p] = row] /\ UNCHANGED <<leave, approved, attendance>>

\* A cancelled payroll counts as well.
HasPayroll(period) == \E p \in Payrolls : payroll[p] # Absent /\ payroll[p].period = period

ReadToGenerate(r, period) == ~HasPayroll(period) /\ Take(r, "generate", period, Absent)

Generate(r, period, p, net) ==
  /\ Doing(r, "generate", period)
  /\ payroll[p] = Absent
  /\ SavePayroll(p, [status |-> "draft", period |-> period, net |-> net, entry |-> 0])
  /\ Answer(r)
  /\ UNCHANGED entries

ReadToCancelPayroll(r, p) ==
  payroll[p].status = "draft" /\ Take(r, "cancel payroll", p, payroll[p])

LoadToCancelPayroll(r, p) == Doing(r, "cancel payroll", p) /\ Load(r, payroll[p])

CancelPayroll(r, p) ==
  /\ Saving(r, "cancel payroll", p)
  /\ SavePayroll(p, Saved(r, payroll[p], [Copy(r) EXCEPT !.status = "cancelled"]))
  /\ Answer(r)
  /\ UNCHANGED entries

\* A mistake the runs must notice: posting does not look at the status.
ReadToPostAny(r, p) == payroll[p] # Absent /\ Take(r, "post", p, payroll[p])

\* The second of the two reads of post, inside its transaction.
ReadToPost(r, p) == payroll[p].status = "draft" /\ Take(r, "post", p, payroll[p])

\* The entry is posted before the save and holds the series of the journal.  It
\* credits the net total, and no entry takes a line of zero.
LoadToPost(r, p) ==
  Doing(r, "post", p) /\ Copy(r).net > 0 /\ LoadLocked(r, payroll[p])

Post(r, p) ==
  /\ Saving(r, "post", p)
  /\ entries' = [entries EXCEPT ![p] = @ + 1]
  /\ SavePayroll(p, Saved(r, payroll[p], [Copy(r) EXCEPT !.status = "posted", !.entry = entries'[p]]))
  /\ Answer(r)

-----------------------------------------------------------------------------
(* LeavesService                                                           *)

SaveLeave(l, row) ==
  leave' = [leave EXCEPT ![l] = row] /\ UNCHANGED <<payroll, entries, attendance>>

CreateLeave(l, dates) ==
  /\ leave[l] = Absent
  /\ SaveLeave(l, [status |-> "pending", dates |-> dates, deleted |-> FALSE])
  /\ UNCHANGED <<approved, requestVars>>

LeaveOperations == {"edit leave", "approve", "reject", "remove leave"}

\* A mistake the runs must notice: a leave can be edited whatever its status.
ReadAnyLeave(r, l, op) == leave[l] # Absent /\ ~leave[l].deleted /\ Take(r, op, l, leave[l])

ReadLeave(r, l, op) ==
  leave[l].status = "pending" /\ ~leave[l].deleted /\ Take(r, op, l, leave[l])

LoadLeave(r, l) ==
  \E op \in LeaveOperations \ {"remove leave"} : Doing(r, op, l) /\ Load(r, leave[l])

EditLeave(r, l, dates) ==
  /\ Saving(r, "edit leave", l)
  /\ SaveLeave(l, Saved(r, leave[l], [Copy(r) EXCEPT !.dates = dates]))
  /\ Answer(r)
  /\ UNCHANGED approved

ApproveLeave(r, l) ==
  /\ Saving(r, "approve", l)
  /\ SaveLeave(l, Saved(r, leave[l], [Copy(r) EXCEPT !.status = "approved"]))
  /\ approved' = [approved EXCEPT ![l] = {Copy(r).dates}]
  /\ Answer(r)

RejectLeave(r, l) ==
  /\ Saving(r, "reject", l)
  /\ SaveLeave(l, Saved(r, leave[l], [Copy(r) EXCEPT !.status = "rejected"]))
  /\ Answer(r)
  /\ UNCHANGED approved

RemoveLeave(r, l) ==
  /\ Doing(r, "remove leave", l)
  /\ SaveLeave(l, [leave[l] EXCEPT !.deleted = TRUE])
  /\ Answer(r)
  /\ UNCHANGED approved

-----------------------------------------------------------------------------
(* AttendanceService                                                       *)

SaveDay(d, row) ==
  attendance' = [attendance EXCEPT ![d] = row] /\ UNCHANGED <<payroll, entries, leave, approved>>

\* What findOneBy returns: a removed record is not found.
Found(d) ==
  IF attendance[d] = Absent \/ attendance[d].deleted THEN Absent ELSE attendance[d]

Minutes(in, out) == IF in = NoTime \/ out = NoTime \/ out < in THEN 0 ELSE out - in

Day(in, out) == [in |-> in, out |-> out, minutes |-> Minutes(in, out), deleted |-> FALSE]

ReadToClockIn(r, d) ==
  /\ Found(d) # Absent => Found(d).in = NoTime
  /\ Take(r, "clock in", d, Found(d))

\* A record that was found is saved; a new one is inserted.
LoadDay(r, d) ==
  /\ \E op \in {"clock in", "clock out", "amend"} : Doing(r, op, d)
  /\ Copy(r) # Absent
  /\ Load(r, attendance[d])

\* The unique key also counts the records that were removed.
ClockInFirst(r, d, at) ==
  /\ Doing(r, "clock in", d)
  /\ Copy(r) = Absent /\ attendance[d] = Absent
  /\ SaveDay(d, Day(at, NoTime))
  /\ Answer(r)

\* The minutes of a record that has a time out already are left as they are.
ClockIn(r, d, at) ==
  /\ Saving(r, "clock in", d)
  /\ SaveDay(d, Saved(r, attendance[d], [Copy(r) EXCEPT !.in = at]))
  /\ Answer(r)

ReadToClockOut(r, d) ==
  /\ Found(d) # Absent
  /\ Found(d).in # NoTime /\ Found(d).out = NoTime
  /\ Take(r, "clock out", d, Found(d))

ClockOut(r, d, at) ==
  /\ Saving(r, "clock out", d)
  /\ SaveDay(d, Saved(r, attendance[d], Day(Copy(r).in, at)))
  /\ Answer(r)

ReadToRecord(r, d) == Found(d) = Absent /\ Take(r, "record", d, Absent)

RecordDay(r, d, in, out) ==
  /\ Doing(r, "record", d)
  /\ attendance[d] = Absent
  /\ SaveDay(d, Day(in, out))
  /\ Answer(r)

ReadToAmend(r, d) == Found(d) # Absent /\ Take(r, "amend", d, Found(d))

AmendDay(r, d, in, out) ==
  /\ Saving(r, "amend", d)
  /\ SaveDay(d, Saved(r, attendance[d], Day(in, out)))
  /\ Answer(r)

ReadToRemoveDay(r, d) == Found(d) # Absent /\ Take(r, "remove day", d, Found(d))

RemoveDay(r, d) ==
  /\ Doing(r, "remove day", d)
  /\ SaveDay(d, [attendance[d] EXCEPT !.deleted = TRUE])
  /\ Answer(r)

-----------------------------------------------------------------------------

HumanResourcesRead(r) ==
  \/ \E period \in Used(Periods) : ReadToGenerate(r, period)
  \/ \E p \in Used(Payrolls) : ReadToPost(r, p) \/ ReadToCancelPayroll(r, p)
  \/ \E l \in Used(Leaves), op \in LeaveOperations : ReadLeave(r, l, op)
  \/ \E d \in Used(WorkDays) :
       \/ ReadToClockIn(r, d) \/ ReadToClockOut(r, d)
       \/ ReadToRecord(r, d) \/ ReadToAmend(r, d) \/ ReadToRemoveDay(r, d)

HumanResourcesLoad(r) ==
  \/ \E p \in Used(Payrolls) : LoadToPost(r, p) \/ LoadToCancelPayroll(r, p)
  \/ \E l \in Used(Leaves) : LoadLeave(r, l)
  \/ \E d \in Used(WorkDays) : LoadDay(r, d)

PayrollCommit(r) ==
  \E p \in Used(Payrolls) :
    \/ \E period \in Used(Periods), net \in Nets : Generate(r, period, p, net)
    \/ Post(r, p) \/ CancelPayroll(r, p)

LeaveCommit(r) ==
  \E l \in Used(Leaves) :
    \/ \E dates \in LeaveDates : EditLeave(r, l, dates)
    \/ ApproveLeave(r, l) \/ RejectLeave(r, l) \/ RemoveLeave(r, l)

DayCommit(r) ==
  \E d \in Used(WorkDays) :
    \/ \E at \in Times : ClockInFirst(r, d, at) \/ ClockIn(r, d, at) \/ ClockOut(r, d, at)
    \/ \E in, out \in Times \cup {NoTime} : RecordDay(r, d, in, out) \/ AmendDay(r, d, in, out)
    \/ RemoveDay(r, d)

HumanResourcesNext ==
  \/ \E l \in Used(Leaves), dates \in LeaveDates : CreateLeave(l, dates)
  \/ \E r \in Requests :
       \/ (HumanResourcesRead(r) \/ HumanResourcesLoad(r)) /\ UNCHANGED hrVars
       \/ PayrollCommit(r) \/ LeaveCommit(r) \/ DayCommit(r)

-----------------------------------------------------------------------------

\* The row of a document on which no requests overlapped is what one request
\* made of it: a posted payroll names its journal entry (post, PayrollsService),
\* an approved leave has the dates that its approval read (approve,
\* LeavesService), and minutes worked are those between the two times of the
\* record (clock and update, AttendanceService).
RowsAreWhole ==
  /\ \A p \in Payrolls \ raced : payroll[p] # Absent =>
       payroll[p].entry = IF payroll[p].status = "posted" THEN entries[p] ELSE 0
  /\ \A l \in Leaves \ raced : leave[l].status = "approved" => leave[l].dates \in approved[l]
  /\ \A d \in WorkDays \ raced : attendance[d] # Absent /\ attendance[d].minutes > 0 =>
       /\ attendance[d].in # NoTime
       /\ attendance[d].out = attendance[d].in + attendance[d].minutes

PayrollsOf(period) == {p \in Payrolls : payroll[p] # Absent /\ payroll[p].period = period}

\* The salaries of a month are in the journal once if its payroll says that it
\* was posted and not at all otherwise, and the month has one payroll, when no
\* requests for the month or its payroll overlapped (generate, post and cancel,
\* PayrollsService).  When they did, a month has another payroll, and a payroll
\* another entry, only from a request that was under way at the first one.
SalariesExpensedOnce ==
  \A period \in Periods :
    /\ Cardinality(PayrollsOf(period)) <= IF period \in raced THEN Cardinality(Requests) ELSE 1
    /\ \A p \in PayrollsOf(period) :
         IF p \in raced THEN entries[p] <= Cardinality(Requests)
         ELSE entries[p] = IF payroll[p].status = "posted" THEN 1 ELSE 0
=============================================================================
