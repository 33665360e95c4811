---------------------------- MODULE BackOffice ----------------------------
(***************************************************************************)
(* The documents of purchasing, production, human resources and sales      *)
(* leads, behind one API that serves several requests at a time, and what  *)
(* stock is worth, on rows of product_stock that Supply does not name.     *)
(***************************************************************************)
EXTENDS Supply, HumanResources, Crm, Valuation

SupplyIds == PurchaseOrders \cup Receipts \cup Bills \cup Advances \cup ProductionOrders
HumanResourcesIds == Payrolls \cup Periods \cup Leaves \cup WorkDays
CrmIds == Leads \cup Opportunities

ASSUME BackOfficeAssumption ==
  /\ SupplyIds \cap (HumanResourcesIds \cup CrmIds \cup Rows) = {}
  /\ HumanResourcesIds \cap (CrmIds \cup Rows) = {}
  /\ CrmIds \cap Rows = {}

vars == <<supplyVars, hrVars, crmVars, valuationVars, requestVars>>

TypeOK ==
  /\ SupplyTypeOK /\ HumanResourcesTypeOK /\ CrmTypeOK /\ ValuationTypeOK
  /\ raced \subseteq Documents /\ inUse \in Together

Init == SupplyInit /\ HumanResourcesInit /\ CrmInit /\ ValuationInit /\ RequestInit

Next ==
  \/ SupplyNext /\ UNCHANGED <<hrVars, crmVars, valuationVars>>
  \/ HumanResourcesNext /\ UNCHANGED <<supplyVars, crmVars, valuationVars>>
  \/ CrmNext /\ UNCHANGED <<supplyVars, hrVars, valuationVars>>
  \/ ValuationNext /\ UNCHANGED <<supplyVars, hrVars, crmVars>>
  \/ \E r \in Requests : Rollback(r) /\ UNCHANGED <<supplyVars, hrVars, crmVars, valuationVars>>

Spec == Init /\ [][Next]_vars

-----------------------------------------------------------------------------

PaidOrCancelled(b) == bill[b].status \in {"paid", "cancelled"}
Finished(w) == work[w].status \in {"completed", "cancelled"}
ClosedPayroll(p) == payroll[p].status \in {"posted", "cancelled"}
ClosedLeave(l) == leave[l].status \in {"approved", "rejected"}
Won(o) == opportunity[o].stage = "won"
Lost(o) == opportunity[o].stage = "lost"

\* What was decided stays decided: a paid or cancelled bill, a finished
\* production order, a posted or cancelled payroll, an answered leave, a
\* converted lead and a won opportunity are not changed again, and a lost one
\* can only be deleted, unless requests on that document overlapped (the status
\* checks of SupplierBillsService, ProductionOrdersService, PayrollsService,
\* LeavesService, LeadsService and OpportunitiesService).
ClosedStaysClosed ==
  [][/\ \A b \in Bills \ raced' : PaidOrCancelled(b) => bill'[b] = bill[b]
     /\ \A w \in ProductionOrders \ raced' : Finished(w) => work'[w] = work[w]
     /\ \A p \in Payrolls \ raced' : ClosedPayroll(p) => payroll'[p] = payroll[p]
     /\ \A l \in Leaves \ raced' : ClosedLeave(l) => leave'[l] = leave[l]
     /\ \A l \in Leads \ raced' : lead[l].status = "converted" => lead'[l] = lead[l]
     /\ \A o \in Opportunities \ raced' :
          /\ Won(o) => opportunity'[o] = opportunity[o]
          /\ Lost(o) => opportunity'[o] \in {opportunity[o], [opportunity[o] EXCEPT !.deleted = TRUE]}
    ]_vars
=============================================================================
