-------------------------------- MODULE Crm --------------------------------
(***************************************************************************)
(* Leads and opportunities: converting a lead, or winning an opportunity   *)
(* that has a lead and no customer, creates a customer with a code taken   *)
(* from the number of the lead, unless the conversion chose another one.   *)
(***************************************************************************)
EXTENDS ReadCheckSave, Naturals

CONSTANTS
  Leads,
  Opportunities,
  Codes,     \* the codes customers can have
  CodeOf     \* by lead, the code taken from its number

Chosen == "chosen"  \* a customer that the client named

ASSUME CrmAssumption ==
  /\ CodeOf \in [Leads -> Codes]
  /\ Leads \cup Opportunities \subseteq Documents
  /\ None \notin Leads \cup Codes
  /\ Chosen \notin Codes

VARIABLES
  lead,         \* crm_leads
  opportunity,  \* crm_opportunities
  customers     \* the codes of customers, which are unique

crmVars == <<lead, opportunity, customers>>

LeadRow ==
  [status : {"open", "disqualified", "converted"}, customer : Codes \cup {None}, deleted : BOOLEAN]

OpportunityRow ==
  [stage : {"open", "won", "lost"}, lead : Leads \cup {None},
   customer : Codes \cup {None, Chosen}, deleted : BOOLEAN]

NoOpportunity == [stage |-> "absent"]

CrmTypeOK ==
  /\ lead \in [Leads -> LeadRow \cup {Absent}]
  /\ opportunity \in [Opportunities -> OpportunityRow \cup {NoOpportunity}]
  /\ customers \in SUBSET Codes

CrmInit ==
  /\ lead = [l \in Leads |-> Absent]
  /\ opportunity = [o \in Opportunities |-> NoOpportunity]
  /\ customers = {}

SaveLead(l, row) == lead' = [lead EXCEPT ![l] = row] /\ UNCHANGED opportunity

SaveOpportunity(o, row) ==
  opportunity' = [opportunity EXCEPT ![o] = row] /\ UNCHANGED lead

-----------------------------------------------------------------------------
(* LeadsService                                                            *)

\* The client may give any status.
CreateLead(l, status) ==
  /\ lead[l] = Absent
  /\ SaveLead(l, [status |-> status, customer |-> None, deleted |-> FALSE])
  /\ UNCHANGED <<customers, requestVars>>

ReadLead(r, l, op, statuses) ==
  lead[l].status \in statuses /\ ~lead[l].deleted /\ Take(r, op, l, lead[l])

ReadToEditLead(r, l) == ReadLead(r, l, "edit lead", {"open", "disqualified"})
ReadToRemoveLead(r, l) == ReadLead(r, l, "remove lead", {"open", "disqualified"})
ReadToConvert(r, l) == ReadLead(r, l, "convert", {"open"})

LoadLead(r, l) ==
  \E op \in {"edit lead", "convert"} : Doing(r, op, l) /\ Load(r, lead[l])

EditLead(r, l, status) ==
  /\ Saving(r, "edit lead", l)
  /\ SaveLead(l, Saved(r, lead[l], [Copy(r) EXCEPT !.status = status]))
  /\ Answer(r)
  /\ UNCHANGED customers

RemoveLead(r, l) ==
  /\ Doing(r, "remove lead", l)
  /\ SaveLead(l, [lead[l] EXCEPT !.deleted = TRUE])
  /\ Answer(r)
  /\ UNCHANGED customers

Convert(r, l, code) ==
  /\ Saving(r, "convert", l)
  /\ code = CodeOf[l] \/ \A other \in Leads : code # CodeOf[other]
  /\ code \notin customers
  /\ customers' = customers \cup {code}
  /\ SaveLead(l, Saved(r, lead[l], [Copy(r) EXCEPT !.status = "converted", !.customer = code]))
  /\ Answer(r)

-----------------------------------------------------------------------------
(* OpportunitiesService                                                    *)

Stages == {"open", "won", "lost"}

\* ensureLead and ensureCustomer: they exist.
Names(l) == l # None => lead[l] # Absent /\ ~lead[l].deleted

\* The client may give any stage, won and lost included.
CreateOpportunity(o, stage, l, customer) ==
  /\ opportunity[o] = NoOpportunity
  /\ Names(l)
  /\ SaveOpportunity(o, [stage |-> stage, lead |-> l, customer |-> customer, deleted |-> FALSE])
  /\ UNCHANGED <<customers, requestVars>>

ReadOpportunity(r, o, op, stages) ==
  opportunity[o].stage \in stages /\ ~opportunity[o].deleted /\ Take(r, op, o, opportunity[o])

\* A mistake the runs must notice: a lost opportunity can be won.
ReadToWinLost(r, o) == ReadOpportunity(r, o, "check win", {"open", "lost"})

ReadToEdit(r, o) == ReadOpportunity(r, o, "edit", {"open"})
ReadToWin(r, o) == ReadOpportunity(r, o, "check win", {"open"})
ReadToLose(r, o) == ReadOpportunity(r, o, "lose", {"open"})
ReadToRemoveOpportunity(r, o) == ReadOpportunity(r, o, "remove", {"open", "lost"})

\* The transaction of markWon reads the opportunity again and does not look at
\* its stage; a deleted lead is not read with it.
ReadToWinAgain(r, o) ==
  /\ Doing(r, "check win", o)
  /\ ~opportunity[o].deleted
  /\ Reread(r, "win", [row |-> opportunity[o],
                       lead |-> IF Names(opportunity[o].lead) THEN opportunity[o].lead ELSE None])

LoadOpportunity(r, o) ==
  \E op \in {"edit", "win", "lose"} : Doing(r, op, o) /\ Load(r, opportunity[o])

\* The lead and the customer matter here only if there was none before.
Edit(r, o, stage, l, customer) ==
  /\ Saving(r, "edit", o)
  /\ Names(l)
  /\ SaveOpportunity(o, Saved(r, opportunity[o],
       [Copy(r) EXCEPT !.stage = stage,
                       !.lead = IF @ = None THEN l ELSE @,
                       !.customer = IF @ = None THEN customer ELSE @]))
  /\ Answer(r)
  /\ UNCHANGED customers

NeedsCustomer(r) == Copy(r).row.customer = None /\ Copy(r).lead # None

SaveWon(r, o, customer) ==
  SaveOpportunity(o, Saved(r, opportunity[o],
    [Copy(r).row EXCEPT !.stage = "won", !.customer = customer]))

Win(r, o) ==
  /\ Saving(r, "win", o)
  /\ IF NeedsCustomer(r)
     THEN LET code == CodeOf[Copy(r).lead]
          IN  /\ code \notin customers
              /\ customers' = customers \cup {code}
              /\ SaveWon(r, o, code)
     ELSE /\ SaveWon(r, o, Copy(r).row.customer)
          /\ UNCHANGED customers
  /\ Answer(r)

Lose(r, o) ==
  /\ Saving(r, "lose", o)
  /\ SaveOpportunity(o, Saved(r, opportunity[o], [Copy(r) EXCEPT !.stage = "lost"]))
  /\ Answer(r)
  /\ UNCHANGED customers

RemoveOpportunity(r, o) ==
  /\ Doing(r, "remove", o)
  /\ SaveOpportunity(o, [opportunity[o] EXCEPT !.deleted = TRUE])
  /\ Answer(r)
  /\ UNCHANGED customers

-----------------------------------------------------------------------------

CrmRead(r) ==
  \/ \E l \in Used(Leads) : ReadToEditLead(r, l) \/ ReadToRemoveLead(r, l) \/ ReadToConvert(r, l)
  \/ \E o \in Used(Opportunities) :
       \/ ReadToEdit(r, o) \/ ReadToWin(r, o) \/ ReadToWinAgain(r, o)
       \/ ReadToLose(r, o) \/ ReadToRemoveOpportunity(r, o)

CrmLoad(r) ==
  \/ \E l \in Used(Leads) : LoadLead(r, l)
  \/ \E o \in Used(Opportunities) : LoadOpportunity(r, o)

LeadCommit(r) ==
  \E l \in Used(Leads) :
    \/ \E status \in {"open", "disqualified", "converted"} : EditLead(r, l, status)
    \/ RemoveLead(r, l)
    \/ \E code \in Codes : Convert(r, l, code)

OpportunityCommit(r) ==
  \E o \in Used(Opportunities) :
    \/ \E stage \in Stages, l \in Leads \cup {None}, customer \in {None, Chosen} :
         Edit(r, o, stage, l, customer)
    \/ Win(r, o) \/ Lose(r, o) \/ RemoveOpportunity(r, o)

CrmNext ==
  \/ \E l \in Used(Leads), status \in {"open", "disqualified", "converted"} : CreateLead(l, status)
  \/ \E o \in Used(Opportunities), stage \in Stages, l \in Leads \cup {None}, customer \in {None, Chosen} :
       CreateOpportunity(o, stage, l, customer)
  \/ \E r \in Requests :
       \/ (CrmRead(r) \/ CrmLoad(r)) /\ UNCHANGED crmVars
       \/ LeadCommit(r) \/ OpportunityCommit(r)
=============================================================================
