---------------------------- MODULE LeadTriage ----------------------------
(***************************************************************************)
(* The Hot Leads queue: reps triage leads in the dashboard, and a job moves *)
(* a lead out of "new" when Freshsales shows that it was contacted there.   *)
(* The job loads a batch once and then asks the CRM lead by lead; reps and  *)
(* deletions go on meanwhile.                                               *)
(***************************************************************************)
EXTENDS Naturals, FiniteSets, UnitOfWork

CONSTANTS
    LeadCount,      \* leads, numbered in the order of created_at
    Reps,           \* e-mail addresses of the admins who triage
    TriageLimit,    \* limit=200 of the job
    MaxTriageFaults \* bound: transport errors

ASSUME TriageAssumptions ==
    /\ LeadCount \in Nat \ {0} /\ TriageLimit \in Nat \ {0} /\ MaxTriageFaults \in Nat
    /\ None \notin Reps

TriageLeads == 1 .. LeadCount
Statuses == {"new", "contacted", "snoozed"}  \* "dismissed" is like "snoozed"
SystemTriageBy == "freshsales-sync"

\* The triage columns of a lead.
Triage == [status: Statuses, by: Reps \cup {SystemTriageBy, None}]

ASSUME NoTriageAssumption == None \notin Triage /\ SystemTriageBy \notin Reps \cup {None}

\* An open PATCH: the lead as loaded and the status asked for.
Patch == [lead: TriageLeads, copy: Triage, status: Statuses]

VARIABLES
    triage,     \* the leads, None for a deleted one
    pushed,     \* leads with a crm_contact_id
    contacted,  \* CRM: contacts with last_contacted
    unfetchable,\* CRM: contacts whose fetch answers an HTTP error (deleted there)
    batch,      \* the job: its leads still to check, with the copies it loaded
    checked,    \* the job: the lead it has just found contacted, or None
    patch,      \* the open PATCH of each rep, or None
    tfaults,
    late        \* history: leads a rep decided on since the job loaded its batch

triageVars == <<triage, pushed, contacted, unfetchable, batch, checked, patch, tfaults, late>>

TriageTypeOK ==
    /\ triage \in [TriageLeads -> Triage \cup {None}]
    /\ pushed \subseteq TriageLeads
    /\ contacted \subseteq TriageLeads
    /\ unfetchable \subseteq TriageLeads
    /\ batch \in [TriageLeads -> Triage \cup {None}]
    /\ checked \in TriageLeads \cup {None}
    /\ patch \in [Reps -> Patch \cup {None}]
    /\ tfaults \in 0 .. MaxTriageFaults
    /\ late \subseteq TriageLeads

NoBatch == [l \in TriageLeads |-> None]
NewTriage == [status |-> "new", by |-> None]

\* No lead has been triaged; some of the numbers are not in use.
TriageInit ==
    /\ triage \in [TriageLeads -> {NewTriage, None}]
    /\ pushed = {} /\ contacted = {} /\ unfetchable = {}
    /\ batch = NoBatch /\ checked = None
    /\ patch = [r \in Reps |-> None]
    /\ tfaults = 0 /\ late = {}

\* The leads of the batch that are still to be checked.
Pending == {l \in TriageLeads : batch[l] # None}

-----------------------------------------------------------------------------
(* Freshsales, and the CRM sync of the leads                                *)

\* A lead gets its contact when the CRM sync pushes it.
LeadPushed(l) ==
    /\ triage[l] # None /\ l \notin pushed
    /\ pushed' = pushed \cup {l}
    /\ UNCHANGED <<triage, contacted, unfetchable, batch, checked, patch, tfaults, late>>

\* A rep calls or mails the contact in Freshsales itself.
ContactedInCrm(l) ==
    /\ l \in pushed \ contacted
    /\ contacted' = contacted \cup {l}
    /\ UNCHANGED <<triage, pushed, unfetchable, batch, checked, patch, tfaults, late>>

ContactDeletedInCrm(l) ==
    /\ l \in pushed \ unfetchable
    /\ unfetchable' = unfetchable \cup {l}
    /\ UNCHANGED <<triage, pushed, contacted, batch, checked, patch, tfaults, late>>

-----------------------------------------------------------------------------
(* PATCH /leads/{id}/triage, and DELETE of a lead                           *)

\* leads_repo.set_triage over a loaded copy.  triage_at always changes; status
\* and by are written when they differ from what was loaded.
SetTriage(stored, copy, status, by) == Flushed(stored, copy, [status |-> status, by |-> by])

PatchLoads(r, l, status) ==
    /\ patch[r] = None /\ triage[l] # None
    /\ patch' = [patch EXCEPT ![r] = [lead |-> l, copy |-> triage[l], status |-> status]]
    /\ UNCHANGED <<triage, pushed, contacted, unfetchable, batch, checked, tfaults, late>>

\* A lead deleted since it was loaded makes the UPDATE fail: 500.
PatchCommits(r) ==
    /\ patch[r] # None
    /\ LET p == patch[r]
       IN  \/ /\ triage[p.lead] # None
              /\ triage' = [triage EXCEPT ![p.lead] = SetTriage(@, p.copy, p.status, r)]
              /\ late' = IF p.lead \in Pending \cup {checked} THEN late \cup {p.lead} ELSE late
           \/ triage[p.lead] = None /\ UNCHANGED <<triage, late>>
    /\ patch' = [patch EXCEPT ![r] = None]
    /\ UNCHANGED <<pushed, contacted, unfetchable, batch, checked, tfaults>>

LeadDeleted(l) ==
    /\ triage[l] # None
    /\ triage' = [triage EXCEPT ![l] = None]
    /\ UNCHANGED <<pushed, contacted, unfetchable, batch, checked, patch, tfaults, late>>

-----------------------------------------------------------------------------
(* The job                                                                  *)

\* The oldest `TriageLimit` leads of a set.
Oldest(S) == {l \in S : Cardinality({k \in S : k < l}) < TriageLimit}

\* Mutant: the query does not look at the status.
ListUntriagedAnyStatus == Oldest({l \in TriageLeads : triage[l] # None /\ l \in pushed})

\* leads_repo.list_untriaged_with_crm_contact
ListUntriaged ==
    Oldest({l \in TriageLeads : triage[l] # None /\ triage[l].status = "new" /\ l \in pushed})

SweepLoads ==
    /\ Pending = {} /\ checked = None /\ ListUntriaged # {}
    /\ batch' = [l \in TriageLeads |-> IF l \in ListUntriaged THEN triage[l] ELSE None]
    /\ late' = {}
    /\ UNCHANGED <<triage, pushed, contacted, unfetchable, checked, patch, tfaults>>

\* The sweep ends; what it has committed stays.
SweepEnds == batch' = NoBatch /\ checked' = None

\* Mutant: an HTTP error ends the sweep.
FetchFailsStops(l) == SweepEnds

\* An HTTP error is logged and the lead passed over.
FetchFails(l) == batch' = [batch EXCEPT ![l] = None] /\ UNCHANGED checked

\* client.get of the oldest lead left.
FetchContact ==
    /\ checked = None
    /\ \E l \in Pending :
        /\ \A k \in Pending : l <= k
        /\ \/ l \in unfetchable /\ FetchFails(l)
           \/ /\ l \notin unfetchable /\ l \notin contacted
              /\ batch' = [batch EXCEPT ![l] = None] /\ UNCHANGED checked
           \/ l \notin unfetchable /\ l \in contacted /\ checked' = l /\ UNCHANGED batch
    /\ UNCHANGED <<triage, pushed, contacted, unfetchable, patch, tfaults, late>>

\* A transport error is not an HTTPStatusError: it ends the job's run.
TransportError ==
    /\ checked = None /\ Pending # {}
    /\ tfaults < MaxTriageFaults /\ tfaults' = tfaults + 1
    /\ SweepEnds
    /\ UNCHANGED <<triage, pushed, contacted, unfetchable, patch, late>>

\* set_triage commits over the copy of the batch; a lead deleted meanwhile
\* raises, which ends the run.
Advance ==
    /\ checked # None
    /\ \/ /\ triage[checked] # None
          /\ triage' = [triage EXCEPT ![checked] =
                            SetTriage(@, batch[checked], "contacted", SystemTriageBy)]
          /\ batch' = [batch EXCEPT ![checked] = None]
          /\ checked' = None
       \/ triage[checked] = None /\ SweepEnds /\ UNCHANGED triage
    /\ UNCHANGED <<pushed, contacted, unfetchable, patch, tfaults, late>>

Sweep == SweepLoads \/ FetchContact \/ Advance

TriageNext ==
    \/ \E l \in TriageLeads :
        \/ LeadPushed(l) \/ ContactedInCrm(l) \/ ContactDeletedInCrm(l) \/ LeadDeleted(l)
        \/ \E r \in Reps, status \in Statuses : PatchLoads(r, l, status)
    \/ \E r \in Reps : PatchCommits(r)
    \/ Sweep \/ TransportError

\* The scheduler runs the job every triage_sync_interval_minutes.
TriageFairness == WF_triageVars(Sweep)

TriageSpec == TriageInit /\ [][TriageNext]_triageVars /\ TriageFairness

-----------------------------------------------------------------------------
(* Properties                                                               *)

\* lead_triage_sync "can't fight with or reverse someone's own triage
\* decision": a lead that a rep has moved out of "new" is never taken over by
\* the job, unless the rep decided after the job had loaded its batch.
RepDecisionStands ==
    [][\A l \in TriageLeads :
        triage[l] # None /\ triage'[l] # None
        /\ triage[l].by \in Reps /\ triage[l].status # "new"
        /\ triage'[l].by = SystemTriageBy
            => l \in late]_triageVars

\* A lead contacted in Freshsales leaves "new" (or the table) although other
\* contacts cannot be fetched, as long as it stays among the oldest
\* `TriageLimit` candidates.  Leads nobody contacts stay candidates for ever:
\* behind TriageLimit of them a contacted lead is never checked.
ContactedIsNoticed ==
    \A l \in TriageLeads :
        (l \in ListUntriaged /\ l \in contacted /\ l \notin unfetchable)
            ~> (l \notin ListUntriaged \/ l \in unfetchable)
=============================================================================
