--------------------------- MODULE MCJobScheduler ---------------------------
(***************************************************************************)
(* The scheduler, and two things that must go on while it runs: the triage  *)
(* job and the Freshsales client.  They share no state, so a behaviour is   *)
(* of one `part` and the others stay as they are.  The scheduler has two    *)
(* instances, two jobs and a pool that two runs can exhaust.  "triage" has  *)
(* reps and one lead, "window" more leads than the limit and no reps.       *)
(***************************************************************************)
EXTENDS JobScheduler, FreshsalesCalls, LeadTriage

VARIABLE part

allVars == <<part, vars, callVars, triageVars>>

MCInit ==
    /\ part \in {"jobs", "calls", "triage", "window"}
    /\ Init /\ CallInit /\ TriageInit
    /\ part # "calls" => \A d \in Deals : pipeline[d] = CHOOSE p \in Pipelines : TRUE
    /\ part # "triage" => \A l \in TriageLeads : triage[l] # None
    /\ part = "triage" => \A l \in TriageLeads : (triage[l] = None) <=> (l > 1)

MCNext ==
    \/ part = "jobs" /\ Next /\ UNCHANGED <<part, callVars, triageVars>>
    \/ part = "calls" /\ CallNext /\ UNCHANGED <<part, vars, triageVars>>
    \/ part = "triage" /\ TriageNext /\ UNCHANGED <<part, vars, callVars>>
    \/ part = "window" /\ TriageNext /\ patch' = patch /\ UNCHANGED <<part, vars, callVars>>

MCSpec == MCInit /\ [][MCNext]_allVars /\ Fairness /\ CallFairness /\ TriageFairness
=============================================================================
