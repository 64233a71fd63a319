---------------------------- MODULE LeadPromise ----------------------------
(***************************************************************************)
(* What the leads table promises about the outside world.  A lead enters   *)
(* under an id for which nothing was ever mailed, and says of itself that   *)
(* the CRM knows it, or that documents have reached the visitor, only when  *)
(* that is so; once said it is not taken back for as long as the lead       *)
(* lives.  Freshsales and SendGrid may have done more than a lead says.     *)
(***************************************************************************)
CONSTANTS Emails, Ids, None
VARIABLES
    lead,       \* lead[e]: the lead of the address e, or None
    known,      \* the addresses that have a contact in the CRM
    posted      \* the ids for which documents have been mailed

promise == <<lead, known, posted>>

Lead == [id: Ids, synced: BOOLEAN, delivered: BOOLEAN]

Init ==
    /\ lead = [e \in Emails |-> None]
    /\ known = {}
    /\ posted = {}

Capture(e, i) ==
    /\ lead[e] = None
    /\ i \notin posted
    /\ \A f \in Emails : lead[f] # None => lead[f].id # i
    /\ lead' = [lead EXCEPT ![e] = [id |-> i, synced |-> FALSE, delivered |-> FALSE]]
    /\ UNCHANGED <<known, posted>>

\* A contact appears in the CRM, documents are mailed for a lead (which may
\* have been deleted since).
Upsert(e) == known' = known \cup {e} /\ UNCHANGED <<lead, posted>>
Post(i) == posted' = posted \cup {i} /\ UNCHANGED <<lead, known>>

\* The row is told what has happened, or part of it.
Note(e, l) ==
    /\ lead[e] # None
    /\ l.id = lead[e].id
    /\ lead[e].synced => l.synced
    /\ lead[e].delivered => l.delivered
    /\ l.synced => e \in known
    /\ l.delivered => l.id \in posted
    /\ lead' = [lead EXCEPT ![e] = l]
    /\ UNCHANGED <<known, posted>>

Delete(E) ==
    /\ lead' = [e \in Emails |-> IF e \in E THEN None ELSE lead[e]]
    /\ UNCHANGED <<known, posted>>

Next ==
    \/ \E e \in Emails, i \in Ids : Capture(e, i)
    \/ \E e \in Emails : Upsert(e)
    \/ \E i \in Ids : Post(i)
    \/ \E e \in Emails, l \in Lead : Note(e, l)
    \/ \E E \in SUBSET Emails : Delete(E)

Spec == Init /\ [][Next]_promise
=============================================================================
