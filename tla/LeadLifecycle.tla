--------------------------- MODULE LeadLifecycle ---------------------------
(***************************************************************************)
(* The life of a captured lead: public capture (create or merge by         *)
(* e-mail), the push to the Freshsales CRM, the delivery of the digital    *)
(* pack by e-mail, the staff operations on one lead or one campaign, and   *)
(* the restarts of the service.                                            *)
(*                                                                         *)
(* One campaign is modelled.  A worker is one open database session: an    *)
(* HTTP request that captures a lead (Captures), a run of the CRM sweep or *)
(* a forced sync (Syncers), a run of the pack sweep or a resend (Packers). *)
(* Between two awaits a worker keeps the columns it has loaded (snap); an  *)
(* UPDATE writes only the columns that differ from what was loaded, which  *)
(* is what SQLAlchemy's unit of work emits with expire_on_commit=False.    *)
(* Every step below is one database statement with its commit, or one call *)
(* to Freshsales or SendGrid.                                              *)
(*                                                                         *)
(* Left out: the notification to the sales team and the confirmation of an *)
(* application, two mails that read the lead and write nothing, and the    *)
(* engagement events of EmailEvents (a lead that has one can no longer be  *)
(* deleted; the leads that are deleted here have none).                    *)
(***************************************************************************)
EXTENDS Naturals, FiniteSets

CONSTANTS
    Emails,         \* normalised visitor addresses
    Infos,          \* values of the descriptive columns (name, company, ...)
    Labels,         \* labels a visitor can tick on the form
    Materials,      \* the labels in config["materials"]
    Payloads,       \* the submissions a visitor can make
    Captures,       \* concurrent capture requests
    Syncers,        \* concurrent CRM sweeps and forced syncs
    Packers,        \* concurrent pack sweeps and resends
    Refused,        \* addresses that Freshsales always refuses to upsert
    BatchLimit,     \* limit=200 of the two sweeps
    MaxSubmits,     \* bound: submissions in a behaviour
    MaxFaults,      \* bound: calls that fail and restarts in a behaviour
    MaxStaff,       \* bound: operations of the staff in a behaviour
    Campaigns,      \* the states the campaign can be edited to
    SettingsChoices,\* the settings a restart can bring up
    None            \* SQL NULL, no row, nothing loaded

Workers == Captures \cup Syncers \cup Packers

Payload == [info: Infos, materials: SUBSET Labels, inspection: BOOLEAN,
            second: BOOLEAN]

\* active: accepts captures; sync: config["crm_sync_enabled"];
\* assets: the materials that have a download link.
Campaign == [active: BOOLEAN, sync: BOOLEAN, assets: SUBSET Materials]

\* crm: freshsales_lead_sync_enabled; mail: wtc_sendgrid_api_key is set.
Settings == [crm: BOOLEAN, mail: BOOLEAN]

ASSUME LeadAssumptions ==
    /\ Materials \subseteq Labels
    /\ Payloads \subseteq Payload
    /\ Refused \subseteq Emails
    /\ Campaigns \subseteq Campaign
    /\ SettingsChoices \subseteq Settings
    /\ BatchLimit \in Nat \ {0}
    /\ MaxSubmits \in Nat /\ MaxFaults \in Nat /\ MaxStaff \in Nat
    /\ Captures \cap Syncers = {}
    /\ Captures \cap Packers = {}
    /\ Syncers \cap Packers = {}

Ids == 1 .. MaxSubmits

CrmStatus == {"pending", "synced", "failed", "skipped"}
PackStatus == {"not_requested", "pending", "sent", "failed", "skipped"}

\* The columns of one row of `leads` that the life cycle reads or writes.
Row == [id: Ids, info: Infos, materials: SUBSET Labels, inspection: BOOLEAN,
        second: BOOLEAN, crm: CrmStatus, contact: BOOLEAN, pack: PackStatus,
        delivered: SUBSET Labels]

\* What the CRM holds on one address: the details last pushed, and whether
\* they said that the collateral had been sent.
Contact == [info: Infos, collateral: BOOLEAN]

ASSUME NoneAssumption ==
    /\ None \notin Row /\ None \notin Contact
    /\ None \notin [id: Ids, synced: BOOLEAN, delivered: BOOLEAN]

Labels_pc == {"idle", "save", "recover", "saved", "mail", "viewing", "record",
              "record_viewing", "recorded", "viewed", "next", "push", "second",
              "error"}

\* One open session: where it is (pc), the number of the submission it makes
\* (no), the address it works on, the submission it carries (req), whether it
\* inserted the lead (created), the campaign (camp) and the lead (snap) as it
\* loaded them, the lead with the attributes it has set since (new), and the
\* leads a sweep has loaded and not worked on yet (batch).
\* lost is history: a lead it had loaded was deleted while it was open.
Session == [pc: Labels_pc, no: 0 .. MaxSubmits, email: Emails \cup {None},
            req: Payload \cup {None}, created: BOOLEAN,
            camp: Campaign \cup {None}, snap: Row \cup {None},
            new: Row \cup {None}, batch: [Emails -> Row \cup {None}],
            lost: BOOLEAN]

VARIABLES
    rows,       \* the leads table: at most one row per address
    contacts,   \* Freshsales: what the CRM holds on each address
    seconds,    \* Freshsales: addresses whose second participant is a contact
    mailed,     \* SendGrid: the materials mailed for each lead id
    campaign,   \* the campaign row
    settings,   \* the settings of the running deployment
    ses,        \* the session of each worker
    submits, faults, staff,     \* how much of each bound is used
    raced       \* history: addresses whose row was written under a copy

outside == <<contacts, seconds, mailed>>
config == <<campaign, settings>>
bounds == <<submits, faults, staff>>
vars == <<rows, outside, config, ses, bounds, raced>>

-----------------------------------------------------------------------------
(* The lead row: what capture, the CRM push and the pack delivery set.      *)

\* Mutant: the branch for nothing requested has lost its return.
NextPackStatusFallsThrough(existing, p) ==
    IF p.materials = {} THEN None ELSE "pending"

\* _next_pack_status: a re-submit of nothing new leaves a delivered pack alone.
NextPackStatus(existing, p) ==
    CASE p.materials = {} ->
            IF existing # None /\ existing.pack = "sent"
            THEN "sent" ELSE "not_requested"
      [] p.materials # {} ->
            IF /\ existing # None
               /\ existing.pack = "sent"
               /\ p.materials \subseteq existing.materials
            THEN "sent" ELSE "pending"

\* Mutant: a merge leaves the CRM status as it was.
ApplyPayloadKeepsStatus(r, p) ==
    [r EXCEPT !.info = p.info, !.materials = p.materials,
              !.inspection = p.inspection, !.second = p.second,
              !.pack = NextPackStatus(r, p)]

\* _apply_payload on a row found by the dedup lookup.
ApplyPayload(r, p) ==
    [r EXCEPT !.info = p.info, !.materials = p.materials,
              !.inspection = p.inspection, !.second = p.second,
              !.crm = "pending", !.pack = NextPackStatus(r, p)]

\* _apply_payload on Lead(campaign_id, email).  The id is the submission's
\* number: created_at is now(), the start of the inserting transaction.
NewLead(id, p) ==
    [id |-> id, info |-> p.info, materials |-> p.materials,
     inspection |-> p.inspection, second |-> p.second, crm |-> "pending",
     contact |-> FALSE, pack |-> NextPackStatus(None, p), delivered |-> {}]

\* The materials of a lead that can be mailed: ticked, real and with a link.
Deliverable(r, c) == r.materials \cap c.assets

\* deliver_pack before any mail: nothing to send, or no transport.
Undeliverable(r, c) ==
    IF Deliverable(r, c) = {}
    THEN [r EXCEPT !.pack = IF r.materials \cap Materials # {}
                            THEN "failed" ELSE "not_requested"]
    ELSE [r EXCEPT !.pack = "skipped"]

\* The documents reached the visitor: a synced lead is queued for the CRM again.
MarkDelivered(r, docs) ==
    [r EXCEPT !.pack = "sent", !.delivered = docs,
              !.crm = IF r.crm = "synced" THEN "pending" ELSE r.crm]

\* The UPDATE a session emits: only the columns it has changed.
Merge(stored, loaded, set) ==
    [c \in DOMAIN stored |->
        IF set[c] # loaded[c] THEN set[c] ELSE stored[c]]

-----------------------------------------------------------------------------
(* Sessions                                                                 *)

NoBatch == [e \in Emails |-> None]

Closed == [pc |-> "idle", no |-> 0, email |-> None, req |-> None, created |-> FALSE,
           camp |-> None, snap |-> None, new |-> None, batch |-> NoBatch,
           lost |-> FALSE]

Continue(w, s) == ses' = [ses EXCEPT ![w] = s]
Close(w) == Continue(w, Closed)
Fail(w) == Continue(w, [Closed EXCEPT !.pc = "error", !.lost = ses[w].lost])

\* Mutant: rows are found again by address instead of by id.
PresentByEmail(w) == rows[ses[w].email] # None

\* The row the worker loaded is still there (that id, not a successor's).
Present(w) ==
    LET s == ses[w]
    IN  rows[s.email] # None /\ rows[s.email].id = s.snap.id

\* The worker relies on e's row as it loaded (or ran into) it earlier.
Holds(w, e) ==
    LET s == ses[w]
    IN  \/ s.email = e /\ (s.snap # None \/ s.pc = "recover")
        \/ s.batch[e] # None

\* A write of e's row by w; a copy held elsewhere is out of date from now on.
WriteRow(w, e, r) ==
    /\ rows' = [rows EXCEPT ![e] = r]
    /\ raced' = IF \E v \in Workers \ {w} : Holds(v, e)
                THEN raced \cup {e} ELSE raced

StaffStep == staff < MaxStaff /\ staff' = staff + 1

-----------------------------------------------------------------------------
(* Capture: POST /campaigns/{slug}/leads                                    *)

\* The campaign is read (an inactive one answers 409) and the row looked up.
CaptureStart(w, e, p) ==
    /\ ses[w].pc = "idle"
    /\ submits < MaxSubmits
    /\ campaign.active
    /\ Continue(w, [Closed EXCEPT !.pc = "save", !.no = submits + 1, !.email = e,
                        !.req = p, !.camp = campaign, !.snap = rows[e]])
    /\ submits' = submits + 1
    /\ UNCHANGED <<rows, outside, config, faults, staff, raced>>

\* Mutant: the unique violation is not caught.
CaptureInsertNoRecovery(w) ==
    LET s == ses[w]
        r == NewLead(s.no, s.req)
    IN  /\ s.pc = "save" /\ s.snap = None
        /\ \/ /\ rows[s.email] = None
              /\ WriteRow(w, s.email, r)
              /\ Continue(w, [s EXCEPT !.pc = "saved", !.created = TRUE, !.no = 0,
                                       !.req = None, !.snap = r])
           \/ rows[s.email] # None /\ Fail(w) /\ UNCHANGED <<rows, raced>>
        /\ UNCHANGED <<outside, config, bounds>>

\* No row was found: INSERT, refused by the unique index if one exists now.
CaptureInsert(w) ==
    LET s == ses[w]
        r == NewLead(s.no, s.req)
    IN  /\ s.pc = "save" /\ s.snap = None
        /\ \/ /\ rows[s.email] = None
              /\ WriteRow(w, s.email, r)
              /\ Continue(w, [s EXCEPT !.pc = "saved", !.created = TRUE, !.no = 0,
                                       !.req = None, !.snap = r])
           \/ /\ rows[s.email] # None
              /\ Continue(w, [s EXCEPT !.pc = "recover"])
              /\ UNCHANGED <<rows, raced>>
        /\ UNCHANGED <<outside, config, bounds>>

\* After the unique violation and the rollback: fetch the row that won.
CaptureRecover(w) ==
    LET s == ses[w]
    IN  /\ s.pc = "recover"
        /\ IF rows[s.email] = None
           THEN Fail(w)
           ELSE Continue(w, [s EXCEPT !.pc = "save", !.snap = rows[s.email],
                                      !.camp = campaign])
        /\ UNCHANGED <<rows, outside, config, bounds, raced>>

\* A row was found: overwrite it from the payload.
CaptureMerge(w) ==
    LET s == ses[w]
        r == ApplyPayload(s.snap, s.req)
    IN  /\ s.pc = "save" /\ s.snap # None
        /\ \/ /\ Present(w)
              /\ WriteRow(w, s.email, Merge(rows[s.email], s.snap, r))
              /\ Continue(w, [s EXCEPT !.pc = "saved", !.no = 0, !.req = None,
                                       !.snap = r])
           \/ /\ ~Present(w)
              /\ Fail(w)
              /\ UNCHANGED <<rows, raced>>
        /\ UNCHANGED <<outside, config, bounds>>

\* What the endpoint does once the refreshed lead is in hand.
AfterCapture(s) ==
    IF s.created /\ s.snap.inspection
    THEN [s EXCEPT !.pc = "viewing"]
    ELSE Closed

\* deliver_pack up to its first await: mail, or record why there is no mail.
DeliverPack(s) ==
    IF Deliverable(s.snap, s.camp) # {} /\ settings.mail
    THEN [s EXCEPT !.pc = "mail"]
    ELSE [s EXCEPT !.pc = "record", !.new = Undeliverable(s.snap, s.camp)]

\* refresh(lead) after the commit, then the inline delivery of a pending pack.
CaptureSaved(w) ==
    LET s == [ses[w] EXCEPT !.snap = rows[ses[w].email]]
    IN  /\ ses[w].pc = "saved"
        /\ IF ~Present(w)
           THEN Fail(w)
           ELSE Continue(w, IF s.snap.pack = "pending"
                            THEN DeliverPack(s) ELSE AfterCapture(s))
        /\ UNCHANGED <<rows, outside, config, bounds, raced>>

-----------------------------------------------------------------------------
(* Pack delivery: inline, by the sweep and by the resend endpoint           *)

\* send_campaign_email: SendGrid accepts a mail with docs for the lead id.
SendCampaignEmail(id, docs) == mailed' = [mailed EXCEPT ![id] = @ \cup docs]

\* The call to SendGrid: accepted and answered, lost, or accepted without an
\* answer (the 15 s timeout), which the code records as a failure.
MailPack(w) ==
    LET s == ses[w]
        docs == Deliverable(s.snap, s.camp)
        sent == SendCampaignEmail(s.snap.id, docs)
        fail == /\ faults < MaxFaults /\ faults' = faults + 1
                /\ Continue(w, [s EXCEPT !.pc = "record",
                                         !.new = [s.snap EXCEPT !.pack = "failed"]])
    IN  /\ s.pc = "mail"
        /\ \/ /\ sent
              /\ Continue(w, [s EXCEPT !.pc = "record",
                                       !.new = MarkDelivered(s.snap, docs)])
              /\ UNCHANGED faults
           \/ fail /\ UNCHANGED mailed
           \/ fail /\ sent
        /\ UNCHANGED <<rows, contacts, seconds, config, submits, staff, raced>>

\* Every document of the campaign that has a link.
AllMaterials(c) == c.assets

\* deliver_viewing: the viewing mail carries every document of the campaign.
MailViewing(w) ==
    LET s == ses[w]
        docs == AllMaterials(s.camp)
        sent == SendCampaignEmail(s.snap.id, docs)
        fail == faults < MaxFaults /\ faults' = faults + 1 /\ Close(w)
    IN  /\ s.pc = "viewing"
        /\ \/ /\ settings.mail
              /\ sent
              /\ IF s.snap.pack = "sent" \/ docs = {}
                 THEN Close(w)
                 ELSE Continue(w, [s EXCEPT !.pc = "record_viewing",
                                            !.new = MarkDelivered(s.snap, docs)])
              /\ UNCHANGED faults
           \/ ~settings.mail /\ Close(w) /\ UNCHANGED <<mailed, faults>>
           \/ settings.mail /\ fail /\ UNCHANGED mailed
           \/ settings.mail /\ fail /\ sent
        /\ UNCHANGED <<rows, contacts, seconds, config, submits, staff, raced>>

\* leads_repo.update: the UPDATE fails if the row it was loaded from is gone.
Record(w) ==
    LET s == ses[w]
    IN  /\ s.pc \in {"record", "record_viewing"}
        /\ \/ /\ Present(w)
              /\ WriteRow(w, s.email, Merge(rows[s.email], s.snap, s.new))
              /\ Continue(w, [s EXCEPT
                    !.pc = IF s.pc = "record" THEN "recorded" ELSE "viewed",
                    !.snap = s.new, !.new = None])
           \/ /\ ~Present(w)
              /\ Fail(w)
              /\ UNCHANGED <<rows, raced>>
        /\ UNCHANGED <<outside, config, bounds>>

\* refresh(lead) after that commit; then the next mail, lead or the answer.
Recorded(w) ==
    LET s == [ses[w] EXCEPT !.snap = rows[ses[w].email]]
    IN  /\ ses[w].pc \in {"recorded", "viewed"}
        /\ IF ~Present(w)
           THEN Fail(w)
           ELSE CASE w \in Captures ->
                        Continue(w, IF s.pc = "recorded"
                                    THEN AfterCapture(s) ELSE Closed)
                  [] w \notin Captures ->
                        Continue(w, [s EXCEPT !.pc = "next", !.email = None,
                                              !.snap = None])
        /\ UNCHANGED <<rows, outside, config, bounds, raced>>

\* The oldest leads in one of the given states, at most BatchLimit of them.
Oldest(B, Waiting) ==
    /\ B \subseteq Waiting
    /\ Cardinality(B) <= BatchLimit
    /\ B # Waiting => Cardinality(B) = BatchLimit
    /\ \A e \in B, f \in Waiting \ B : rows[e].id < rows[f].id

Load(w, B) ==
    Continue(w, [Closed EXCEPT !.pc = "next",
                    !.batch = [e \in Emails |-> IF e \in B THEN rows[e] ELSE None]])

\* Mutants: the sweeps leave failed leads out.
AwaitingPackOnlyPending == {e \in Emails : rows[e] # None /\ rows[e].pack = "pending"}
AwaitingSyncOnlyPending == {e \in Emails : rows[e] # None /\ rows[e].crm = "pending"}

AwaitingPack == {e \in Emails : rows[e] # None /\ rows[e].pack \in {"pending", "failed"}}
AwaitingSync == {e \in Emails : rows[e] # None /\ rows[e].crm \in {"pending", "failed"}}

\* The next lead of the batch, oldest first.
First(b, e) ==
    /\ b[e] # None
    /\ \A f \in Emails : b[f] # None => b[e].id <= b[f].id

\* The sweep turns to e's lead; its first lead makes it load the campaign.
Work(s, e) ==
    [s EXCEPT !.email = e, !.snap = s.batch[e], !.batch[e] = None,
              !.camp = IF @ = None THEN campaign ELSE @]

\* deliver_pending: one SELECT loads the whole batch.
PackSweep(w) ==
    /\ ses[w].pc = "idle"
    /\ \E B \in SUBSET AwaitingPack : B # {} /\ Oldest(B, AwaitingPack) /\ Load(w, B)
    /\ UNCHANGED <<rows, outside, config, bounds, raced>>

PackNext(w) ==
    LET s == ses[w]
    IN  /\ s.pc = "next"
        /\ \/ s.batch = NoBatch /\ Close(w)
           \/ \E e \in Emails :
                /\ First(s.batch, e)
                /\ Continue(w, DeliverPack(Work(s, e)))
        /\ UNCHANGED <<rows, outside, config, bounds, raced>>

\* resend-pack on one lead: whatever its status, by viewing mail or by pack.
Resend(w, e) ==
    LET s == [Closed EXCEPT !.email = e, !.camp = campaign, !.snap = rows[e]]
    IN  /\ ses[w].pc = "idle"
        /\ StaffStep
        /\ rows[e] # None
        /\ Continue(w, IF rows[e].inspection /\ rows[e].materials = {}
                       THEN [s EXCEPT !.pc = "viewing"] ELSE DeliverPack(s))
        /\ UNCHANGED <<rows, outside, config, submits, faults, raced>>

-----------------------------------------------------------------------------
(* CRM sync: the sweep, and the forced sync of one lead                     *)

\* sync_pending: nothing at all happens while the global flag is off.
SyncSweep(w) ==
    /\ ses[w].pc = "idle"
    /\ settings.crm
    /\ \E B \in SUBSET AwaitingSync : B # {} /\ Oldest(B, AwaitingSync) /\ Load(w, B)
    /\ UNCHANGED <<rows, outside, config, bounds, raced>>

\* sync_lead up to its first await: push, or mark the lead skipped.
SyncLead(s, allowed) ==
    IF settings.crm /\ allowed
    THEN [s EXCEPT !.pc = "push"]
    ELSE [s EXCEPT !.pc = "record", !.new = [s.snap EXCEPT !.crm = "skipped"]]

SyncNext(w) ==
    LET s == ses[w]
    IN  /\ s.pc = "next"
        /\ \/ s.batch = NoBatch /\ Close(w)
           \/ \E e \in Emails :
                /\ First(s.batch, e)
                /\ Continue(w, SyncLead(Work(s, e), Work(s, e).camp.sync))
        /\ UNCHANGED <<rows, outside, config, bounds, raced>>

\* sync-crm on one lead: the campaign's kill switch does not apply.
SyncForce(w, e) ==
    /\ ses[w].pc = "idle"
    /\ StaffStep
    /\ rows[e] # None
    /\ Continue(w, SyncLead([Closed EXCEPT !.email = e, !.camp = campaign,
                                           !.snap = rows[e]], TRUE))
    /\ UNCHANGED <<rows, outside, config, submits, faults, raced>>

MarkSynced(r) == [r EXCEPT !.crm = "synced", !.contact = TRUE]

\* The upsert: done and answered, refused, or done without an answer.
Push(w) ==
    LET s == ses[w]
        after == IF s.snap.second THEN "second" ELSE "record"
        done == contacts' = [contacts EXCEPT ![s.email] =
                    [info |-> s.snap.info, collateral |-> s.snap.pack = "sent"]]
        fault == faults < MaxFaults /\ faults' = faults + 1
        fail == Continue(w, [s EXCEPT !.pc = after,
                                      !.new = [s.snap EXCEPT !.crm = "failed"]])
    IN  /\ s.pc = "push"
        /\ \/ /\ s.email \notin Refused
              /\ done
              /\ Continue(w, [s EXCEPT !.pc = after, !.new = MarkSynced(s.snap)])
              /\ UNCHANGED faults
           \/ s.email \in Refused /\ fail /\ UNCHANGED <<contacts, faults>>
           \/ fault /\ fail /\ UNCHANGED contacts
           \/ s.email \notin Refused /\ fault /\ fail /\ done
        /\ UNCHANGED <<rows, seconds, mailed, config, submits, staff, raced>>

\* The second participant's own contact: best effort, the outcome is not kept.
PushSecond(w) ==
    LET s == ses[w]
    IN  /\ s.pc = "second"
        /\ Continue(w, [s EXCEPT !.pc = "record"])
        /\ \/ seconds' = seconds \cup {s.email} /\ UNCHANGED faults
           \/ /\ faults < MaxFaults /\ faults' = faults + 1
              /\ UNCHANGED seconds
        /\ UNCHANGED <<rows, contacts, mailed, config, submits, staff, raced>>

-----------------------------------------------------------------------------
(* Staff operations, failures and restarts                                  *)

\* The exception leaves the handler or the job: the session is closed.
GiveUp(w) ==
    /\ ses[w].pc = "error"
    /\ Close(w)
    /\ UNCHANGED <<rows, outside, config, bounds, raced>>

Remove(E) ==
    /\ rows' = [e \in Emails |-> IF e \in E THEN None ELSE rows[e]]
    /\ ses' = [w \in Workers |->
                [ses[w] EXCEPT !.lost = @ \/ \E e \in E : Holds(w, e)]]
    /\ StaffStep
    /\ UNCHANGED <<outside, config, submits, faults, raced>>

\* DELETE one lead.
DeleteLead(e) == rows[e] # None /\ Remove({e})

\* DELETE the campaign's leads that match the sync_status filter, or all.
BulkDelete(filter) ==
    LET hit == {e \in Emails : rows[e] # None
                    /\ (filter = "all" \/ rows[e].crm = filter)}
    IN  hit # {} /\ Remove(hit)

\* PATCH the campaign: status and config.
UpdateCampaign(c) ==
    /\ StaffStep
    /\ c # campaign
    /\ campaign' = c
    /\ UNCHANGED <<rows, outside, settings, ses, submits, faults, raced>>

\* A crash or a redeploy: every request and job under way is lost.
Restart(s) ==
    /\ faults < MaxFaults
    /\ faults' = faults + 1
    /\ settings' = s
    /\ ses' = [w \in Workers |-> Closed]
    /\ UNCHANGED <<rows, outside, campaign, submits, staff, raced>>

-----------------------------------------------------------------------------
Init ==
    /\ rows = [e \in Emails |-> None]
    /\ contacts = [e \in Emails |-> None]
    /\ seconds = {}
    /\ mailed = [i \in Ids |-> {}]
    /\ campaign \in Campaigns
    /\ settings \in SettingsChoices
    /\ ses = [w \in Workers |-> Closed]
    /\ submits = 0 /\ faults = 0 /\ staff = 0
    /\ raced = {}

\* The steps of a capture request once it has started.
CaptureStep(w) ==
    \/ CaptureInsert(w) \/ CaptureRecover(w) \/ CaptureMerge(w)
    \/ CaptureSaved(w)

\* The steps every worker can take.
CommonStep(w) ==
    \/ MailPack(w) \/ MailViewing(w) \/ Record(w) \/ Recorded(w) \/ GiveUp(w)

Staff ==
    \/ \E e \in Emails : DeleteLead(e)
    \/ \E f \in CrmStatus \cup {"all"} : BulkDelete(f)
    \/ \E c \in Campaigns : UpdateCampaign(c)

Next ==
    \/ \E w \in Captures, e \in Emails, p \in Payloads : CaptureStart(w, e, p)
    \/ \E w \in Captures : CaptureStep(w)
    \/ \E w \in Workers : CommonStep(w)
    \/ \E w \in Packers : PackSweep(w) \/ PackNext(w)
    \/ \E w \in Packers, e \in Emails : Resend(w, e)
    \/ \E w \in Syncers : SyncSweep(w) \/ SyncNext(w) \/ Push(w) \/ PushSecond(w)
    \/ \E w \in Syncers, e \in Emails : SyncForce(w, e)
    \/ Staff
    \/ \E s \in SettingsChoices : Restart(s)

Spec == Init /\ [][Next]_vars

\* Every request and job that has started runs on (Restart aside), and the
\* scheduler keeps starting the two sweeps.
FairSpec ==
    /\ Spec
    /\ \A w \in Captures : WF_vars(CaptureStep(w))
    /\ \A w \in Workers : WF_vars(CommonStep(w))
    /\ \A w \in Packers : WF_vars(PackSweep(w) \/ PackNext(w))
    /\ \A w \in Syncers :
        WF_vars(SyncSweep(w) \/ SyncNext(w) \/ Push(w) \/ PushSecond(w))

-----------------------------------------------------------------------------
(* Properties                                                               *)

TypeOK ==
    /\ rows \in [Emails -> Row \cup {None}]
    /\ contacts \in [Emails -> Contact \cup {None}]
    /\ seconds \subseteq Emails
    /\ mailed \in [Ids -> SUBSET Labels]
    /\ campaign \in Campaign
    /\ settings \in Settings
    /\ ses \in [Workers -> Session]
    /\ submits \in 0 .. MaxSubmits
    /\ faults \in 0 .. MaxFaults
    /\ staff \in 0 .. MaxStaff
    /\ raced \subseteq Emails

\* The status columns tell the truth: a lead marked synced has a contact in the
\* CRM and its id, and every document recorded as delivered was mailed for this
\* very row, even when the row was deleted and captured again meanwhile.
StatusIsTrue ==
    \A e \in Emails : rows[e] # None =>
        LET r == rows[e]
        IN  /\ r.crm = "synced" => r.contact
            /\ r.contact => contacts[e] # None
            /\ r.pack = "sent" => r.delivered # {}
            /\ r.delivered \subseteq mailed[r.id]

\* A capture, a sync or a delivery ends in an unhandled error only if the lead
\* it had loaded was deleted under it: the insert race is always recovered.
FailsOnlyOnDelete == \A w \in Workers : ses[w].pc = "error" => ses[w].lost

\* As long as no row was written under another session's copy, a lead marked
\* synced is held by the CRM with its latest details, and the CRM knows of
\* the pack that has reached the visitor.  Its second participant is a contact
\* as well, unless a call has failed: that outcome is not kept.
SyncedIsCurrentUnlessRaced ==
    \A e \in Emails \ raced :
        rows[e] # None /\ rows[e].crm = "synced" =>
            /\ contacts[e].info = rows[e].info
            /\ rows[e].pack = "sent" => contacts[e].collateral
            /\ rows[e].second => e \in seconds \/ faults > 0

\* What a row says of itself, and what the two services have done.
SaidOf(r) == [id |-> r.id, synced |-> r.contact, delivered |-> r.delivered # {}]
Said == [e \in Emails |-> IF rows[e] = None THEN None ELSE SaidOf(rows[e])]
Known == {e \in Emails : contacts[e] # None}
Posted == {i \in Ids : mailed[i] # {}}

Promise == INSTANCE LeadPromise WITH lead <- Said, known <- Known, posted <- Posted

\* The sessions together keep the promise of LeadPromise: however they write
\* back what they have loaded, a row never takes back that it was synced or
\* delivered, says so only when it was, and never inherits another row's mails.
ImplementsPromise == Promise!Spec

\* A lead waiting for the CRM, one whose push has failed included, is eventually
\* synced or skipped, unless it is deleted or the CRM sync is switched off.
\* A lead the CRM always refuses is retried for ever, and must not hold up the
\* others: it does not as long as the sweep's batch has room for more.
EventuallySynced ==
    \A e \in Emails \ Refused :
        rows[e] # None /\ rows[e].crm \in {"pending", "failed"} ~>
            \/ rows[e] = None
            \/ rows[e].crm \in {"synced", "skipped"}
            \/ ~settings.crm

\* A pack waiting to be mailed, one whose mail has failed included, eventually
\* reaches the visitor or turns out undeliverable.
EventuallyDelivered ==
    \A e \in Emails :
        rows[e] # None /\ rows[e].pack \in {"pending", "failed"} ~>
            \/ rows[e] = None
            \/ rows[e].pack \in {"sent", "skipped", "not_requested"}
            \/ rows[e].materials \cap campaign.assets = {}

\* New or updated details are always pushed again: a lead marked synced is held
\* by the CRM with the details that the row has now.
SyncedIsCurrent ==
    \A e \in Emails :
        rows[e] # None /\ rows[e].crm = "synced" => contacts[e].info = rows[e].info
=============================================================================
