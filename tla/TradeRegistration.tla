------------------------- MODULE TradeRegistration -------------------------
(***************************************************************************)
(* Trade programs: public registrations of one or two participants, the    *)
(* admin review, and the push of every participant to Freshsales.  One     *)
(* program is modelled.  A participant row is never deleted by the         *)
(* service; its id is the submission that inserted it and its place there. *)
(***************************************************************************)
EXTENDS Naturals, FiniteSets

CONSTANTS
    Emails,         \* normalised addresses
    NoEmail,        \* the second participant's '' address
    Payloads,       \* submissions of the form: [email, second]
    Registrars,     \* concurrent register requests
    Syncers,        \* concurrent runs of sync_pending_trade
    RequireApproval,\* program.config["require_admin_approval"]
    MaxSubmits,     \* bound: submissions
    MaxFaults,      \* bound: refused or unanswered pushes
    MaxReviews,     \* bound: decisions of the reviewers
    None

\* second: the second participant's address, or None without a name.
Payload == [email: Emails, second: Emails \cup {NoEmail, None}]

ASSUME TradeAssumptions ==
    /\ NoEmail \notin Emails
    /\ None \notin Emails \cup {NoEmail}
    /\ Payloads \subseteq Payload
    /\ RequireApproval \in BOOLEAN
    /\ MaxSubmits \in Nat /\ MaxFaults \in Nat /\ MaxReviews \in Nat
    /\ Registrars \cap Syncers = {}

Numbers == 1 .. MaxSubmits
Ids == Numbers \X {1, 2}

Row == [reg: Numbers, primary: BOOLEAN, email: Emails \cup {NoEmail},
        review: {"pending", "approved", "rejected"},
        crm: {"pending", "synced", "failed", "skipped"}, contact: BOOLEAN]

ASSUME NoRowAssumption == None \notin Row /\ None \notin Ids /\ None \notin Payload

VARIABLES
    rows,       \* trade_leads
    sync,       \* program.config["crm_sync_enabled"]
    active,     \* program.status is active
    req,        \* the session of each register request
    job,        \* the session of each sync run
    submits, faults, reviews,
    contacts,   \* Freshsales: the addresses it holds
    approved,   \* history: rows an admin has approved at some time
    crowded     \* history: registrations two requests worked on at once

vars == <<rows, sync, active, req, job, submits, faults, reviews, contacts,
          approved, crowded>>

\* A register request: its payload and number, the row it found (then the
\* primary's row), the second participant's row it found, and its answer.
NoRequest == [pc |-> "idle", no |-> 0, pay |-> None, row |-> None, second |-> None]

\* A sync run: the rows it has loaded and the one it works on, as loaded.
NoJob == [pc |-> "idle", batch |-> [i \in Ids |-> None], id |-> None,
          snap |-> None, new |-> None, sync |-> FALSE]

Exists(i) == rows[i] # None

\* The unique index on (program, email), which leaves '' out.
Taken(e, i) == e # NoEmail /\ \E k \in Ids \ {i} : Exists(k) /\ rows[k].email = e

Found(e) == IF \E i \in Ids : Exists(i) /\ rows[i].email = e
            THEN CHOOSE i \in Ids : Exists(i) /\ rows[i].email = e
            ELSE None

-----------------------------------------------------------------------------
(* POST /trade/programs/{slug}/register                                     *)

RegisterStart(w, p) ==
    /\ req[w].pc = "idle"
    /\ submits < MaxSubmits
    /\ active
    /\ submits' = submits + 1
    /\ req' = [req EXCEPT ![w] = [pc |-> "save", no |-> submits + 1, pay |-> p,
                                  row |-> Found(p.email), second |-> None]]
    /\ UNCHANGED <<rows, sync, active, job, faults, reviews, contacts, approved, crowded>>

NewRow(no, primary, e) ==
    [reg |-> no, primary |-> primary, email |-> e, review |-> "pending",
     crm |-> "pending", contact |-> FALSE]

AfterPrimary(s) == [s EXCEPT !.pc = IF s.pay.second = None THEN "done" ELSE "siblings"]

\* The primary is inserted.  On a unique violation the handler rolls back,
\* which expires `program`, and then reads program.id: it raises.
SavePrimary(w) ==
    LET s == req[w]
        i == <<s.no, 1>>
    IN  /\ s.pc = "save" /\ s.row = None
        /\ \/ /\ ~Taken(s.pay.email, i)
              /\ rows' = [rows EXCEPT ![i] = NewRow(s.no, TRUE, s.pay.email)]
              /\ req' = [req EXCEPT ![w] = AfterPrimary([s EXCEPT !.row = i])]
           \/ /\ Taken(s.pay.email, i)
              /\ req' = [req EXCEPT ![w].pc = "error"]
              /\ UNCHANGED rows
        /\ UNCHANGED <<sync, active, job, submits, faults, reviews, contacts,
                       approved, crowded>>

\* The row found is overwritten with the payload's details; address, review,
\* registration and CRM status stay as they are.
MergePrimary(w) ==
    LET s == req[w]
    IN  /\ s.pc = "save" /\ s.row # None
        /\ req' = [req EXCEPT ![w] = AfterPrimary(s)]
        /\ UNCHANGED <<rows, sync, active, job, submits, faults, reviews,
                       contacts, approved, crowded>>

Reg(s) == rows[s.row].reg

Seconds(g) == {i \in Ids : Exists(i) /\ rows[i].reg = g /\ ~rows[i].primary}

\* list_by_registration: is there a second participant already?
FindSecond(w) ==
    LET s == req[w]
        mates == {v \in Registrars \ {w} :
                    req[v].pc = "second" /\ Reg(req[v]) = Reg(s)}
    IN  /\ s.pc = "siblings"
        /\ IF Seconds(Reg(s)) = {}
           THEN req' = [req EXCEPT ![w] = [s EXCEPT !.pc = "second"]]
           ELSE \E i \in Seconds(Reg(s)) :
                    req' = [req EXCEPT ![w] = [s EXCEPT !.pc = "second", !.second = i]]
        /\ crowded' = IF mates # {} THEN crowded \cup {Reg(s)} ELSE crowded
        /\ UNCHANGED <<rows, sync, active, job, submits, faults, reviews,
                       contacts, approved>>

\* second_participant_from_responses drops an address equal to the primary's.
SecondEmail(p) == IF p.second = p.email THEN NoEmail ELSE p.second

\* Mutant: a second participant already there is not looked for.
SaveSecondAlwaysInserts(w) ==
    LET s == req[w]
        i == <<s.no, 2>>
        e == SecondEmail(s.pay)
    IN  /\ s.pc = "second"
        /\ IF Taken(e, i)
           THEN req' = [req EXCEPT ![w].pc = "error"] /\ UNCHANGED rows
           ELSE /\ req' = [req EXCEPT ![w].pc = "done"]
                /\ rows' = [rows EXCEPT ![i] = NewRow(Reg(s), FALSE, e)]
        /\ UNCHANGED <<sync, active, job, submits, faults, reviews, contacts,
                       approved, crowded>>

\* The second participant is inserted, or the row found takes the new identity;
\* a unique violation is not caught here.
SaveSecond(w) ==
    LET s == req[w]
        i == IF s.second = None THEN <<s.no, 2>> ELSE s.second
        e == SecondEmail(s.pay)
    IN  /\ s.pc = "second"
        /\ \/ /\ Taken(e, i)
              /\ req' = [req EXCEPT ![w].pc = "error"]
              /\ UNCHANGED rows
           \/ /\ ~Taken(e, i)
              /\ req' = [req EXCEPT ![w].pc = "done"]
              /\ rows' = [rows EXCEPT ![i] = IF s.second = None
                                             THEN NewRow(Reg(s), FALSE, e)
                                             ELSE [@ EXCEPT !.email = e]]
        /\ UNCHANGED <<sync, active, job, submits, faults, reviews, contacts,
                       approved, crowded>>

\* The response (or the 500) is sent: the session ends.
Respond(w) ==
    /\ req[w].pc \in {"done", "error"}
    /\ req' = [req EXCEPT ![w] = NoRequest]
    /\ UNCHANGED <<rows, sync, active, job, submits, faults, reviews, contacts,
                   approved, crowded>>

-----------------------------------------------------------------------------
(* PATCH /trade/participants/{id}/review, and the seeding of the program    *)

Review(i, status) ==
    /\ Exists(i)
    /\ reviews < MaxReviews
    /\ reviews' = reviews + 1
    /\ rows' = [rows EXCEPT ![i].review = status]
    /\ approved' = IF status = "approved" THEN approved \cup {i} ELSE approved
    /\ UNCHANGED <<sync, active, req, job, submits, faults, contacts, crowded>>

\* seed_trade_programs: the sync flag of the program is turned on for good, and
\* the program opens or closes.
SeedProgram ==
    /\ ~sync
    /\ sync' = TRUE
    /\ active' \in BOOLEAN
    /\ UNCHANGED <<rows, req, job, submits, faults, reviews, contacts, approved, crowded>>

-----------------------------------------------------------------------------
(* The CRM sweep: the scheduled job and POST /trade/programs/{id}/resync    *)

\* Mutant: the sweep leaves failed participants out.
WaitingOnlyPending == {i \in Ids : Exists(i) /\ rows[i].crm = "pending"}

\* list_pending: the statuses the sweep picks up.
Waiting == {i \in Ids : Exists(i) /\ rows[i].crm \in {"pending", "failed"}}

\* One SELECT loads the batch, the first participant's program is read once.
SyncSweep(w) ==
    /\ job[w].pc = "idle"
    /\ Waiting # {}
    /\ job' = [job EXCEPT ![w] = [NoJob EXCEPT !.pc = "next", !.sync = sync,
                    !.batch = [i \in Ids |-> IF i \in Waiting THEN rows[i] ELSE None]]]
    /\ UNCHANGED <<rows, sync, active, req, submits, faults, reviews, contacts,
                   approved, crowded>>

\* Mutant: only a rejection stops the push.
GatedOnRejectionOnly(s, r) ==
    ~s.sync \/ (RequireApproval /\ r.review = "rejected") \/ r.email = NoEmail

\* Mutant: a participant without an address is pushed.
GatedAddressIgnored(s, r) ==
    ~s.sync \/ (RequireApproval /\ r.review # "approved")

\* Kill switch, approval gate, no address: the participant is skipped.
Gated(s, r) ==
    ~s.sync \/ (RequireApproval /\ r.review # "approved") \/ r.email = NoEmail

\* The next participant of the batch: push, or mark skipped.
SyncNext(w) ==
    LET s == job[w]
    IN  /\ s.pc = "next"
        /\ \/ /\ s.batch = NoJob.batch
              /\ job' = [job EXCEPT ![w] = NoJob]
           \/ \E i \in Ids :
                LET r == s.batch[i]
                    t == [s EXCEPT !.id = i, !.snap = r, !.batch[i] = None]
                IN  /\ r # None
                    /\ job' = [job EXCEPT ![w] =
                            IF Gated(s, r)
                            THEN [t EXCEPT !.pc = "record",
                                           !.new = [r EXCEPT !.crm = "skipped"]]
                            ELSE [t EXCEPT !.pc = "push"]]
        /\ UNCHANGED <<rows, sync, active, req, submits, faults, reviews,
                       contacts, approved, crowded>>

\* The upsert: done, refused, or done without an answer.
Push(w) ==
    LET s == job[w]
        done == contacts' = contacts \cup {s.snap.email}
        fail == /\ faults < MaxFaults /\ faults' = faults + 1
                /\ job' = [job EXCEPT ![w] = [s EXCEPT !.pc = "record",
                                    !.new = [s.snap EXCEPT !.crm = "failed"]]]
    IN  /\ s.pc = "push"
        /\ \/ /\ done
              /\ job' = [job EXCEPT ![w] = [s EXCEPT !.pc = "record",
                            !.new = [s.snap EXCEPT !.crm = "synced", !.contact = TRUE]]]
              /\ UNCHANGED faults
           \/ fail /\ UNCHANGED contacts
           \/ fail /\ done
        /\ UNCHANGED <<rows, sync, active, req, submits, reviews, approved, crowded>>

\* Mutant: the whole row is written back as it was loaded.
RecordWholeRow(w) ==
    LET s == job[w]
    IN  /\ s.pc = "record"
        /\ rows' = [rows EXCEPT ![s.id] = s.new]
        /\ job' = [job EXCEPT ![w] = [s EXCEPT !.pc = "next", !.id = None,
                                               !.snap = None, !.new = None]]
        /\ UNCHANGED <<sync, active, req, submits, faults, reviews, contacts,
                       approved, crowded>>

\* update_lead writes the two CRM columns if they have changed.
Record(w) ==
    LET s == job[w]
        Column(stored, loaded, set) == IF set # loaded THEN set ELSE stored
    IN  /\ s.pc = "record"
        /\ rows' = [rows EXCEPT
                ![s.id].crm = Column(@, s.snap.crm, s.new.crm),
                ![s.id].contact = Column(@, s.snap.contact, s.new.contact)]
        /\ job' = [job EXCEPT ![w] = [s EXCEPT !.pc = "next", !.id = None,
                                               !.snap = None, !.new = None]]
        /\ UNCHANGED <<sync, active, req, submits, faults, reviews, contacts,
                       approved, crowded>>

-----------------------------------------------------------------------------
Init ==
    /\ rows = [i \in Ids |-> None]
    /\ sync \in BOOLEAN
    /\ active = TRUE
    /\ req = [w \in Registrars |-> NoRequest]
    /\ job = [w \in Syncers |-> NoJob]
    /\ submits = 0 /\ faults = 0 /\ reviews = 0
    /\ contacts = {} /\ approved = {} /\ crowded = {}

RegisterStep(w) ==
    \/ SavePrimary(w) \/ MergePrimary(w) \/ FindSecond(w) \/ SaveSecond(w)
    \/ Respond(w)

SyncStep(w) == SyncSweep(w) \/ SyncNext(w) \/ Push(w) \/ Record(w)

Next ==
    \/ \E w \in Registrars, p \in Payloads : RegisterStart(w, p)
    \/ \E w \in Registrars : RegisterStep(w)
    \/ \E i \in Ids, s \in {"approved", "rejected"} : Review(i, s)
    \/ SeedProgram
    \/ \E w \in Syncers : SyncStep(w)

Spec == Init /\ [][Next]_vars

\* Requests and sweeps run on, and the scheduler keeps starting the sweep.
FairSpec ==
    /\ Spec
    /\ \A w \in Registrars : WF_vars(RegisterStep(w))
    /\ \A w \in Syncers : WF_vars(SyncStep(w))

-----------------------------------------------------------------------------
(* Properties                                                               *)

TypeOK ==
    /\ rows \in [Ids -> Row \cup {None}]
    /\ sync \in BOOLEAN /\ active \in BOOLEAN
    /\ req \in [Registrars ->
        [pc: {"idle", "save", "siblings", "second", "done", "error"},
         no: 0 .. MaxSubmits, pay: Payload \cup {None}, row: Ids \cup {None},
         second: Ids \cup {None}]]
    /\ job \in [Syncers ->
        [pc: {"idle", "next", "push", "record"}, batch: [Ids -> Row \cup {None}],
         id: Ids \cup {None}, snap: Row \cup {None}, new: Row \cup {None},
         sync: BOOLEAN]]
    /\ submits \in 0 .. MaxSubmits
    /\ faults \in 0 .. MaxFaults
    /\ reviews \in 0 .. MaxReviews
    /\ contacts \subseteq Emails
    /\ approved \subseteq Ids
    /\ crowded \subseteq Numbers

\* A participant marked synced has a contact id, and in a program with the
\* approval gate no participant has one whom no admin has ever approved,
\* however reviews and sweeps interleave.
SyncedWasApproved ==
    \A i \in Ids :
        Exists(i) /\ (rows[i].crm = "synced" \/ rows[i].contact) =>
            /\ rows[i].contact
            /\ RequireApproval => i \in approved

\* The sweep, which holds its copy of the row for a while, never undoes a
\* decision of the reviewers nor a change of the participant's identity.
SweepKeepsTheRest ==
    [][\A w \in Syncers, i \in Ids :
        job[w].pc = "record" /\ job'[w].pc = "next" /\ Exists(i) =>
            /\ rows'[i].review = rows[i].review
            /\ rows'[i].email = rows[i].email]_vars

\* A registration has one second participant at most, unless two requests for
\* it looked for the second participant at the same time.
OneSecondUnlessCrowded ==
    \A g \in Numbers \ crowded : Cardinality(Seconds(g)) <= 1

\* A participant waiting for the CRM is eventually synced or skipped.
EventuallySettled ==
    \A i \in Ids :
        Exists(i) /\ rows[i].crm \in {"pending", "failed"} ~>
            Exists(i) /\ rows[i].crm \in {"synced", "skipped"}

\* A registration has up to two participants: retrying a registration is safe
\* and creates no duplicate.
AtMostTwoParticipants ==
    \A g \in Numbers : Cardinality({i \in Ids : Exists(i) /\ rows[i].reg = g}) <= 2
=============================================================================
