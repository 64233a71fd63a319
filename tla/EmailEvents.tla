---------------------------- MODULE EmailEvents ----------------------------
(***************************************************************************)
(* The SendGrid event webhook: batches of delivery, open and click events, *)
(* posted at least once and in any order, are recorded in email_events and *)
(* rolled up on the lead, whose engagement score is stored with it.  One   *)
(* lead is modelled; besides the events, the re-submits of its form, which *)
(* store the score too, and what makes a stored score old: the deliveries  *)
(* of its pack, and time.                                                  *)
(***************************************************************************)
EXTENDS Naturals, Sequences, FiniteSets, FiniteSetsExt, Functions

CONSTANTS
    Events,     \* [id, type, at, material, own]: what SendGrid can report
    Posts,      \* the batches it posts, none of them empty: sequences of Events
    Forms,      \* score points of the answers on the form
    Days,       \* the days at which something happens
    Handlers,   \* concurrent requests to the webhook
    MaxPosts,   \* bound: requests
    MaxForms,   \* bound: re-submits of the form
    MaxPacks,   \* bound: deliveries of the pack
    MaxCrashes, \* bound: crashes of the service
    None

\* own: the recipient is the lead, not the team in CC; material: the document
\* that the clicked link belongs to, None if it is no document of ours.
EventTypes == {"open", "click", "delivered"}

ASSUME EventAssumptions ==
    /\ \A e \in Events : e.type \in EventTypes /\ e.at \in Nat \ {0} /\ e.own \in BOOLEAN
    /\ \A e, f \in Events : e.id = f.id => e = f
    /\ IsFiniteSet(Events)
    /\ Posts \subseteq Seq(Events) \ {<<>>}
    /\ Forms \subseteq Nat /\ Days \subseteq Nat
    /\ MaxPosts \in Nat /\ MaxForms \in Nat /\ MaxPacks \in Nat /\ MaxCrashes \in Nat

Opens == {e \in Events : e.type = "open"}
MaterialsClicked(E) == {e.material : e \in {f \in E : f.type = "click"}} \ {None}

\* The rollup columns: opened is the day of the last open, 0 if there is none.
\* pack: pack_delivery_status is "sent"; computed: score_computed_at.
Lead == [count: 0 .. Cardinality(Opens), opened: Nat,
         clicked: SUBSET MaterialsClicked(Events), form: Forms, pack: BOOLEAN,
         score: 0 .. 100, computed: Days]

ASSUME NoLeadAssumption == None \notin Lead

VARIABLES
    events,     \* email_events: what was recorded
    lead,       \* the lead's row, None once it is deleted
    ses,        \* the session of each request
    form,       \* the re-submit under way: the row it loaded, its answers
    now,        \* the day
    posts, forms, packs, crashes,
    counted,    \* history: the pack status that the stored score counts
    raced,      \* history: the row was written under another session's copy
    taken,      \* history: the lead's own events that were posted
    sunk,       \* history: events that failed only because an earlier one had
    cut         \* history: events a crash has cut off

vars == <<events, lead, ses, form, now, posts, forms, packs, crashes,
          counted, raced, taken, sunk, cut>>

\* A request: the events it still has to work on, the lead as it loaded it, and
\* whether its database session needs a rollback that never comes.
Closed == [pc |-> "idle", queue |-> <<>>, snap |-> None, broken |-> FALSE]
NoForm == [snap |-> None, form |-> None, keeps |-> FALSE]

-----------------------------------------------------------------------------
(* lead_scoring                                                             *)

OpenTiers == {<<25, 40>>, <<15, 34>>, <<10, 30>>, <<5, 26>>, <<3, 20>>, <<2, 14>>, <<1, 8>>}
RecencyTiers == {<<7, 15>>, <<30, 10>>, <<60, 5>>, <<90, 2>>}

OpenPoints(n) == Max({0} \cup {t[2] : t \in {u \in OpenTiers : n >= u[1]}})
ClickPoints(c) == Min({12 * Cardinality(c), 30})

\* The points of the last open on a day d.
RecencyPoints(opened, d) ==
    IF opened = 0 THEN 0
    ELSE Max({0} \cup {t[2] : t \in {u \in RecencyTiers : d <= opened + u[1]}})

PackPoints(pack) == IF pack THEN 3 ELSE 0

\* The score of a row on a day d.
EngagementScore(r, d) ==
    Min({100, OpenPoints(r.count) + ClickPoints(r.clicked)
              + RecencyPoints(r.opened, d) + r.form + PackPoints(r.pack)})

\* A row with the score of the day d.
Scored(r, d) == [r EXCEPT !.score = EngagementScore(r, d), !.computed = d]

-----------------------------------------------------------------------------
(* POST /webhooks/sendgrid/events                                           *)

Others(h) == {g \in Handlers \ {h} : ses[g].snap # None}

\* The UPDATE a session emits: the columns it has changed.
Merge(stored, loaded, set) ==
    LET Column(c) == IF set[c] # loaded[c] THEN set[c] ELSE stored[c]
    IN  [count |-> Column("count"), opened |-> Column("opened"),
         clicked |-> Column("clicked"), form |-> Column("form"),
         pack |-> Column("pack"), score |-> Column("score"),
         computed |-> Column("computed")]

\* An event is posted on its day or later.
Post(h, batch) ==
    /\ ses[h] = Closed
    /\ \A e \in Range(batch) : e.at <= now
    /\ posts < MaxPosts
    /\ posts' = posts + 1
    /\ ses' = [ses EXCEPT ![h] = [Closed EXCEPT !.pc = "look", !.queue = batch]]
    /\ taken' = taken \cup {e \in Range(batch) : e.own}
    /\ UNCHANGED <<events, lead, form, now, forms, packs, crashes, counted,
                   raced, sunk, cut>>

\* The request turns to its next event, or answers 200.
Proceed(s) ==
    IF Tail(s.queue) = <<>> THEN Closed
    ELSE [s EXCEPT !.pc = "look", !.queue = Tail(@), !.snap = None]

\* Mutant: a duplicate ends the batch.
SkipBatch(s) == Closed

\* An event that is not recorded: a duplicate, no lead, or the CC recipient's.
Skip(s) == Proceed(s)

\* The dedup lookup and the read of the lead; a broken session raises here.
Look(h) ==
    LET s == ses[h]
        e == Head(s.queue)
        skip == e \in events \/ lead = None \/ ~e.own
    IN  /\ s.pc = "look"
        /\ \/ s.broken /\ ses' = [ses EXCEPT ![h] = Proceed(s)]
           \/ ~s.broken /\ skip /\ ses' = [ses EXCEPT ![h] = Skip(s)]
           \/ /\ ~s.broken /\ ~skip
              /\ ses' = [ses EXCEPT ![h] = [s EXCEPT !.pc = "record", !.snap = lead]]
        /\ sunk' = IF s.broken /\ ~skip THEN sunk \cup {e} ELSE sunk
        /\ UNCHANGED <<events, lead, form, now, posts, forms, packs, crashes,
                       counted, raced, taken, cut>>

\* Mutant: the last event to arrive is taken for the last open.
RollupLastArrived(r, e) ==
    [r EXCEPT !.count = IF e.type = "open" THEN @ + 1 ELSE @,
              !.opened = IF e.type = "open" THEN e.at ELSE @,
              !.clicked = @ \cup MaterialsClicked({e})]

\* _bump_lead_rollup: what an event changes in the lead as it was loaded.
Rollup(r, e) ==
    [r EXCEPT !.count = IF e.type = "open" THEN @ + 1 ELSE @,
              !.opened = IF e.type = "open" THEN Max({@, e.at}) ELSE @,
              !.clicked = @ \cup MaterialsClicked({e})]

\* Mutant: without the unique index the event is recorded again.
RefusedNever(e) == lead = None

\* The insert violates the unique index or the foreign key to the lead.
Refused(e) == e \in events \/ lead = None

\* The event is inserted and committed.  If it is refused, the exception is
\* caught without a rollback and the session is of no use any more.
Record(h) ==
    LET s == ses[h]
        e == Head(s.queue)
    IN  /\ s.pc = "record"
        /\ \/ /\ Refused(e)
              /\ ses' = [ses EXCEPT ![h] = Proceed([s EXCEPT !.broken = TRUE])]
              /\ UNCHANGED events
           \/ /\ ~Refused(e)
              /\ events' = events \cup {e}
              /\ ses' = [ses EXCEPT ![h] = IF Rollup(s.snap, e) # s.snap
                                           THEN [s EXCEPT !.pc = "bump"]
                                           ELSE Proceed(s)]
        /\ UNCHANGED <<lead, form, now, posts, forms, packs, crashes, counted,
                       raced, taken, sunk, cut>>

\* The rollup and the new score are committed; a recorded event keeps the lead
\* from being deleted.
Bump(h) ==
    LET s == ses[h]
        e == Head(s.queue)
    IN  /\ s.pc = "bump"
        /\ \E set \in {Scored(Rollup(s.snap, e), now)} : lead' = Merge(lead, s.snap, set)
        /\ counted' = s.snap.pack
        /\ ses' = [ses EXCEPT ![h] = Proceed(s)]
        /\ raced' = (raced \/ Others(h) # {} \/ form # NoForm)
        /\ UNCHANGED <<events, form, now, posts, forms, packs, crashes, taken,
                       sunk, cut>>

-----------------------------------------------------------------------------
(* Re-submits, deliveries, time, deletion, crashes                          *)

\* The form comes in again: the row is loaded.  What it asks for now decides
\* whether a pack that was sent stays "sent".
ResubmitRead(f, keeps) ==
    /\ form = NoForm /\ lead # None
    /\ keeps => lead.pack
    /\ forms < MaxForms
    /\ forms' = forms + 1
    /\ form' = [snap |-> lead, form |-> f, keeps |-> keeps]
    /\ UNCHANGED <<events, lead, ses, now, posts, packs, crashes, counted,
                   raced, taken, sunk, cut>>

\* Mutant: the score is computed before the pack status is set.
ResubmittedScoredFirst(r, f, keeps, d) ==
    [Scored([r EXCEPT !.form = f], d) EXCEPT !.pack = keeps]

\* _apply_payload, _next_pack_status and _recompute_score on a loaded row.
Resubmitted(r, f, keeps, d) == Scored([r EXCEPT !.form = f, !.pack = keeps], d)

\* The commit, which fails if the lead has been deleted.
ResubmitWrite ==
    /\ form # NoForm
    /\ LET set == Resubmitted(form.snap, form.form, form.keeps, now)
       IN  /\ lead' = IF lead = None THEN None ELSE Merge(lead, form.snap, set)
           /\ counted' = IF lead = None THEN counted ELSE set.pack
    /\ form' = NoForm
    /\ raced' = (raced \/ \E h \in Handlers : ses[h].snap # None)
    /\ UNCHANGED <<events, ses, now, posts, forms, packs, crashes, taken, sunk,
                   cut>>

\* A delivery of the pack or of the viewing mail commits its outcome; LeadLifecycle
\* has the details.  The score is left as it is.
DeliverPack(sent) ==
    /\ lead # None
    /\ packs < MaxPacks
    /\ packs' = packs + 1
    /\ lead' = [lead EXCEPT !.pack = sent]
    /\ UNCHANGED <<events, ses, form, now, posts, forms, crashes, counted,
                   raced, taken, sunk, cut>>

\* Days go by.
Later(d) ==
    /\ d > now
    /\ now' = d
    /\ UNCHANGED <<events, lead, ses, form, posts, forms, packs, crashes,
                   counted, raced, taken, sunk, cut>>

\* DELETE the lead: the foreign key of a recorded event refuses it.
DeleteLead ==
    /\ lead # None
    /\ events = {}
    /\ lead' = None
    /\ UNCHANGED <<events, ses, form, now, posts, forms, packs, crashes,
                   counted, raced, taken, sunk, cut>>

Queued(h) == Range(ses[h].queue)

\* Every request under way is lost.
Crash ==
    /\ crashes < MaxCrashes
    /\ crashes' = crashes + 1
    /\ cut' = cut \cup UNION {Queued(h) : h \in Handlers}
    /\ ses' = [h \in Handlers |-> Closed]
    /\ form' = NoForm
    /\ UNCHANGED <<events, lead, now, posts, forms, packs, counted, raced,
                   taken, sunk>>

-----------------------------------------------------------------------------
Init ==
    /\ events = {}
    /\ now \in Days
    /\ \E f \in Forms :
        lead = Scored([count |-> 0, opened |-> 0, clicked |-> {}, form |-> f,
                       pack |-> FALSE, score |-> 0, computed |-> now], now)
    /\ ses = [h \in Handlers |-> Closed]
    /\ form = NoForm
    /\ posts = 0 /\ forms = 0 /\ packs = 0 /\ crashes = 0
    /\ counted = FALSE /\ raced = FALSE /\ taken = {} /\ sunk = {} /\ cut = {}

Handle(h) == Look(h) \/ Record(h) \/ Bump(h)

Next ==
    \/ \E h \in Handlers, b \in Posts : Post(h, b)
    \/ \E h \in Handlers : Handle(h)
    \/ \E f \in Forms, keeps \in BOOLEAN : ResubmitRead(f, keeps)
    \/ ResubmitWrite
    \/ \E sent \in BOOLEAN : DeliverPack(sent)
    \/ \E d \in Days : Later(d)
    \/ DeleteLead
    \/ Crash

Spec == Init /\ [][Next]_vars

\* A request runs on until it has answered.
FairSpec == Spec /\ \A h \in Handlers : WF_vars(Handle(h))

-----------------------------------------------------------------------------
(* Properties                                                               *)

TypeOK ==
    /\ events \subseteq Events
    /\ lead \in Lead \cup {None}
    /\ \A h \in Handlers :
        /\ ses[h].pc \in {"idle", "look", "record", "bump"}
        /\ ses[h].queue \in Seq(Events)
        /\ ses[h].snap \in Lead \cup {None}
        /\ ses[h].broken \in BOOLEAN
    /\ form.snap \in Lead \cup {None} /\ form.form \in Forms \cup {None}
    /\ form.keeps \in BOOLEAN /\ now \in Days /\ counted \in BOOLEAN
    /\ posts \in 0 .. MaxPosts /\ forms \in 0 .. MaxForms
    /\ packs \in 0 .. MaxPacks /\ crashes \in 0 .. MaxCrashes
    /\ raced \in BOOLEAN /\ taken \subseteq Events
    /\ sunk \subseteq Events /\ cut \subseteq Events

\* The events that are recorded and not yet rolled up.
InRollup == {Head(ses[h].queue) : h \in {g \in Handlers : ses[g].pc = "bump"}}

\* However often and in whatever order SendGrid posts an event, it counts once
\* at most: the lead never shows an open, a last open or a clicked document
\* that is not recorded.
NeverOvercounts ==
    lead # None =>
        /\ lead.count <= Cardinality((events \ InRollup) \cap Opens)
        /\ lead.opened \in {0} \cup {e.at : e \in events \cap Opens}
        /\ lead.clicked \subseteq MaterialsClicked(events)

\* As long as no two webhook requests or re-submits worked on the lead at once
\* and no request was cut off, the rollup is what the recorded events say.  The
\* stored score is then the score the row had on the day it was computed, with
\* the pack status of that time: nothing that an event or a form changes is
\* missing from it.  A delivery of the pack, which may commit at any moment, and
\* the days that went by since are counted only with the next event or form.
RollupIsExactUnlessRaced ==
    LET done == events \ InRollup
    IN  lead # None /\ ~raced /\ cut = {} =>
            /\ lead.count = Cardinality(done \cap Opens)
            /\ lead.opened = Max({0} \cup {e.at : e \in done \cap Opens})
            /\ lead.clicked = MaterialsClicked(done)
            /\ lead.score = EngagementScore([lead EXCEPT !.pack = counted], lead.computed)

\* Every posted event that is the lead's own is eventually recorded, unless the
\* lead is deleted, the service crashes, or an earlier event of its batch was
\* refused by the database.  What is recorded, lost or deleted stays so: that
\* again and again nothing posted is missing says it of each event.
EventuallyRecorded ==
    []<>(lead # None => taken \subseteq events \cup sunk \cup cut)

\* One bad event never takes the rest of its batch with it.
BatchSurvivesBadEvent == sunk = {}
=============================================================================
