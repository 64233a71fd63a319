---------------------------- MODULE DealPipeline ----------------------------
(***************************************************************************)
(* How one Freshsales deal reaches deals_snapshot and deal_events: the     *)
(* webhooks (which may be lost, repeated or overtake one another), the     *)
(* nightly deal sync, and the reference data both resolve against.  All    *)
(* stages are of one active pipeline.                                      *)
(***************************************************************************)
EXTENDS Naturals, Sequences

CONSTANTS
    Stages,         \* the stages that exist in Freshsales
    Owners,         \* the users that exist in Freshsales
    OldStages,      \* the stages the reference tables start with
    OldOwners,      \* the owners they start with
    Handlers,       \* concurrent webhook requests
    MaxEdits,       \* bound: edits of the deal in Freshsales
    MaxRepeats,     \* bound: webhooks that Freshsales sends twice
    MaxSyncs,       \* bound: deal syncs started while the deal still changes
    MaxFaults,      \* bound: restarts and deal syncs that die
    None

ASSUME DealAssumptions ==
    /\ OldStages \subseteq Stages
    /\ OldOwners \subseteq Owners
    /\ None \notin Stages \cup Owners
    /\ MaxEdits \in Nat /\ MaxRepeats \in Nat /\ MaxSyncs \in Nat /\ MaxFaults \in Nat

\* A deal as Freshsales has it, and as the snapshot table has it.
Deal == [stage: Stages, owner: Owners \cup {None}]
Snapshot == [stage: Stages \cup {None}, owner: Owners \cup {None}]
Message == [no: 1 .. MaxEdits, stage: Stages, owner: Owners \cup {None}]
Event == [type: {"created", "stage_change", "owner_change"},
          old: Stages \cup Owners \cup {None}, new: Stages \cup Owners \cup {None}]

ASSUME NoDealAssumption == None \notin Deal /\ None \notin Snapshot /\ None \notin Message

VARIABLES
    deal,       \* Freshsales: the deal now, None before it is created
    edits,      \* Freshsales: how often it was written
    net,        \* webhooks under way
    snapshot,   \* the row of deals_snapshot
    events,     \* the webhook-sourced rows of deal_events, in order
    known,      \* the reference tables
    resolver,   \* app.state.stage_resolver: the stages it resolves, or None
    web,        \* the webhook requests being handled
    sync,       \* the deal sync: the record it has fetched, and its references
    repeats, syncs, faults,
    disturbed   \* history: the row was written without an event, or under a reader

bounds == <<repeats, syncs, faults>>
vars == <<deal, edits, net, snapshot, events, known, resolver, web, sync,
          bounds, disturbed>>

Idle == [msg |-> None, existing |-> None, stages |-> {}]
NoSync == [pc |-> "idle", deal |-> None, stages |-> {}, owners |-> {}]

-----------------------------------------------------------------------------
(* Freshsales                                                               *)

\* A sales user creates or edits the deal; the automation sends its full state.
Edit(d) ==
    /\ edits < MaxEdits
    /\ d # deal
    /\ deal' = d
    /\ edits' = edits + 1
    /\ net' = net \cup {[no |-> edits + 1, stage |-> d.stage, owner |-> d.owner]}
    /\ UNCHANGED <<snapshot, events, known, resolver, web, sync, bounds, disturbed>>

\* A webhook that never arrives.
Lose(m) ==
    /\ m \in net
    /\ net' = net \ {m}
    /\ UNCHANGED <<deal, edits, snapshot, events, known, resolver, web, sync,
                   bounds, disturbed>>

-----------------------------------------------------------------------------
(* Reference data                                                           *)

\* run_reference_sync: the tables and the resolver of this instance.
ReferenceSync ==
    /\ known' = [stages |-> Stages, owners |-> Owners]
    /\ resolver' = known'.stages
    /\ <<known', resolver'>> # <<known, resolver>>
    /\ UNCHANGED <<deal, edits, net, snapshot, events, web, sync, bounds, disturbed>>

\* A restart whose startup sync is off or has failed; its requests are lost.
Restart ==
    /\ faults < MaxFaults
    /\ faults' = faults + 1
    /\ resolver' = None
    /\ web' = [w \in Handlers |-> Idle]
    /\ sync' = NoSync
    /\ UNCHANGED <<deal, edits, net, snapshot, events, known, repeats, syncs, disturbed>>

-----------------------------------------------------------------------------
(* POST /webhooks/freshsales/deal                                           *)

\* The webhook arrives, in any order and perhaps not for the last time; without
\* a resolver it is answered 503, otherwise the stored row is read.  The request
\* keeps the resolver it started with.
WebhookRead(w, m) ==
    /\ m \in net
    /\ web[w] = Idle
    /\ \/ net' = net \ {m} /\ UNCHANGED repeats
       \/ repeats < MaxRepeats /\ repeats' = repeats + 1 /\ UNCHANGED net
    /\ IF resolver = None
       THEN UNCHANGED web
       ELSE web' = [web EXCEPT ![w] = [msg |-> m, existing |-> snapshot,
                                              stages |-> resolver]]
    /\ UNCHANGED <<deal, edits, snapshot, events, known, resolver, sync, syncs,
                   faults, disturbed>>

Kept(existing, column) == IF existing = None THEN None ELSE existing[column]

\* PipelineStageResolver.resolve: the names are those of a known stage.
Resolves(h) == h.msg.stage \in h.stages

\* Mutant: names that do not resolve leave the deal without a stage.
NewStageUnresolved(h) == IF Resolves(h) THEN h.msg.stage ELSE None

\* The resolver's stage, or the stored one if the names are unknown.
NewStage(h) ==
    IF Resolves(h) THEN h.msg.stage ELSE Kept(h.existing, "stage")

\* The payload's owner, or else the stored one; an unknown owner is dropped.
NewOwner(h) ==
    LET raw == IF h.msg.owner # None THEN h.msg.owner ELSE Kept(h.existing, "owner")
    IN  IF raw \in known.owners THEN raw ELSE None

\* The event a changed column gives rise to.
Changed(type, old, new) ==
    IF old # new THEN <<[type |-> type, old |-> old, new |-> new]>> ELSE <<>>

\* detect_changes: what the incoming state changes in the row that was read.
DetectChanges(existing, stage, owner) ==
    IF existing = None
    THEN <<[type |-> "created", old |-> None, new |-> stage]>>
    ELSE Changed("stage_change", existing.stage, stage)
         \o Changed("owner_change", existing.owner, owner)

\* Mutant: the upsert writes every column, empty ones too.
UpsertAll(stage, owner) == [stage |-> stage, owner |-> owner]

\* upsert_deal: the columns that have a value, over whatever row is there now.
Upsert(stage, owner) ==
    [stage |-> IF stage # None THEN stage ELSE Kept(snapshot, "stage"),
     owner |-> IF owner # None THEN owner ELSE Kept(snapshot, "owner")]

\* The events and the row are committed together.
WebhookWrite(w) ==
    LET h == web[w]
    IN  /\ h # Idle
        /\ events' = events \o DetectChanges(h.existing, NewStage(h), NewOwner(h))
        /\ snapshot' = Upsert(NewStage(h), NewOwner(h))
        /\ web' = [web EXCEPT ![w] = Idle]
        /\ disturbed' = (disturbed \/ h.existing # snapshot)
        /\ UNCHANGED <<deal, edits, net, known, resolver, sync, bounds>>

-----------------------------------------------------------------------------
(* The nightly deal sync                                                    *)

\* The reference tables are read once, at the start of the run.
SyncStart ==
    /\ sync.pc = "idle"
    /\ deal # None
    /\ sync' = [NoSync EXCEPT !.pc = "fetch", !.stages = known.stages,
                              !.owners = known.owners]
    /\ \/ edits < MaxEdits /\ syncs < MaxSyncs /\ syncs' = syncs + 1
       \/ edits = MaxEdits /\ UNCHANGED syncs
    /\ UNCHANGED <<deal, edits, net, snapshot, events, known, resolver, web,
                   repeats, faults, disturbed>>

\* The deal's record is fetched from a view or on its own.
SyncFetch ==
    /\ sync.pc = "fetch"
    /\ sync' = [sync EXCEPT !.pc = "upsert", !.deal = deal]
    /\ UNCHANGED <<deal, edits, net, snapshot, events, known, resolver, web,
                   bounds, disturbed>>

\* The fetched record without the references this run does not know.
Parsed(d) ==
    [stage |-> IF d.stage \in sync.stages THEN d.stage ELSE None,
     owner |-> IF d.owner \in sync.owners THEN d.owner ELSE None]

\* Mutant: a deal that is there already is left alone.
SyncUpsertOnlyNew ==
    /\ sync.pc = "upsert"
    /\ snapshot' = IF snapshot = None THEN Upsert(sync.deal.stage, sync.deal.owner)
                                      ELSE snapshot
    /\ disturbed' = (disturbed \/ snapshot' # snapshot)
    /\ sync' = NoSync
    /\ UNCHANGED <<deal, edits, net, events, known, resolver, web, bounds>>

\* It is upserted without unknown references, and without any event.
SyncUpsert ==
    LET d == Parsed(sync.deal)
    IN  /\ sync.pc = "upsert"
        /\ snapshot' = Upsert(d.stage, d.owner)
        /\ disturbed' = (disturbed \/ snapshot' # snapshot)
        /\ sync' = NoSync
        /\ UNCHANGED <<deal, edits, net, events, known, resolver, web, bounds>>

\* The run dies on a request that fails: what it had not committed is lost.
SyncAbort ==
    /\ sync.pc = "upsert"
    /\ faults < MaxFaults
    /\ faults' = faults + 1
    /\ sync' = NoSync
    /\ UNCHANGED <<deal, edits, net, snapshot, events, known, resolver, web,
                   repeats, syncs, disturbed>>

-----------------------------------------------------------------------------
Init ==
    /\ deal = None /\ edits = 0 /\ net = {}
    /\ snapshot = None /\ events = <<>>
    /\ known = [stages |-> OldStages, owners |-> OldOwners]
    /\ resolver \in {None, OldStages}
    /\ web = [w \in Handlers |-> Idle]
    /\ sync = NoSync
    /\ repeats = 0 /\ syncs = 0 /\ faults = 0
    /\ disturbed = FALSE

SyncStep == SyncStart \/ SyncFetch \/ SyncUpsert \/ SyncAbort

Next ==
    \/ \E d \in Deal : Edit(d)
    \/ \E m \in net : Lose(m)
    \/ ReferenceSync \/ Restart
    \/ \E w \in Handlers, m \in net : WebhookRead(w, m)
    \/ \E w \in Handlers : WebhookWrite(w)
    \/ SyncStep

Spec == Init /\ [][Next]_vars

\* The scheduler keeps running both syncs, every request ends, and a webhook
\* is not under way for ever.
FairSpec ==
    /\ Spec
    /\ WF_vars(ReferenceSync)
    /\ WF_vars(SyncStart) /\ WF_vars(SyncFetch) /\ WF_vars(SyncUpsert)
    /\ \A w \in Handlers : WF_vars(WebhookWrite(w))
    /\ WF_vars(\E m \in net : Lose(m) \/ \E w \in Handlers : WebhookRead(w, m))

-----------------------------------------------------------------------------
(* Properties                                                               *)

TypeOK ==
    /\ deal \in Deal \cup {None}
    /\ edits \in 0 .. MaxEdits
    /\ net \subseteq Message
    /\ snapshot \in Snapshot \cup {None}
    /\ events \in Seq(Event)
    /\ known.stages \subseteq Stages /\ known.owners \subseteq Owners
    /\ resolver = None \/ resolver \subseteq Stages
    /\ web \in [Handlers -> [msg: Message \cup {None}, existing: Snapshot \cup {None},
                             stages: SUBSET Stages]]
    /\ sync.pc \in {"idle", "fetch", "upsert"} /\ sync.deal \in Deal \cup {None}
    /\ repeats \in 0 .. MaxRepeats /\ syncs \in 0 .. MaxSyncs
    /\ faults \in 0 .. MaxFaults
    /\ disturbed \in BOOLEAN

\* The row never loses its stage or its owner to an unresolvable or incomplete
\* update, in whatever order webhooks and syncs are applied.
NeverForgets ==
    [][snapshot # None =>
        /\ snapshot' # None
        /\ snapshot.stage # None => snapshot'.stage # None
        /\ snapshot.owner # None => snapshot'.owner # None]_vars

Staged(e) == e.type \in {"created", "stage_change"}

\* The event log tells the deal's story: as long as every write of the row came
\* from a webhook that had read the row it replaced, the deal is created by its
\* first event and by no other, each stage change starts from the stage that
\* the one before it led to, and the last one led to the stage of the row.
HistoryUnlessDisturbed ==
    LET staged == {k \in DOMAIN events : Staged(events[k])}
    IN  ~disturbed =>
            /\ \A k \in DOMAIN events : events[k].type = "created" <=> k = 1
            /\ \A j, k \in staged : j < k /\ (\A i \in staged : i <= j \/ k <= i)
                => events[k].old = events[j].new
            /\ \A k \in staged : (\A i \in staged : i <= k)
                => events[k].new = snapshot.stage

\* Once nobody edits the deal any more, the row catches up with Freshsales and
\* stays there, whatever webhooks were lost, late or repeated; an owner who was
\* removed in Freshsales is the one thing that is never copied.
CatchesUp ==
    (edits = MaxEdits) ~>
        [](/\ snapshot # None
           /\ snapshot.stage = deal.stage
           /\ deal.owner # None => snapshot.owner = deal.owner)
=============================================================================
