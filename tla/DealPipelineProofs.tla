------------------------ MODULE DealPipelineProofs ------------------------
(***************************************************************************)
(* For any stages, owners, edits and number of concurrent webhook requests: *)
(* the row never loses a stage or an owner that it has, and the events tell *)
(* its story unless it was written without one.                             *)
(***************************************************************************)
EXTENDS DealPipeline, TLAPS

Request == [msg: Message \cup {None}, existing: Snapshot \cup {None}, stages: SUBSET Stages]

\* A request that has read the row has a message.
RequestsOK ==
    /\ web \in [Handlers -> Request]
    /\ \A w \in Handlers : web[w] = Idle \/ web[w].msg \in Message

SyncType == [pc: {"idle", "fetch", "upsert"}, deal: Deal \cup {None},
             stages: SUBSET Stages, owners: SUBSET Owners]

SyncOK ==
    /\ sync \in SyncType
    /\ sync.pc = "upsert" => sync.deal \in Deal
    /\ sync.pc # "idle" => deal # None

TablesOK ==
    /\ known \in [stages: SUBSET Stages, owners: SUBSET Owners]
    /\ resolver \in (SUBSET Stages) \cup {None}

CountersOK ==
    /\ edits \in 0 .. MaxEdits /\ (deal = None => edits = 0)
    /\ repeats \in 0 .. MaxRepeats /\ syncs \in 0 .. MaxSyncs /\ faults \in 0 .. MaxFaults
    /\ disturbed \in BOOLEAN

PipelineInv ==
    /\ deal \in Deal \cup {None} /\ net \subseteq Message
    /\ snapshot \in Snapshot \cup {None} /\ events \in Seq(Event)
    /\ TablesOK /\ RequestsOK /\ SyncOK /\ CountersOK

-----------------------------------------------------------------------------
(* The operators of the two writers.                                        *)

LEMMA UpsertType ==
  ASSUME snapshot \in Snapshot \cup {None},
         NEW stage \in Stages \cup {None}, NEW owner \in Owners \cup {None}
  PROVE  /\ Upsert(stage, owner) \in Snapshot /\ Upsert(stage, owner) # None
         /\ stage # None => Upsert(stage, owner).stage = stage
         /\ owner # None => Upsert(stage, owner).owner = owner
         /\ snapshot # None =>
                /\ stage = None => Upsert(stage, owner).stage = snapshot.stage
                /\ owner = None => Upsert(stage, owner).owner = snapshot.owner
         /\ snapshot = None /\ stage = None => Upsert(stage, owner).stage = None
<1>1. Kept(snapshot, "stage") \in Stages \cup {None} /\ Kept(snapshot, "owner") \in Owners \cup {None}
  BY DEF Kept, Snapshot
<1>2. PICK r : r = Upsert(stage, owner)
  OBVIOUS
<1>3. /\ r = [stage |-> r.stage, owner |-> r.owner]
      /\ r.stage = IF stage # None THEN stage ELSE Kept(snapshot, "stage")
      /\ r.owner = IF owner # None THEN owner ELSE Kept(snapshot, "owner")
  BY <1>2 DEF Upsert
<1>4. r \in Snapshot
  BY <1>1, <1>3 DEF Snapshot
<1>5. /\ snapshot # None =>
            Kept(snapshot, "stage") = snapshot.stage /\ Kept(snapshot, "owner") = snapshot.owner
      /\ snapshot = None => Kept(snapshot, "stage") = None
  BY DEF Kept
<1> QED
  BY <1>2, <1>3, <1>4, <1>5, NoDealAssumption

LEMMA NewColumns ==
  ASSUME TablesOK, NEW h \in Request, h.msg \in Message
  PROVE  /\ NewStage(h) \in Stages \cup {None} /\ NewOwner(h) \in Owners \cup {None}
         /\ h.existing # None /\ NewStage(h) = None => h.existing.stage = None
<1>1. /\ h.msg.stage \in Stages /\ h.msg.owner \in Owners \cup {None}
      /\ h.existing \in Snapshot \cup {None}
  BY DEF Request, Message
<1>2. Kept(h.existing, "stage") \in Stages \cup {None} /\ Kept(h.existing, "owner") \in Owners \cup {None}
  BY <1>1 DEF Kept, Snapshot
<1>3. None \notin Stages
  BY DealAssumptions
<1>4. NewStage(h) = h.msg.stage \/ NewStage(h) = Kept(h.existing, "stage")
  BY DEF NewStage
<1>5. known.owners \subseteq Owners
  BY DEF TablesOK
<1>6. NewOwner(h) \in Owners \cup {None}
  BY <1>5 DEF NewOwner
<1>7. h.existing # None => Kept(h.existing, "stage") = h.existing.stage
  BY DEF Kept
<1> QED
  BY <1>1, <1>2, <1>3, <1>4, <1>6, <1>7

\* The events of one write: at most one about the stage, then at most one
\* about the owner.
LEMMA ChangesType ==
  ASSUME NEW existing \in Snapshot \cup {None},
         NEW stage \in Stages \cup {None}, NEW owner \in Owners \cup {None}
  PROVE  DetectChanges(existing, stage, owner) \in Seq(Event)
<1>1. CASE existing = None
  <2>1. [type |-> "created", old |-> None, new |-> stage] \in Event
    BY DEF Event
  <2> QED
    BY <1>1, <2>1 DEF DetectChanges
<1>2. CASE existing # None
  <2>1. PICK A, B : /\ A = Changed("stage_change", existing.stage, stage)
                    /\ B = Changed("owner_change", existing.owner, owner)
    OBVIOUS
  <2>2. existing.stage \in Stages \cup {None} /\ existing.owner \in Owners \cup {None}
    BY <1>2 DEF Snapshot
  <2>3. /\ [type |-> "stage_change", old |-> existing.stage, new |-> stage] \in Event
        /\ [type |-> "owner_change", old |-> existing.owner, new |-> owner] \in Event
    BY <2>2 DEF Event
  <2>4. A \in Seq(Event) /\ B \in Seq(Event)
    BY <2>1, <2>3 DEF Changed
  <2>5. A \o B \in Seq(Event)
    BY <2>4
  <2> QED
    BY <1>2, <2>1, <2>5 DEF DetectChanges
<1> QED
  BY <1>1, <1>2

-----------------------------------------------------------------------------
(* Types                                                                    *)

LEMMA InitInv == Init => PipelineInv
<1> SUFFICES ASSUME Init
             PROVE  PipelineInv
  OBVIOUS
<1>1. Idle \in Request /\ NoSync \in SyncType /\ NoSync.pc = "idle"
  BY DEF Idle, NoSync, Request, SyncType
<1>2. web \in [Handlers -> Request] /\ \A w \in Handlers : web[w] = Idle
  BY <1>1 DEF Init
<1>3. SyncOK
  BY <1>1 DEF Init, SyncOK
<1>4. TablesOK
  BY DealAssumptions DEF Init, TablesOK
<1>5. CountersOK
  <2>1. 0 \in 0 .. MaxEdits /\ 0 \in 0 .. MaxRepeats /\ 0 \in 0 .. MaxSyncs /\ 0 \in 0 .. MaxFaults
    BY DealAssumptions
  <2> QED
    BY <2>1 DEF Init, CountersOK
<1> QED
  BY <1>2, <1>3, <1>4, <1>5 DEF Init, PipelineInv, RequestsOK

LEMMA EditInv ==
  ASSUME PipelineInv, NEW d \in Deal, Edit(d)
  PROVE  PipelineInv'
<1>1. PICK m : m = [no |-> edits + 1, stage |-> d.stage, owner |-> d.owner]
  OBVIOUS
<1>2. edits + 1 \in 1 .. MaxEdits /\ edits + 1 \in 0 .. MaxEdits
  BY DealAssumptions DEF Edit, PipelineInv, CountersOK
<1>3. m \in Message
  BY <1>1, <1>2 DEF Message, Deal
<1>4. /\ deal' = d /\ edits' = edits + 1 /\ net' = net \cup {m}
      /\ UNCHANGED <<snapshot, events, known, resolver, web, sync, repeats, syncs, faults, disturbed>>
  BY <1>1 DEF Edit, bounds
<1>5. d # None
  BY NoDealAssumption
<1>6. CountersOK'
  BY <1>2, <1>4, <1>5 DEF PipelineInv, CountersOK
<1>7. TablesOK' /\ RequestsOK' /\ SyncOK'
  BY <1>4, <1>5 DEF PipelineInv, TablesOK, RequestsOK, SyncOK
<1> QED
  BY <1>3, <1>4, <1>6, <1>7 DEF PipelineInv

LEMMA ReadInv ==
  ASSUME PipelineInv, NEW w \in Handlers, NEW m \in net, WebhookRead(w, m)
  PROVE  PipelineInv'
<1>1. /\ UNCHANGED <<deal, edits, snapshot, events, known, resolver, sync, syncs, faults, disturbed>>
      /\ net' \subseteq net /\ repeats' \in 0 .. MaxRepeats
  BY DealAssumptions DEF WebhookRead, PipelineInv, CountersOK
<1>2. m \in Message /\ snapshot \in Snapshot \cup {None} /\ resolver \in (SUBSET Stages) \cup {None}
  BY DEF PipelineInv, TablesOK
<1>3. CASE resolver = None
  <2>1. RequestsOK'
    BY <1>3 DEF WebhookRead, PipelineInv, RequestsOK
  <2>2. CountersOK' /\ TablesOK' /\ SyncOK'
    BY <1>1 DEF PipelineInv, CountersOK, TablesOK, SyncOK
  <2> QED
    BY <1>1, <2>1, <2>2 DEF PipelineInv
<1>4. CASE resolver # None
  <2>1. PICK h : h = [msg |-> m, existing |-> snapshot, stages |-> resolver]
    OBVIOUS
  <2>2. h \in Request /\ h.msg \in Message
    BY <1>2, <1>4, <2>1 DEF Request
  <2>3. web' = [web EXCEPT ![w] = h]
    BY <1>4, <2>1 DEF WebhookRead
  <2>4. RequestsOK'
    BY <2>2, <2>3 DEF PipelineInv, RequestsOK
  <2>5. CountersOK' /\ TablesOK' /\ SyncOK'
    BY <1>1 DEF PipelineInv, CountersOK, TablesOK, SyncOK
  <2> QED
    BY <1>1, <2>4, <2>5 DEF PipelineInv
<1> QED
  BY <1>3, <1>4

LEMMA WriteInv ==
  ASSUME PipelineInv, NEW w \in Handlers, WebhookWrite(w)
  PROVE  PipelineInv'
<1>1. PICK h, stage, owner : h = web[w] /\ stage = NewStage(h) /\ owner = NewOwner(h)
  OBVIOUS
<1>2. h \in Request /\ h.msg \in Message /\ h.existing \in Snapshot \cup {None}
  BY <1>1 DEF WebhookWrite, PipelineInv, RequestsOK, Request
<1>3. stage \in Stages \cup {None} /\ owner \in Owners \cup {None}
  BY <1>1, <1>2, NewColumns DEF PipelineInv
<1>4. /\ events' = events \o DetectChanges(h.existing, stage, owner)
      /\ snapshot' = Upsert(stage, owner) /\ web' = [web EXCEPT ![w] = Idle]
      /\ disturbed' = (disturbed \/ h.existing # snapshot)
      /\ UNCHANGED <<deal, edits, net, known, resolver, sync, repeats, syncs, faults>>
  BY <1>1 DEF WebhookWrite, bounds
<1>5. snapshot' \in Snapshot
  BY <1>3, <1>4, UpsertType DEF PipelineInv
<1>6. events' \in Seq(Event)
  <2>1. DetectChanges(h.existing, stage, owner) \in Seq(Event)
    BY <1>2, <1>3, ChangesType
  <2>2. events \in Seq(Event)
    BY DEF PipelineInv
  <2> QED
    BY <1>4, <2>1, <2>2
<1>7. RequestsOK'
  <2>1. Idle \in Request
    BY DEF Idle, Request
  <2> QED
    BY <1>4, <2>1 DEF PipelineInv, RequestsOK
<1>8. CountersOK' /\ TablesOK' /\ SyncOK'
  BY <1>4 DEF PipelineInv, CountersOK, TablesOK, SyncOK
<1> QED
  BY <1>4, <1>5, <1>6, <1>7, <1>8 DEF PipelineInv

LEMMA SyncInv ==
  ASSUME PipelineInv, SyncStep
  PROVE  PipelineInv'
<1>1. /\ UNCHANGED <<deal, edits, net, events, known, resolver, web, repeats>>
      /\ syncs' \in 0 .. MaxSyncs /\ faults' \in 0 .. MaxFaults
  BY DealAssumptions DEF SyncStep, SyncStart, SyncFetch, SyncUpsert, SyncAbort, bounds,
                         PipelineInv, CountersOK
<1>2. TablesOK' /\ RequestsOK'
  BY <1>1 DEF PipelineInv, TablesOK, RequestsOK
<1>3. sync \in SyncType /\ (sync.pc = "upsert" => sync.deal \in Deal)
  BY DEF PipelineInv, SyncOK
<1>4. NoSync \in SyncType /\ NoSync.pc = "idle"
  BY DEF NoSync, SyncType
<1>5. CASE SyncStart
  <2>1. PICK t : t = [NoSync EXCEPT !.pc = "fetch", !.stages = known.stages,
                                    !.owners = known.owners]
    OBVIOUS
  <2>2. t \in SyncType /\ t.pc = "fetch"
    BY <2>1 DEF NoSync, SyncType, PipelineInv, TablesOK
  <2>3. sync' = t /\ UNCHANGED <<snapshot, disturbed>> /\ deal # None
    BY <1>5, <2>1 DEF SyncStart
  <2> QED
    BY <1>1, <1>2, <2>2, <2>3 DEF PipelineInv, SyncOK, CountersOK
<1>6. CASE SyncFetch
  <2>1. PICK t : t = [sync EXCEPT !.pc = "upsert", !.deal = deal]
    OBVIOUS
  <2>2. t \in SyncType /\ t.pc = "upsert" /\ t.deal = deal /\ deal # None
    BY <1>3, <1>6, <2>1 DEF SyncType, SyncFetch, PipelineInv, SyncOK
  <2>3. sync' = t /\ UNCHANGED <<snapshot, disturbed>>
    BY <1>6, <2>1 DEF SyncFetch
  <2> QED
    BY <1>1, <1>2, <2>2, <2>3 DEF PipelineInv, SyncOK, CountersOK
<1>7. CASE SyncUpsert
  <2>1. PICK d : d = Parsed(sync.deal)
    OBVIOUS
  <2>2. d.stage \in Stages \cup {None} /\ d.owner \in Owners \cup {None}
    BY <1>3, <2>1 DEF Parsed, SyncType
  <2>3. /\ snapshot' = Upsert(d.stage, d.owner) /\ sync' = NoSync
        /\ disturbed' = (disturbed \/ snapshot' # snapshot)
    BY <1>7, <2>1 DEF SyncUpsert
  <2>4. snapshot' \in Snapshot
    BY <2>2, <2>3, UpsertType DEF PipelineInv
  <2> QED
    BY <1>1, <1>2, <1>4, <2>3, <2>4 DEF PipelineInv, SyncOK, CountersOK
<1>8. CASE SyncAbort
  <2>1. sync' = NoSync /\ UNCHANGED <<snapshot, disturbed>>
    BY <1>8 DEF SyncAbort
  <2> QED
    BY <1>1, <1>2, <1>4, <2>1 DEF PipelineInv, SyncOK, CountersOK
<1> QED
  BY <1>5, <1>6, <1>7, <1>8 DEF SyncStep

LEMMA NextInv == PipelineInv /\ [Next]_vars => PipelineInv'
<1> SUFFICES ASSUME PipelineInv, [Next]_vars
             PROVE  PipelineInv'
  OBVIOUS
<1>1. CASE \E d \in Deal : Edit(d)
  BY <1>1, EditInv
<1>2. CASE \E m \in net : Lose(m)
  <2>1. /\ net' \subseteq net
        /\ UNCHANGED <<deal, edits, snapshot, events, known, resolver, web, sync,
                       repeats, syncs, faults, disturbed>>
    BY <1>2 DEF Lose, bounds
  <2> QED
    BY <2>1 DEF PipelineInv, TablesOK, RequestsOK, SyncOK, CountersOK
<1>3. CASE ReferenceSync
  <2>1. /\ UNCHANGED <<deal, edits, net, snapshot, events, web, sync,
                       repeats, syncs, faults, disturbed>>
        /\ known' = [stages |-> Stages, owners |-> Owners] /\ resolver' = Stages
    BY <1>3 DEF ReferenceSync, bounds
  <2>2. TablesOK'
    BY <2>1 DEF TablesOK
  <2> QED
    BY <2>1, <2>2 DEF PipelineInv, RequestsOK, SyncOK, CountersOK
<1>4. CASE Restart
  <2>1. Idle \in Request /\ NoSync \in SyncType /\ NoSync.pc = "idle"
    BY DEF Idle, NoSync, Request, SyncType
  <2>2. /\ UNCHANGED <<deal, edits, net, snapshot, events, known, repeats, syncs, disturbed>>
        /\ resolver' = None /\ web' = [w \in Handlers |-> Idle] /\ sync' = NoSync
        /\ faults' \in 0 .. MaxFaults
    BY <1>4, DealAssumptions DEF Restart, PipelineInv, CountersOK
  <2>3. RequestsOK' /\ SyncOK' /\ TablesOK'
    BY <2>1, <2>2 DEF PipelineInv, RequestsOK, SyncOK, TablesOK
  <2> QED
    BY <2>2, <2>3 DEF PipelineInv, CountersOK
<1>5. CASE \E w \in Handlers, m \in net : WebhookRead(w, m)
  BY <1>5, ReadInv
<1>6. CASE \E w \in Handlers : WebhookWrite(w)
  BY <1>6, WriteInv
<1>7. CASE SyncStep
  BY <1>7, SyncInv
<1>8. CASE UNCHANGED vars
  BY <1>8 DEF vars, bounds, PipelineInv, TablesOK, RequestsOK, SyncOK, CountersOK
<1> QED
  BY <1>1, <1>2, <1>3, <1>4, <1>5, <1>6, <1>7, <1>8 DEF Next

LEMMA InvHolds == Spec => []PipelineInv
  BY InitInv, NextInv, PTL DEF Spec

\* The row, the requests and the sync hold values of their types, whatever
\* references the webhooks and the records name.
THEOREM TypeCorrect == Spec => []TypeOK
<1>1. PipelineInv => TypeOK
  BY DEF PipelineInv, TablesOK, RequestsOK, Request, SyncOK, SyncType, CountersOK, TypeOK
<1> QED
  BY <1>1, InvHolds, PTL

-----------------------------------------------------------------------------
(* What the row never loses.                                                *)

\* A step that loses nothing.
Keeps ==
    snapshot # None =>
        /\ snapshot' # None
        /\ snapshot.stage # None => snapshot'.stage # None
        /\ snapshot.owner # None => snapshot'.owner # None

LEMMA UpsertKeeps ==
  ASSUME PipelineInv, NEW stage \in Stages \cup {None}, NEW owner \in Owners \cup {None},
         snapshot' = Upsert(stage, owner)
  PROVE  Keeps
<1>1. snapshot \in Snapshot \cup {None}
  BY DEF PipelineInv
<1>2. /\ snapshot' # None
      /\ stage # None => snapshot'.stage = stage
      /\ owner # None => snapshot'.owner = owner
      /\ snapshot # None =>
            /\ stage = None => snapshot'.stage = snapshot.stage
            /\ owner = None => snapshot'.owner = snapshot.owner
  BY <1>1, UpsertType
<1> QED
  BY <1>2 DEF Keeps

LEMMA StepKeeps ==
  ASSUME PipelineInv, [Next]_vars
  PROVE  Keeps
<1>1. CASE UNCHANGED snapshot
  BY <1>1 DEF Keeps
<1>2. ASSUME NEW w \in Handlers, WebhookWrite(w)
      PROVE  Keeps
  <2>1. PICK h, stage, owner : h = web[w] /\ stage = NewStage(h) /\ owner = NewOwner(h)
    OBVIOUS
  <2>2. h \in Request /\ h.msg \in Message
    BY <1>2, <2>1 DEF WebhookWrite, PipelineInv, RequestsOK
  <2>3. stage \in Stages \cup {None} /\ owner \in Owners \cup {None}
    BY <2>1, <2>2, NewColumns DEF PipelineInv
  <2>4. snapshot' = Upsert(stage, owner)
    BY <1>2, <2>1 DEF WebhookWrite
  <2> QED
    BY <2>3, <2>4, UpsertKeeps
<1>3. CASE SyncUpsert
  <2>1. PICK d : d = Parsed(sync.deal)
    OBVIOUS
  <2>2. d.stage \in Stages \cup {None} /\ d.owner \in Owners \cup {None}
    BY <2>1 DEF Parsed, SyncType, PipelineInv, SyncOK
  <2>3. snapshot' = Upsert(d.stage, d.owner)
    BY <1>3, <2>1 DEF SyncUpsert
  <2> QED
    BY <2>2, <2>3, UpsertKeeps
<1> QED
  BY <1>1, <1>2, <1>3 DEF Next, Edit, Lose, ReferenceSync, Restart, WebhookRead, SyncStep,
                          SyncStart, SyncFetch, SyncAbort, vars

\* For any stages, owners, references and interleavings of webhooks and syncs:
\* upsert_deal never leaves the row without a stage or an owner it had before.
THEOREM NothingForgotten == Spec => NeverForgets
<1>1. PipelineInv /\ [Next]_vars =>
        [snapshot # None =>
            /\ snapshot' # None
            /\ snapshot.stage # None => snapshot'.stage # None
            /\ snapshot.owner # None => snapshot'.owner # None]_vars
  BY StepKeeps DEF Keeps
<1> QED
  BY <1>1, InvHolds, PTL DEF Spec, NeverForgets

-----------------------------------------------------------------------------
(* The story that the events tell.                                          *)

StagedIn(ev) == {k \in DOMAIN ev : Staged(ev[k])}

\* The events ev tell the story of a row that is in stage st by now.
Story(ev, st) ==
    /\ Len(ev) > 0
    /\ \A k \in DOMAIN ev : ev[k].type = "created" <=> k = 1
    /\ \A j, k \in StagedIn(ev) : j < k /\ (\A i \in StagedIn(ev) : i <= j \/ k <= i)
        => ev[k].old = ev[j].new
    /\ \E k \in StagedIn(ev) : (\A i \in StagedIn(ev) : i <= k) /\ ev[k].new = st

StoryInv ==
    ~disturbed => /\ snapshot = None => events = <<>>
                  /\ snapshot # None => Story(events, snapshot.stage)

LEMMA StoryBegins ==
  ASSUME NEW st \in Stages \cup {None}
  PROVE  Story(<<[type |-> "created", old |-> None, new |-> st]>>, st)
<1>1. PICK e, ev : e = [type |-> "created", old |-> None, new |-> st] /\ ev = <<e>>
  OBVIOUS
<1>2. Len(ev) = 1 /\ DOMAIN ev = {1} /\ ev[1] = e /\ e.type = "created" /\ e.new = st
  BY <1>1
<1>3. StagedIn(ev) = {1}
  BY <1>2 DEF StagedIn, Staged
<1> QED
  BY <1>1, <1>2, <1>3 DEF Story

\* An event that is no stage change.
LEMMA StoryPassedOver ==
  ASSUME NEW ev \in Seq(Event), NEW st, Story(ev, st), NEW e \in Event, e.type = "owner_change"
  PROVE  Story(Append(ev, e), st)
<1>1. PICK f, n : f = Append(ev, e) /\ n = Len(ev)
  OBVIOUS
<1>2. /\ n \in Nat /\ n > 0 /\ Len(f) = n + 1 /\ DOMAIN f = 1 .. n + 1 /\ DOMAIN ev = 1 .. n
      /\ f[n + 1] = e /\ \A k \in 1 .. n : f[k] = ev[k]
  BY <1>1 DEF Story
<1>3. StagedIn(f) = StagedIn(ev)
  BY <1>2 DEF StagedIn, Staged
<1>4. StagedIn(ev) \subseteq 1 .. n
  BY <1>2 DEF StagedIn
<1>5. \A k \in DOMAIN f : f[k].type = "created" <=> k = 1
  BY <1>2 DEF Story
<1> QED
  BY <1>1, <1>2, <1>3, <1>4, <1>5 DEF Story

\* A stage change that starts where the row is.
LEMMA StoryGoesOn ==
  ASSUME NEW ev \in Seq(Event), NEW st, Story(ev, st), NEW e \in Event,
         e.type = "stage_change", e.old = st
  PROVE  Story(Append(ev, e), e.new)
<1>1. PICK f, n : f = Append(ev, e) /\ n = Len(ev)
  OBVIOUS
<1>2. /\ n \in Nat /\ n > 0 /\ Len(f) = n + 1 /\ DOMAIN f = 1 .. n + 1 /\ DOMAIN ev = 1 .. n
      /\ f[n + 1] = e /\ \A k \in 1 .. n : f[k] = ev[k]
  BY <1>1 DEF Story
<1>3. StagedIn(f) = StagedIn(ev) \cup {n + 1} /\ StagedIn(ev) \subseteq 1 .. n
  BY <1>2 DEF StagedIn, Staged
<1>4. \A k \in DOMAIN f : f[k].type = "created" <=> k = 1
  BY <1>2 DEF Story
<1>5. PICK last \in StagedIn(ev) : (\A i \in StagedIn(ev) : i <= last) /\ ev[last].new = st
  BY DEF Story
<1>6. ASSUME NEW j \in StagedIn(f), NEW k \in StagedIn(f), j < k,
             \A i \in StagedIn(f) : i <= j \/ k <= i
      PROVE  f[k].old = f[j].new
  <2>1. j \in 1 .. n /\ j \in StagedIn(ev)
    BY <1>2, <1>3, <1>6
  <2>2. CASE k = n + 1
    <3>1. last <= j /\ j <= last
      BY <1>2, <1>3, <1>5, <1>6, <2>1, <2>2
    <3>2. j = last
      BY <1>2, <1>3, <1>5, <2>1, <3>1
    <3> QED
      BY <1>2, <1>5, <2>1, <2>2, <3>2
  <2>3. CASE k # n + 1
    <3>1. k \in StagedIn(ev) /\ k \in 1 .. n
      BY <1>3, <1>6, <2>3
    <3>2. \A i \in StagedIn(ev) : i <= j \/ k <= i
      BY <1>3, <1>6
    <3>3. ev[k].old = ev[j].new
      BY <1>6, <2>1, <3>1, <3>2 DEF Story
    <3> QED
      BY <1>2, <2>1, <3>1, <3>3
  <2> QED
    BY <2>2, <2>3
<1>7. n + 1 \in StagedIn(f) /\ (\A i \in StagedIn(f) : i <= n + 1) /\ f[n + 1].new = e.new
  BY <1>2, <1>3
<1>8. \A j, k \in StagedIn(f) : j < k /\ (\A i \in StagedIn(f) : i <= j \/ k <= i)
        => f[k].old = f[j].new
  BY <1>6
<1>9. \E k \in StagedIn(f) : (\A i \in StagedIn(f) : i <= k) /\ f[k].new = e.new
  BY <1>7
<1>10. Len(f) > 0
  BY <1>2
<1> QED
  BY <1>1, <1>4, <1>8, <1>9, <1>10 DEF Story

\* A webhook that has read the row it replaces.
LEMMA WriteStory ==
  ASSUME PipelineInv, StoryInv, NEW w \in Handlers, WebhookWrite(w)
  PROVE  StoryInv'
<1>1. PICK h, stage, owner : h = web[w] /\ stage = NewStage(h) /\ owner = NewOwner(h)
  OBVIOUS
<1>2. h \in Request /\ h.msg \in Message
  BY <1>1 DEF WebhookWrite, PipelineInv, RequestsOK
<1>3. /\ stage \in Stages \cup {None} /\ owner \in Owners \cup {None}
      /\ h.existing # None /\ stage = None => h.existing.stage = None
  BY <1>1, <1>2, NewColumns DEF PipelineInv
<1>4. /\ events' = events \o DetectChanges(h.existing, stage, owner)
      /\ snapshot' = Upsert(stage, owner)
      /\ disturbed' = (disturbed \/ h.existing # snapshot)
  BY <1>1 DEF WebhookWrite
<1>5. snapshot \in Snapshot \cup {None} /\ events \in Seq(Event)
  BY DEF PipelineInv
<1>6. /\ snapshot' # None
      /\ stage # None => snapshot'.stage = stage
      /\ snapshot # None /\ stage = None => snapshot'.stage = snapshot.stage
      /\ snapshot = None /\ stage = None => snapshot'.stage = None
  BY <1>3, <1>4, <1>5, UpsertType
<1> SUFFICES ASSUME ~disturbed, h.existing = snapshot
             PROVE  Story(events', snapshot'.stage)
  BY <1>4, <1>6 DEF StoryInv
<1>7. CASE snapshot = None
  <2>1. events = <<>> /\ snapshot'.stage = stage
    BY <1>6, <1>7 DEF StoryInv
  <2>2. PICK e : e = [type |-> "created", old |-> None, new |-> stage]
    OBVIOUS
  <2>3. events' = <<>> \o <<e>>
    BY <1>4, <1>7, <2>1, <2>2 DEF DetectChanges
  <2>4. events' = <<e>>
    BY <2>3
  <2> QED
    BY <1>3, <2>1, <2>2, <2>4, StoryBegins
<1>8. CASE snapshot # None
  <2>1. Story(events, snapshot.stage) /\ snapshot \in Snapshot
    BY <1>5, <1>8 DEF StoryInv
  <2>2. snapshot'.stage = stage
    BY <1>3, <1>6, <1>8
  <2>3. PICK A, B, ev : /\ A = Changed("stage_change", snapshot.stage, stage)
                        /\ B = Changed("owner_change", snapshot.owner, owner)
                        /\ ev = events \o A
    OBVIOUS
  <2>4. events' = events \o (A \o B)
    BY <1>4, <1>8, <2>3 DEF DetectChanges
  <2>5. PICK a, b : /\ a = [type |-> "stage_change", old |-> snapshot.stage, new |-> stage]
                    /\ b = [type |-> "owner_change", old |-> snapshot.owner, new |-> owner]
    OBVIOUS
  <2>6. a \in Event /\ b \in Event
    BY <1>3, <2>1, <2>5 DEF Event, Snapshot
  <2>7. A \in {<<>>, <<a>>} /\ B \in {<<>>, <<b>>} /\ (snapshot.stage # stage => A = <<a>>)
    BY <2>3, <2>5 DEF Changed
  <2>8. ev \in Seq(Event) /\ Story(ev, stage)
    <3>1. CASE snapshot.stage # stage
      <4>1. ev = Append(events, a)
        <5>1. ev = events \o <<a>>
          BY <2>3, <2>7, <3>1
        <5>2. events \in Seq(Event) /\ a \in Event
          BY <1>5, <2>6
        <5> QED
          BY <5>1, <5>2
      <4>2. ev \in Seq(Event)
        BY <1>5, <2>6, <4>1
      <4>3. a.type = "stage_change" /\ a.old = snapshot.stage /\ a.new = stage
        BY <2>5
      <4>4. Story(Append(events, a), a.new)
        BY <1>5, <2>1, <2>6, <4>3, StoryGoesOn
      <4> QED
        BY <4>1, <4>2, <4>3, <4>4
    <3>2. CASE snapshot.stage = stage
      <4>1. A = <<>>
        BY <2>3, <3>2 DEF Changed
      <4>2. ev = events
        BY <1>5, <2>3, <4>1
      <4> QED
        BY <1>5, <2>1, <3>2, <4>2
    <3> QED
      BY <3>1, <3>2
  <2>9. events' = ev \o B
    BY <1>5, <2>3, <2>4, <2>6, <2>7
  <2>10. CASE B = <<>>
    BY <2>2, <2>8, <2>9, <2>10
  <2>11. CASE B = <<b>>
    <3>1. events' = Append(ev, b)
      BY <2>6, <2>8, <2>9, <2>11
    <3>2. b.type = "owner_change"
      BY <2>5
    <3> QED
      BY <2>2, <2>6, <2>8, <3>1, <3>2, StoryPassedOver
  <2> QED
    BY <2>7, <2>10, <2>11
<1> QED
  BY <1>7, <1>8

LEMMA NextStory == PipelineInv /\ StoryInv /\ [Next]_vars => StoryInv'
<1> SUFFICES ASSUME PipelineInv, StoryInv, [Next]_vars
             PROVE  StoryInv'
  OBVIOUS
<1>1. CASE UNCHANGED <<snapshot, events, disturbed>>
  BY <1>1 DEF StoryInv
<1>2. CASE \E w \in Handlers : WebhookWrite(w)
  BY <1>2, WriteStory
<1>3. CASE SyncUpsert
  <2>1. UNCHANGED events /\ disturbed' = (disturbed \/ snapshot' # snapshot)
    BY <1>3 DEF SyncUpsert
  <2> QED
    BY <2>1 DEF StoryInv
<1> QED
  BY <1>1, <1>2, <1>3 DEF Next, Edit, Lose, ReferenceSync, Restart, WebhookRead, SyncStep,
                          SyncStart, SyncFetch, SyncAbort, vars

\* For any number of edits, lost, late and repeated webhooks and concurrent
\* requests: while every write of the row had read the row that it replaced,
\* the webhook-sourced events are a gapless history of its stage.
THEOREM HistoryTold == Spec => []HistoryUnlessDisturbed
<1>1. Init => StoryInv
  BY DEF Init, StoryInv
<1>2. PipelineInv /\ StoryInv => HistoryUnlessDisturbed
  <2> SUFFICES ASSUME PipelineInv, StoryInv, ~disturbed
               PROVE  /\ \A k \in DOMAIN events : events[k].type = "created" <=> k = 1
                      /\ \A j, k \in StagedIn(events) :
                            j < k /\ (\A i \in StagedIn(events) : i <= j \/ k <= i)
                                => events[k].old = events[j].new
                      /\ \A k \in StagedIn(events) : (\A i \in StagedIn(events) : i <= k)
                            => events[k].new = snapshot.stage
    BY DEF HistoryUnlessDisturbed, StagedIn
  <2>1. CASE snapshot = None
    <3>1. DOMAIN events = {}
      BY <2>1 DEF StoryInv
    <3> QED
      BY <3>1 DEF StagedIn
  <2>2. CASE snapshot # None
    <3>1. Story(events, snapshot.stage)
      BY <2>2 DEF StoryInv
    <3>2. StagedIn(events) \subseteq Nat
      BY DEF StagedIn, PipelineInv
    <3>3. PICK last \in StagedIn(events) :
            (\A i \in StagedIn(events) : i <= last) /\ events[last].new = snapshot.stage
      BY <3>1 DEF Story
    <3>4. \A k \in StagedIn(events) : (\A i \in StagedIn(events) : i <= k) => k = last
      BY <3>2, <3>3
    <3> QED
      BY <3>1, <3>3, <3>4 DEF Story
  <2> QED
    BY <2>1, <2>2
<1> QED
  BY <1>1, <1>2, NextStory, InvHolds, PTL DEF Spec
=============================================================================
