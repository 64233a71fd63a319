----------------------------- MODULE Dashboards -----------------------------
(***************************************************************************)
(* The analytics API.  Each endpoint computes its figures with SQL of its   *)
(* own over the deals, and then reads the watermark "data as of"; syncs and *)
(* webhooks write deals between the statements of one request.              *)
(***************************************************************************)
EXTENDS Integers, FiniteSets, FiniteSetsExt, Functions, UnitOfWork

CONSTANTS
    ReportDeals,    \* deal ids
    RowChoices,     \* the rows that a write can leave
    Lines,          \* business lines; each stands for its pipelines as well
    DealOwners,     \* Freshsales owner ids
    StaleDays,      \* filters.stale_days
    MaxWrites       \* bound: transactions that write deals

ASSUME ReportAssumptions ==
    /\ IsFiniteSet(ReportDeals)
    /\ None \notin Lines \cup DealOwners
    /\ StaleDays \in Nat /\ MaxWrites \in Nat

Forecasts == {"Open", "Closed Won", "Closed Lost"}
OrNull(S) == S \cup {None}

\* A row of deals_enriched, with what the activity tables hold for the deal.
\* age, moved (stage_updated_at) and active (the latest task date, e-mail or
\* event) are in days before today, a task due in the future being active
\* in days to come; created and outreach (the first outgoing e-mail) are days
\* of the calendar; tasks are its open tasks, by their due date.
DealRow == [line: OrNull(Lines), stage: OrNull(Forecasts), owner: OrNull(DealOwners),
            value: OrNull(Nat), dead: BOOLEAN, age: OrNull(Nat), moved: OrNull(Nat),
            active: OrNull(Int), tasks: SUBSET {"overdue", "due", "undated"},
            close: BOOLEAN, created: OrNull(Nat), outreach: OrNull(Nat),
            reason: OrNull({"price is too high", "opted our rival", "other"})]

ASSUME RowAssumption == RowChoices \subseteq DealRow /\ None \notin DealRow

VARIABLES
    table,      \* deals_snapshot
    stamp,      \* last_synced_at of each row, 0 where there is none
    writes,     \* transactions begun so far; the clock
    webhooks,   \* begins of the open transactions of webhooks
    syncs,      \* begins of the open transactions of deal syncs, each a batch
    report,     \* the open request
    began,      \* history: begin of the transaction that wrote each row
    setback     \* history: since the request began, a transaction has
                \* overwritten a row of one that began later

reportVars == <<table, stamp, writes, webhooks, syncs, report, began, setback>>

\* A request: the begin of the newest transaction whose rows it has read.
Report == [pc: {"idle", "again", "as_of", "answered"}, scope: OrNull(DealOwners),
           newest: 0 .. MaxWrites, as_of: 0 .. MaxWrites]

NoReport == [pc |-> "idle", scope |-> None, newest |-> 0, as_of |-> 0]

ReportTypeOK ==
    /\ table \in [ReportDeals -> RowChoices \cup {None}]
    /\ stamp \in [ReportDeals -> 0 .. MaxWrites]
    /\ writes \in 0 .. MaxWrites
    /\ webhooks \subseteq 1 .. MaxWrites /\ syncs \subseteq 1 .. MaxWrites
    /\ report \in Report
    /\ began \in [ReportDeals -> 0 .. MaxWrites]
    /\ setback \in BOOLEAN

ReportInit ==
    /\ table = [d \in ReportDeals |-> None]
    /\ stamp = [d \in ReportDeals |-> 0]
    /\ writes = 0 /\ webhooks = {} /\ syncs = {}
    /\ report = NoReport
    /\ began = [d \in ReportDeals |-> 0] /\ setback = FALSE

-----------------------------------------------------------------------------
(* Writers.  A timestamp is now(), the begin of the transaction.             *)

\* Mutant: on conflict the row keeps its last_synced_at.
StampOfInsert(old, now) == IF old = 0 THEN now ELSE old

\* last_synced_at after an upsert.
BumpedStamp(old, now) == now

\* The upserts of a transaction begun at `now` are committed.
CommitUpserts(rows, now) ==
    /\ table' = [d \in ReportDeals |-> IF d \in DOMAIN rows THEN rows[d] ELSE table[d]]
    /\ stamp' = [d \in ReportDeals |->
                    IF d \in DOMAIN rows THEN BumpedStamp(stamp[d], now) ELSE stamp[d]]
    /\ began' = [d \in ReportDeals |-> IF d \in DOMAIN rows THEN now ELSE began[d]]
    /\ setback' = (setback \/ \E d \in DOMAIN rows : began[d] > now)

BeginWrite == writes < MaxWrites /\ writes' = writes + 1

\* A webhook's transaction begins when it looks for the deal it is about.
WebhookBegins ==
    /\ BeginWrite
    /\ webhooks' = webhooks \cup {writes + 1}
    /\ UNCHANGED <<table, stamp, syncs, report, began, setback>>

\* It has read the owners and stored its events; the deal is upserted and all
\* is committed.
WebhookCommits(now, d, row) ==
    /\ now \in webhooks
    /\ CommitUpserts([x \in {d} |-> row], now)
    /\ webhooks' = webhooks \ {now}
    /\ UNCHANGED <<writes, syncs, report>>

\* A deal sync begins a batch, by the first statement after a commit.  Besides
\* the nightly sync any number of manual ones may run.
SyncBatchBegins ==
    /\ BeginWrite
    /\ syncs' = syncs \cup {writes + 1}
    /\ UNCHANGED <<table, stamp, webhooks, report, began, setback>>

\* The deals fetched since then are committed.
SyncBatchCommits(now) ==
    /\ now \in syncs
    /\ \E ds \in SUBSET ReportDeals \ {{}} : \E rows \in [ds -> RowChoices] :
        CommitUpserts(rows, now)
    /\ syncs' = syncs \ {now}
    /\ UNCHANGED <<writes, webhooks, report>>

\* A request or a sync fails, or had nothing to write.
WriteEnds(now) ==
    /\ now \in webhooks \cup syncs
    /\ webhooks' = webhooks \ {now} /\ syncs' = syncs \ {now}
    /\ UNCHANGED <<table, stamp, writes, report, began, setback>>

-----------------------------------------------------------------------------
(* The queries, over the rows D of a table T                                *)

NoFilters == [line |-> None, owner |-> None]

\* build_filters.  The scope of a rep replaces the owner that was asked for.
Filtered(T, filters, scope) ==
    LET owner == IF scope # None THEN scope ELSE filters.owner
    IN  {d \in ReportDeals : /\ T[d] # None
                             /\ filters.line # None => T[d].line = filters.line
                             /\ owner # None => T[d].owner = owner}

In(T, D, forecast) == {d \in D : T[d].stage = forecast}
Value(row) == IF row.value = None THEN 0 ELSE row.value
SumOfValues(T, D) == SumFunction([d \in D |-> Value(T[d])])

\* SQL comparison and greatest: NULL compares as false, greatest ignores it.
Exceeds(days, limit) == days # None /\ days > limit
Latest(row) ==
    CASE row.moved = None -> row.active
      [] row.active = None -> row.moved
      [] OTHER -> IF row.moved < row.active THEN row.moved ELSE row.active

\* GROUP BY: the deals of each key that occurs, and their number.
GroupBy(D, key) == [k \in {key[d] : d \in D} |-> {d \in D : key[d] = k}]
Counts(groups) == [k \in DOMAIN groups |-> Cardinality(groups[k])]
Total(figures) == SumFunction(figures)

ByLine(T, D) ==
    GroupBy(D, [d \in D |-> IF T[d].line = None THEN "Unassigned" ELSE T[d].line])

\* get_overview: counts and values per business line.
OverviewCounts(T, D, forecast) ==
    [k \in DOMAIN ByLine(T, D) |-> Cardinality(In(T, ByLine(T, D)[k], forecast))]
OverviewValues(T, D, forecast) ==
    [k \in DOMAIN ByLine(T, D) |-> SumOfValues(T, In(T, ByLine(T, D)[k], forecast))]
OverviewTotals(T, D) == Counts(ByLine(T, D))

\* get_pipeline_funnel: per line and stage.
Funnel(T, D) == Counts(GroupBy(D, [d \in D |-> <<T[d].line, T[d].stage>>]))

\* get_active_pipeline, and its split by the endpoint.
Excluded(T, D) == {d \in In(T, D, "Open") : T[d].dead \/ Exceeds(T[d].age, 730)}
Live(T, D) == In(T, D, "Open") \ Excluded(T, D)

\* get_revenue_forecast, by line and by whether there is a close month.
RevenueOpen(T, D) ==
    LET months == GroupBy(D, [d \in D |-> <<T[d].line, T[d].close>>])
    IN  [k \in DOMAIN months |-> SumOfValues(T, In(T, months[k], "Open"))]

\* get_staleness and its endpoint.
StaleByMove(T, D) == {d \in In(T, D, "Open") : Exceeds(T[d].moved, StaleDays)}
NoActivity(T, D) == {d \in In(T, D, "Open") : Exceeds(Latest(T[d]), StaleDays)}

\* Mutant: a deal without any activity has no days to compare.
NotRecentWithDays(row) == Exceeds(Latest(row), StaleDays)

\* coalesce(days_since_activity, 1e9) > stale_days
NotRecent(row) == Latest(row) = None \/ Exceeds(Latest(row), StaleDays)

\* get_owner_accountability: figures over the open deals of each owner.
ByOwner(T, D) == GroupBy(D, [d \in D |-> T[d].owner])
OwnerTotals(T, D) == Counts(ByOwner(T, D))
OpenByOwner(T, D) == [o \in DOMAIN ByOwner(T, D) |-> In(T, ByOwner(T, D)[o], "Open")]
OwnersNotRecent(T, D) ==
    LET open == OpenByOwner(T, D)
    IN  [o \in DOMAIN open |-> Cardinality({d \in open[o] : NotRecent(T[d])})]
OwnersStaleValue(T, D) ==
    LET open == OpenByOwner(T, D)
    IN  [o \in DOMAIN open |-> SumOfValues(T, {d \in open[o] : Exceeds(T[d].moved, StaleDays)})]
OwnersNoNextAction(T, D) ==
    LET open == OpenByOwner(T, D)
    IN  [o \in DOMAIN open |-> Cardinality({d \in open[o] : T[d].tasks = {}})]
OwnersNoFollowUp(T, D) ==
    LET open == OpenByOwner(T, D)
    IN  [o \in DOMAIN open |->
            Cardinality({d \in open[o] : ~T[d].close /\ T[d].tasks \ {"undated"} = {}})]

\* get_next_actions: one row over all open deals.
NextTasks(T, D) == {d \in In(T, D, "Open") : T[d].tasks # {}}
FollowUps(T, D) ==
    {d \in In(T, D, "Open") : T[d].close \/ \E t \in T[d].tasks : t # "undated"}
RecentlyActive(T, D) ==
    {d \in In(T, D, "Open") : Latest(T[d]) # None /\ Latest(T[d]) <= StaleDays}

\* get_loss_reasons, by reason, then by category.
LossReasons(T, D) ==
    Counts(GroupBy(In(T, D, "Closed Lost"), [d \in In(T, D, "Closed Lost") |-> T[d].reason]))
Category(reason) ==
    CASE reason = None -> "no reason recorded"
      [] reason = "price is too high" -> "pricing"
      [] reason = "opted our rival" -> "competitor"
      [] OTHER -> "uncategorised"
LossCategories(T, D) ==
    LET rows == LossReasons(T, D)
        grouped == GroupBy(DOMAIN rows, [r \in DOMAIN rows |-> Category(r)])
    IN  [c \in DOMAIN grouped |-> SumFunctionOnSet(rows, grouped[c])]

\* get_ageing: four buckets.  A deal without an age is in none of them.
Bucket(age) ==
    CASE age < 30 -> "0-30" [] age >= 30 /\ age < 90 -> "30-90"
      [] age >= 90 /\ age < 365 -> "90-365" [] age >= 365 -> "365+"
Ageing(T, D, key) ==
    LET aged == {d \in In(T, D, "Open") : T[d].age # None}
    IN  Counts(GroupBy(aged, [d \in aged |-> <<key[d], Bucket(T[d].age)>>]))

\* get_response_times: per owner, the deals with and without an outgoing
\* e-mail, and the average of the responses that did not precede the deal.
Responded(T, D) == {d \in D : T[d].outreach # None /\ T[d].created # None}
Measured(T, D) == {d \in Responded(T, D) : T[d].outreach >= T[d].created}
Days(T, D) == SumFunction([d \in D |-> T[d].outreach - T[d].created])
OfOwner(T, D, o) == {d \in D : T[d].owner = o}

\* Mutant: an owner's average weighs as much as the owner has deals.
WeightOfDeals(T, D, o) == Cardinality(OfOwner(T, D, o))

Weight(T, D, o) == Cardinality(Responded(T, OfOwner(T, D, o)))

\* overall_avg_first_response_days, as a fraction and before it is rounded:
\* the owners' averages, each times its deals with outreach, over all of them.
OverallResponse(T, D) ==
    LET owners == {T[d].owner : d \in D}
        count(o) == Cardinality(Measured(T, OfOwner(T, D, o)))
        rated == {o \in owners : count(o) > 0}
        scale == FoldFunction(LAMBDA x, y : x * y, 1, [o \in rated |-> count(o)])
    IN  [num |-> SumFunction([o \in rated |-> Days(T, Measured(T, OfOwner(T, D, o)))
                                * Weight(T, D, o) * (scale \div count(o))]),
         den |-> scale * SumFunction([o \in owners |-> Weight(T, D, o)])]

-----------------------------------------------------------------------------
(* A request                                                                *)

\* get_data_as_of; 0 before the first sync.
DataAsOf == Max({0} \cup {stamp[d] : d \in ReportDeals})

ReadRows(scope) ==
    Max({report.newest} \cup {began[d] : d \in Filtered(table, NoFilters, scope)})

\* get_owner_scope: a rep sees the deals of the linked owner, and a rep without
\* one is refused; everyone else sees all.
OwnerScope(role, owner) == IF role = "rep" THEN owner ELSE None

ReportStarts(role, owner, pc) ==
    /\ report.pc = "idle"
    /\ role = "rep" => owner # None
    /\ LET scope == OwnerScope(role, owner)
       IN  report' = [pc |-> pc, scope |-> scope, newest |-> ReadRows(scope), as_of |-> 0]
    /\ setback' = FALSE
    /\ UNCHANGED <<table, stamp, writes, webhooks, syncs, began>>

\* Ageing and data quality have a second query.
ReadsAgain ==
    /\ report.pc = "again"
    /\ report' = [report EXCEPT !.pc = "as_of", !.newest = ReadRows(report.scope)]
    /\ UNCHANGED <<table, stamp, writes, webhooks, syncs, began, setback>>

ReadsAsOf ==
    /\ report.pc = "as_of"
    /\ report' = [report EXCEPT !.pc = "answered", !.as_of = DataAsOf]
    /\ UNCHANGED <<table, stamp, writes, webhooks, syncs, began, setback>>

ReportDone ==
    /\ report.pc = "answered"
    /\ report' = NoReport
    /\ UNCHANGED <<table, stamp, writes, webhooks, syncs, began, setback>>

ReportNext ==
    \/ WebhookBegins \/ SyncBatchBegins
    \/ \E now \in webhooks, d \in ReportDeals, row \in RowChoices :
        WebhookCommits(now, d, row)
    \/ \E now \in syncs : SyncBatchCommits(now)
    \/ \E now \in webhooks \cup syncs : WriteEnds(now)
    \/ \E role \in {"rep", "admin"}, owner \in OrNull(DealOwners), pc \in {"again", "as_of"} :
        ReportStarts(role, owner, pc)
    \/ ReadsAgain \/ ReadsAsOf \/ ReportDone

ReportSpec == ReportInit /\ [][ReportNext]_reportVars

-----------------------------------------------------------------------------
(* Properties                                                               *)

\* What the filters and scopes of requests can select.
Selections ==
    {Filtered(table, f, scope) :
        f \in [line: OrNull(Lines), owner: OrNull(DealOwners)], scope \in OrNull(DealOwners)}

\* The endpoints compute the same figures in different queries, and what two
\* of them say of the same deals agrees, whatever columns are NULL: the live
\* and the excluded pipeline with the overview; the owners' gaps with the
\* totals of next-actions; stale deals and their value by owner with those by
\* stage move; the categories of lost deals with the overview; both ageing
\* tables with each other.  A deal that never had any activity counts as not
\* recent for its owner, and is missing from no_activity of staleness.
BooksBalance ==
    \A D \in Selections :
        LET T == table
            open == Cardinality(In(T, D, "Open"))
            never == {d \in In(T, D, "Open") : Latest(T[d]) = None}
        IN  /\ Cardinality(Live(T, D)) + Cardinality(Excluded(T, D))
                = Total(OverviewCounts(T, D, "Open"))
            /\ SumOfValues(T, Live(T, D)) + SumOfValues(T, Excluded(T, D))
                = Total(OverviewValues(T, D, "Open"))
            /\ Total(RevenueOpen(T, D)) = Total(OverviewValues(T, D, "Open"))
            /\ Total(Funnel(T, D)) = Total(OverviewTotals(T, D))
            /\ Total(OwnerTotals(T, D)) = Total(OverviewTotals(T, D))
            /\ Total(OwnersNotRecent(T, D)) + Cardinality(RecentlyActive(T, D)) = open
            /\ Total(OwnersNoNextAction(T, D)) + Cardinality(NextTasks(T, D)) = open
            /\ Total(OwnersNoFollowUp(T, D)) + Cardinality(FollowUps(T, D)) = open
            /\ Total(OwnersNotRecent(T, D)) = Cardinality(NoActivity(T, D)) + Cardinality(never)
            /\ Total(OwnersStaleValue(T, D)) = SumOfValues(T, StaleByMove(T, D))
            /\ Total(LossCategories(T, D)) = Total(OverviewCounts(T, D, "Closed Lost"))
            /\ Total(Ageing(T, D, [d \in D |-> T[d].stage]))
                = Total(Ageing(T, D, [d \in D |-> T[d].owner]))

\* "The true per-deal average first-response time": the weighted mean of the
\* owners' averages is the mean over the deals, unless a deal's first outgoing
\* e-mail is older than the deal, which weighs in without being averaged.
OverallIsMean ==
    \A D \in Selections :
        LET responded == Responded(table, D)
            overall == OverallResponse(table, D)
        IN  responded # {} /\ Measured(table, D) = responded
                => overall.num * Cardinality(responded) = overall.den * Days(table, responded)

\* The watermark an answer echoes is never older than the rows it is about,
\* although webhooks and syncs, any of which may be open at once, commit between
\* its statements.  Excepted is a request under which a transaction overwrites
\* a row of one that began later, and so takes the newer stamp away.
WatermarkCoversRows ==
    report.pc = "answered" /\ ~setback => report.newest <= report.as_of
=============================================================================
