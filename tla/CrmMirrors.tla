---------------------------- MODULE CrmMirrors ----------------------------
(***************************************************************************)
(* The local copies of Freshsales' activity records: e-mails and timeline   *)
(* events of a deal (deleted and inserted anew), tasks (INSERT ... ON       *)
(* CONFLICT), the outreach on campaign contacts (looked up and updated by   *)
(* source_key), and the daily count of deals per stage.  The scheduled run  *)
(* of a job holds an advisory lock; the admin endpoints run the same code   *)
(* without it.                                                              *)
(*                                                                          *)
(* The tables are independent, so a behaviour is about one of them: `kind`. *)
(***************************************************************************)
EXTENDS Naturals, FiniteSets, Functions, UnitOfWork

CONSTANTS
    Targets,        \* deals (contacts, for kind "activity")
    Items,          \* Freshsales records of one target
    Dated,          \* those with a timestamp that can be parsed
    Calls,          \* those in the account-wide list of sales activities
    Runners,        \* runs of the job that can be active at once
    PipelineDeals, Stages,  \* for the daily snapshot: deals_snapshot, and the stages
    MaxRuns,        \* bound: runs of the job
    MaxCrmFailures  \* bound: failed calls of Freshsales, and restarts

ASSUME MirrorAssumptions ==
    /\ Dated \subseteq Items /\ Calls \subseteq Items
    /\ None \notin Targets /\ None \notin Stages /\ None \notin Nat
    /\ Stages # {} /\ IsFiniteSet(Stages) /\ IsFiniteSet(PipelineDeals)
    /\ MaxRuns \in Nat /\ MaxCrmFailures \in Nat

Kinds == {"emails", "timeline", "tasks", "activity", "snapshot"}
Replaced == {"emails", "timeline"}          \* delete and insert
Rows == Items \X (0 .. MaxRuns)             \* a row: its record, who inserted it

\* A run: the targets listed and not done, the target at hand, the records
\* fetched for it, the rows its DELETE has found, the calls and meetings of
\* its contacts; history: targets written by others at the wrong moment.
Run == [pc: {"idle", "fetch", "delete", "commit", "calls"},
        no: 0 .. MaxRuns, todo: SUBSET Targets, target: Targets \cup {None},
        fetched: SUBSET Items, deleted: SUBSET Rows,
        calls: [Targets -> SUBSET Items], raced: SUBSET Targets]

NoCalls == [d \in Targets |-> {}]
NoRun == [pc |-> "idle", no |-> 0, todo |-> {}, target |-> None, fetched |-> {},
          deleted |-> {}, calls |-> NoCalls, raced |-> {}]

VARIABLES
    kind,
    crm,        \* Freshsales: the records of each target
    open,       \* deals in a stage whose forecast_type is Open
    mirror,     \* the rows the job keeps
    hooked,     \* deal_events inserted by webhooks, by record
    run,        \* the runs
    runs, mfaults,
    stage,      \* deals_snapshot: the stage of each deal
    counted,    \* pipeline_daily_snapshot of today, None where there is no row
    exact,      \* history: what the last run read, None if it was disturbed
    emptied     \* history: stages left empty since today's snapshot counted them

mirrorVars == <<kind, crm, open, mirror, hooked, run, runs, mfaults, stage, counted,
                exact, emptied>>
tables == <<crm, open, hooked, stage, counted, emptied>>

MirrorTypeOK ==
    /\ kind \in Kinds
    /\ crm \in [Targets -> SUBSET Items]
    /\ open \subseteq Targets
    /\ mirror \in [Targets -> SUBSET Rows]
    /\ hooked \in [Targets -> SUBSET Items]
    /\ run \in [Runners -> Run]
    /\ runs \in 0 .. MaxRuns
    /\ mfaults \in 0 .. MaxCrmFailures
    /\ stage \in [PipelineDeals -> Stages]
    /\ counted \in [Stages -> (0 .. Cardinality(PipelineDeals)) \cup {None}]
    /\ exact \in [Targets -> (SUBSET Items) \cup {None}]
    /\ emptied \subseteq Stages

MirrorInit ==
    /\ kind \in Kinds
    /\ crm = [d \in Targets |-> {}]
    /\ open = Targets
    /\ mirror = [d \in Targets |-> {}]
    /\ hooked = [d \in Targets |-> {}]
    /\ run = [j \in Runners |-> NoRun]
    /\ runs = 0 /\ mfaults = 0
    /\ stage = [d \in PipelineDeals |-> CHOOSE s \in Stages : TRUE]
    /\ counted = [s \in Stages |-> None]
    /\ exact = [d \in Targets |-> None]
    /\ emptied = {}

Running(j) == run[j].pc # "idle"
StopRun(j) == run' = [run EXCEPT ![j] = NoRun]
CrmFails == mfaults < MaxCrmFailures /\ mfaults' = mfaults + 1
DealsIn(s) == {d \in PipelineDeals : stage[d] = s}

-----------------------------------------------------------------------------
(* Freshsales and the webhook                                               *)

\* A record appears; tasks, notes and e-mails can also be removed.
CrmChanges(d, i) ==
    /\ kind # "snapshot"
    /\ \/ i \notin crm[d] /\ crm' = [crm EXCEPT ![d] = @ \cup {i}]
       \/ kind # "timeline" /\ i \in crm[d] /\ crm' = [crm EXCEPT ![d] = @ \ {i}]
    /\ UNCHANGED <<kind, open, mirror, hooked, run, runs, mfaults, stage, counted, exact, emptied>>

\* The deal sync stores a deal as closed, or as open again.
DealStageChanges(d) ==
    /\ kind \in {"emails", "tasks"}
    /\ open' = IF d \in open THEN open \ {d} ELSE open \cup {d}
    /\ UNCHANGED <<kind, crm, mirror, hooked, run, runs, mfaults, stage, counted, exact, emptied>>

\* A run has listed d and not committed it.
Listed(j, d) == Running(j) /\ (d \in run[j].todo \/ run[j].target = d)

\* The webhook of a change inserts its event, whenever it arrives: also when
\* a backfill has listed the deal, or has read the change already.
WebhookEvent(d, i) ==
    /\ kind = "timeline" /\ i \in crm[d] \ hooked[d]
    /\ hooked' = [hooked EXCEPT ![d] = @ \cup {i}]
    /\ run' = [j \in Runners |-> IF Listed(j, d) THEN [run[j] EXCEPT !.raced = @ \cup {d}]
                                 ELSE run[j]]
    /\ exact' = IF i \in {row[1] : row \in mirror[d]}
                THEN [exact EXCEPT ![d] = None] ELSE exact
    /\ UNCHANGED <<kind, crm, open, mirror, runs, mfaults, stage, counted, emptied>>

-----------------------------------------------------------------------------
(* One run                                                                  *)

\* The deals with no event at all, be it from a webhook or from a backfill.
DealsWithoutEvents == {d \in Targets : mirror[d] = {} /\ hooked[d] = {}}

\* What a run works through; for outreach, the campaign's contacts.
ListTargets ==
    CASE kind \in {"emails", "tasks"} -> open
      [] kind = "timeline" -> DealsWithoutEvents
      [] kind = "activity" -> Targets

\* The activity job has no endpoint: its lock keeps runs apart.
RunStarts(j) ==
    /\ kind # "snapshot" /\ ~Running(j) /\ runs < MaxRuns
    /\ kind = "activity" => \A o \in Runners : ~Running(o)
    /\ runs' = runs + 1
    /\ run' = [run EXCEPT ![j] =
                [NoRun EXCEPT !.pc = "fetch", !.no = runs + 1, !.todo = ListTargets]]
    /\ UNCHANGED <<kind, mirror, mfaults, exact, tables>>

\* What a run keeps of a response.  Tasks are kept without a due date too; an
\* e-mail or a feed entry without a timestamp is dropped.  Of a contact's
\* records the calls and meetings come later, from a list of their own.
ParseTasks(records) == records
ParseEmails(records) == records \cap Dated
ParseTimeline(records) == records \cap Dated
ParseContact(records) == (records \cap Dated) \ Calls

Parsed(records) ==
    CASE kind = "tasks"    -> ParseTasks(records)
      [] kind = "emails"   -> ParseEmails(records)
      [] kind = "timeline" -> ParseTimeline(records)
      [] kind = "activity" -> ParseContact(records)

\* The deal's conversations, tasks or timeline; the contact's conversations
\* and notes.  A failure that outlasts the retries ends the run.
FetchTarget(j) ==
    /\ run[j].pc = "fetch"
    /\ \/ \E d \in run[j].todo :
            /\ run' = [run EXCEPT ![j].pc = IF kind \in Replaced THEN "delete" ELSE "commit",
                                  ![j].todo = @ \ {d}, ![j].target = d,
                                  ![j].fetched = Parsed(crm[d])]
            /\ UNCHANGED mfaults
       \/ run[j].todo # {} /\ CrmFails /\ StopRun(j)
    /\ UNCHANGED <<kind, runs, mirror, exact, tables>>

\* Mutant: nothing is deleted.
RowsToDeleteNone(d) == {}

\* The DELETE sees the rows committed when it starts.
RowsToDelete(d) == mirror[d]

DeleteRows(j) ==
    /\ run[j].pc = "delete"
    /\ run' = [run EXCEPT ![j].pc = "commit", ![j].deleted = RowsToDelete(run[j].target)]
    /\ UNCHANGED <<kind, runs, mirror, exact, mfaults, tables>>

\* The rows after one record is written: a new row, or the one with its key.
Written(j, items) ==
    {<<i, IF kind \in Replaced THEN run[j].no ELSE 0>> : i \in items}

\* session.commit(), after each target.  A DELETE that met rows another run
\* had deleted waits for that run and then finds them gone: the same result.
CommitTarget(j) ==
    LET s == run[j]
        d == s.target
    IN  /\ s.pc = "commit"
        /\ mirror' = [mirror EXCEPT ![d] = (@ \ s.deleted) \cup Written(j, s.fetched)]
        /\ exact' = [exact EXCEPT ![d] = IF d \in s.raced THEN None ELSE s.fetched]
        /\ run' = [o \in Runners |->
                    CASE o = j -> [s EXCEPT !.pc = "fetch", !.target = None, !.fetched = {},
                                            !.deleted = {}]
                      [] o # j /\ kind \in Replaced /\ run[o].pc = "commit" /\ run[o].target = d
                            -> [run[o] EXCEPT !.raced = @ \cup {d}]
                      [] OTHER -> run[o]]
        /\ UNCHANGED <<kind, runs, mfaults, tables>>

\* All targets are done.  The activity run goes on with the account's calls
\* and meetings, those of its contacts only, in one more transaction.
RunEnds(j) ==
    /\ run[j].pc = "fetch" /\ run[j].todo = {}
    /\ IF kind = "activity"
       THEN \/ run' = [run EXCEPT ![j].pc = "calls",
                                  ![j].calls = [d \in Targets |-> crm[d] \cap Dated \cap Calls]]
               /\ UNCHANGED mfaults
            \/ CrmFails /\ StopRun(j)
       ELSE StopRun(j) /\ UNCHANGED mfaults
    /\ UNCHANGED <<kind, runs, mirror, exact, tables>>

CommitCalls(j) ==
    /\ run[j].pc = "calls"
    /\ mirror' = [d \in Targets |-> mirror[d] \cup Written(j, run[j].calls[d])]
    /\ StopRun(j)
    /\ UNCHANGED <<kind, runs, mfaults, exact, tables>>

\* The service stops: open transactions are rolled back.
MirrorCrash ==
    /\ \E j \in Runners : Running(j)
    /\ CrmFails
    /\ run' = [j \in Runners |-> NoRun]
    /\ UNCHANGED <<kind, runs, mirror, exact, tables>>

-----------------------------------------------------------------------------
(* The daily snapshot: one INSERT ... SELECT ... ON CONFLICT statement       *)

MoveStage(d, s) ==
    /\ kind = "snapshot" /\ stage[d] # s
    /\ stage' = [stage EXCEPT ![d] = s]
    /\ emptied' = IF DealsIn(stage[d]) = {d} /\ counted[stage[d]] # None
                  THEN emptied \cup {stage[d]} ELSE emptied
    /\ UNCHANGED <<kind, crm, open, mirror, hooked, run, runs, mfaults, counted, exact>>

\* Mutant: ON CONFLICT leaves the row of an earlier run of the day.
TodaySnapshotKeeps ==
    [s \in Stages |-> IF DealsIn(s) = {} \/ counted[s] # None THEN counted[s]
                      ELSE Cardinality(DealsIn(s))]

\* GROUP BY has no row for a stage without deals: its row of today stays.
TodaySnapshot ==
    [s \in Stages |-> IF DealsIn(s) = {} THEN counted[s] ELSE Cardinality(DealsIn(s))]

WriteTodaySnapshot ==
    /\ kind = "snapshot" /\ runs < MaxRuns
    /\ runs' = runs + 1
    /\ counted' = TodaySnapshot
    /\ emptied' = emptied \ {s \in Stages : DealsIn(s) # {}}
    /\ UNCHANGED <<kind, crm, open, mirror, hooked, run, mfaults, stage, exact>>

\* Midnight: there are no rows for the new current_date.
NextDay ==
    /\ kind = "snapshot" /\ \E s \in Stages : counted[s] # None
    /\ counted' = [s \in Stages |-> None]
    /\ emptied' = {}
    /\ UNCHANGED <<kind, crm, open, mirror, hooked, run, runs, mfaults, stage, exact>>

MirrorNext ==
    \/ \E d \in Targets, i \in Items : CrmChanges(d, i) \/ WebhookEvent(d, i)
    \/ \E d \in Targets : DealStageChanges(d)
    \/ \E d \in PipelineDeals, s \in Stages : MoveStage(d, s)
    \/ \E j \in Runners :
        \/ RunStarts(j) \/ FetchTarget(j) \/ DeleteRows(j) \/ CommitTarget(j)
        \/ RunEnds(j) \/ CommitCalls(j)
    \/ MirrorCrash \/ WriteTodaySnapshot \/ NextDay

MirrorSpec == MirrorInit /\ [][MirrorNext]_mirrorVars

-----------------------------------------------------------------------------
(* Properties                                                               *)

\* How often a record is counted: its rows, and its webhook event.
TimesCounted(d, i) ==
    Cardinality({row \in mirror[d] : row[1] = i}) + (IF i \in hooked[d] THEN 1 ELSE 0)

\* "Re-running never duplicates": each record the last run of a target read is
\* counted exactly once, and a replaced table holds nothing else, however
\* often runs were repeated, failed or cut off before.  Excepted is a target
\* another run committed between this run's DELETE and its commit (nothing
\* locks out the manual runs), and a deal whose webhook came between the
\* listing and the commit of its backfill, or after the backfill had read it.
MirrorIsExact ==
    \A d \in Targets : exact[d] # None
        => /\ \A i \in exact[d] : TimesCounted(d, i) = 1
           /\ kind \in Replaced => \A row \in mirror[d] : row[1] \in exact[d]

\* "Idempotent for same-day re-runs": the counts of a day add up to the number
\* of deals, unless a stage that was counted has been emptied since, whose row
\* a later run leaves as it is.
DayAddsUp ==
    emptied = {} /\ (\E s \in Stages : counted[s] # None)
        => SumFunction([s \in Stages |-> IF counted[s] = None THEN 0 ELSE counted[s]])
            = Cardinality(PipelineDeals)
=============================================================================
