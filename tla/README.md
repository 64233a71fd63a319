# TLA+ models of the sales and trades backend

The service (FastAPI, SQLAlchemy on Postgres, APScheduler) captures leads at
events, mails them documents, pushes them to the Freshsales CRM, mirrors the CRM's
deals and activities, ingests webhooks from Freshsales and SendGrid, registers
participants of trade programs, books meeting rooms and reports on the deals. It
runs as one or more instances that share nothing but the database; operators run
scripts on the same database. These modules model the parts of it that keep state
and can be interrupted, repeated or interleaved.

## Inventory

| Component | State | Operations | Interacts with | What is hard |
|---|---|---|---|---|
| Lead capture (`services/lead_service.py`, `endpoints/campaigns.py`) | `leads`, `campaigns` | submit (create or merge by e-mail), delete, bulk delete, campaign edit, triage | calls pack delivery inline; leaves `pending` rows for the jobs | two first submissions at once; rows held in memory across awaits |
| Lead CRM sync (`services/lead_crm_sync.py`) | `crm_*` columns, Freshsales contacts | sweep, forced sync, second participant | shares rows with capture and delivery | push takes seconds, the row moves on; unanswered calls; refused leads |
| Pack delivery (`services/pack_delivery.py`, `campaign_mailer.py`) | `pack_*` columns, SendGrid | inline delivery, viewing mail, sweep, resend | re-queues the lead for the CRM | three senders of one pack; timeouts after acceptance; crashes |
| Lead triage (`endpoints/campaigns.py`, `services/lead_triage_sync.py`) | `triage_*` columns | PATCH by a rep, sweep | Freshsales contacts | the sweep works on copies while reps decide; a limited window |
| Job scheduler (`core/scheduler.py`, `jobs/tasks.py`, `main.py`) | advisory locks, connection pool, stage resolver | fire, lock, run, unlock, start-up and manual sync | runs every sweep | several instances; lost connections; pool exhaustion |
| Room bookings (`services/booking_service.py`) | `bookings`, `rooms` | create, cancel | confirmation mail | check-then-insert; retries; lost commits |
| Trade registration (`services/trade_capture.py`, `trade_crm_sync.py`) | `trade_leads`, `trade_programs` | register, review, re-seed, sweep | Freshsales | two rows per registration in two commits; approval gate against a sweep |
| Trade documents (`services/trade_eligibility.py`, `trade_storage.py`) | `trade_documents`, object store, `eligibility_status` | upload, replace, clean-up script | registration rows | two stores that cannot commit together |
| Deals (`services/webhook_ingest.py`, `change_detection.py`, `deal_sync.py`, `reference_sync.py`) | `deals_snapshot`, `deal_events`, reference tables, resolver in memory | webhook, nightly sync, reference sync | Freshsales both ways | lost, repeated, reordered webhooks; sync against webhook |
| Mirrors (`task_sync.py`, `email_sync.py`, `nog_activity_sync.py`, `timeline_backfill.py`, `daily_snapshot.py`) | one table each | a run over all targets | the manual syncs of `endpoints/admin.py` | delete and insert in two statements, without the lock |
| Freshsales client and logging agent (`freshsales/client.py`, `services/agent_logging.py`) | token bucket, notes and tasks in Freshsales | request with retries, `POST /agent/log` | every sync | a POST that was done and not answered; an hour's budget |
| E-mail events (`services/email_event_ingest.py`, `lead_scoring.py`) | `email_events`, rollup columns of `leads` | batch of events | re-submits write the same row | at-least-once, unordered, concurrent batches |
| Accounts (`endpoints/auth.py`, `endpoints/admin.py`, `core/security.py`) | `dashboard_users`, cookies | login, refresh, logout, password change, invite, reset, role change, removal, seed | every endpoint checks the loaded caller | checks on a stale copy of the caller |
| Reports (`repositories/analytics_repo.py`, `endpoints/analytics.py`) | none | one request of several queries | reads what the syncs write | figures computed twice; NULLs; a watermark read apart |
| Scripts (`scripts/`) | `leads.responses`, `icp_tier`, trade tables | import, enrichment, scoring, reconnect broadcast, export transfer, trade import | the running service | several commits; a whole JSON column written back |

`PROJECT.json` lists every component with its status, and every hazard at the
line where it bites.

## Modules

A *session* in these modules is one open database session. SQLAlchemy is used
with `expire_on_commit=False`, so a session keeps the columns it has loaded until
it refreshes the row, and an UPDATE writes only the columns that differ from what
was loaded. `UnitOfWork` states that once (`Flushed`); the older modules have an
operator `Merge` of the same meaning. A step is one statement with its commit, or
one call to an outside service. An outside call can be done and answered, not
done, or done without an answer.

* **`LeadLifecycle`**, **`LeadPromise`** (`MCLeadLifecycle`, `MCLeadMix`): capture, CRM sync and pack
  delivery over one campaign. `rows` is the `leads` table (the unique index makes
  it a function of the address), `contacts`, `seconds` and `mailed` are what
  Freshsales and SendGrid have taken, `ses` the open sessions. One action per
  await-to-await step of `capture_lead_created`, `deliver_pack`,
  `deliver_viewing`, `sync_lead`, the two sweeps, resend, forced sync, delete, bulk
  delete, campaign edit and restart. `raced` and `lost` are history: a row written,
  or deleted, while another session held a copy. `LeadPromise` is what the table
  promises of the outside world: a lead enters under an id for which nothing was
  mailed, says synced or delivered only when it is so, and does not take that back
  while it lives. `LeadLifecycle` implements it: a row is mapped to its id and to
  what it says (`Said`), the services to whom they know (`Known`) and to the leads
  they have mailed (`Posted`).
* **`JobScheduler`**, **`JobLease`** (`MCJobScheduler`): `run_with_advisory_lock`
  on several instances. `pc` is where each instance is with each job, `owner` who
  holds the Postgres lock, `lost` the runs whose lock connection has gone. A run
  takes one connection for the lock and one for its work from a pool of
  `PoolSize`. `JobLease` is the promise: a lease per job, taken only when free and
  given up by its holder. `JobScheduler` is shown to implement it under the mapping
  `holder <- owner, stale <- StaleRuns`.
* **`FreshsalesCalls`**: the client's rate limiter and retries under the logging
  agent. One webhook call searches a deal, fetches it, checks its pipeline and
  writes a note and a task; each HTTP attempt takes a token. Time is in ticks of
  one token's refill.
* **`LeadTriage`**: reps' PATCH requests and the sweep that moves leads contacted
  in Freshsales out of "new". `late` is history: leads a rep decided on after the
  sweep had loaded them.
* **`RoomBookings`** (`MCRoomBookings`): `create_booking` from validation to
  confirmation, with access-code collisions, failing inserts, commits whose
  answer is lost, crashes, cancellation and time passing. `seen` records which
  bookings each overlap check found in the table.
* **`TradeRegistration`** (`MCTradeRegistration`): `capture_registration` with its
  separate commits for the two participants, reviews, re-seeding of the program,
  and `sync_pending_trade`.
* **`TradeDocuments`**: the upload of an eligibility document, step by step (store
  the object, look up the row, delete the old object, write the row, list the
  documents, roll the status up on each participant), with failing store calls,
  restarts and the clean-up script.
* **`DealPipeline`** (`MCDealPipeline`): one deal, edited in Freshsales; its
  webhooks in a network that loses, repeats and reorders; the handlers; the
  reference tables and the resolver each instance builds from them; the nightly
  sync.
* **`CrmMirrors`**: the tables filled from Freshsales' activity records. They are
  independent of each other, so a behaviour is about one `kind`: e-mails and
  timeline events (delete and insert), tasks (upsert), outreach on contacts (look
  up and write), the daily count.
* **`EmailEvents`** (`MCEmailEvents`): one lead, batches of events handled by
  concurrent requests, the dedup by event id, the rollup and the stored score,
  re-submits, deletion and crashes. `broken` is the SQLAlchemy session after a
  failed flush that nobody has rolled back. The score has all the inputs of
  `engagement_score`; two of them change without it: `DeliverPack` stands for the
  commits of `deliver_pack` and `deliver_viewing`, which set the pack status only,
  and `Later` for time, on which the tiers of recency depend. `computed` is
  `score_computed_at`, and `counted`, a history variable, the pack status that
  went into the stored score.
* **`UserAdmin`**: accounts and their cookies. An administrative request loads the
  caller from the cookie, checks the role it loaded, loads its target, commits and
  answers; others run in between.
* **`ExportTransfer`**: the transfer of a campaign's registrations into the trade
  tables, registration by registration, beside the import script, the public form
  and arriving e-mail events.
* **`LeadScripts`**: import, enrichment, ICP scoring and reconnect broadcast over
  the JSON column `responses`, beside visitors who register again. Two runs of the
  same script at the same time are excluded: an operator starts them by hand.
* **`Dashboards`**: the reports as operators over the table of deals (`GroupBy`
  stands for SQL's), and a request as its sequence of statements beside the
  writers: any number of webhooks and of deal syncs (the manual ones take no lock)
  are open at once, and each begins and commits its transactions in steps of their
  own. A timestamp written by a transaction is its begin, as Postgres' `now()` is.
* **`MCBackOffice`** puts accounts, documents, mirrors, transfer, scripts and
  reports into one run, **`MCJobScheduler`** scheduler, client and triage. These
  share no state, so the initial state chooses the `part` a behaviour is about and
  the others stand still.

Data is abstracted to what the properties tell apart: the descriptive columns of
a lead are one value (`info`), a document is a label, a deal is a stage and an
owner, form answers are their score points, a password is the call that generated
it. Definitions marked `external` in the map stand for Freshsales, SendGrid,
Postgres and SQLAlchemy as the code uses them. Operators under a comment that
starts with *Mutant* are deliberately wrong variants: no specification uses them,
they serve to show that a property notices the bug they describe.

## Runs

| Run | Instance | Checks |
|---|---|---|
| `leads` | one address, 2 submissions, 2 captures, 1 fault, 1 staff operation, 3 payloads (with viewing and second participant), live and test campaigns, settings on or off; the constraint `Mix` leaves out a race, a failure and a staff operation all in one behaviour, and concurrent captures after a failure | `StatusIsTrue`, `FailsOnlyOnDelete`, `SyncedIsCurrentUnlessRaced` |
| `leads_live` | 2 addresses, one refused by Freshsales, one fault | `EventuallySynced`, `EventuallyDelivered` |
| `leads_stale` | as `leads`, live campaign, nothing fails, nobody on staff | `SyncedIsCurrent` is **violated** |
| `jobs` | part "jobs": 2 instances, 2 jobs, pool of 2; "calls": one deal in 2 pipelines that is moved twice, budget of 2; "triage": 1 lead and 1 rep; "window": 3 leads and a limit of 2 | `LockHeldByRun`, `OverlapOnlyAfterLoss`, `ImplementsLease`, `EveryRunEnds`; `WritesAreBounded`, `RateIsBounded`, `OnlyAllowedPipelines`, `AgentAnswers`; `RepDecisionStands`, `ContactedIsNoticed` |
| `bookings` | 2 requests, 2 codes, 3 attempts, 4 points in time, one closed room | `OverlapOnlyByRace`, `AnswersAreHonest`, `EveryRequestEnds` |
| `bookings_double` | 2 requests | `NoDoubleBooking` is **violated** |
| `trade` | 2 registrars, 1 sweep, 2 addresses, 2 submissions, 1 fault, 1 review, approval required | `SyncedWasApproved`, `OneSecondUnlessCrowded`, `SweepKeepsTheRest`, `EventuallySettled` |
| `trade_retry` | the same | `AtMostTwoParticipants` is **violated** |
| `deals` | 2 stages (one unknown at first), 1 owner (unknown at first), 2 handlers, 2 edits, 1 repeat, 1 early sync, 1 fault | `HistoryUnlessDisturbed`, `NeverForgets`, `CatchesUp` |
| `events` | 2 requests, 2 posts of 2 batches, each of which may come twice, 2 opens a tier of recency apart on the later of 2 days, 1 re-submit, 1 pack delivery, 1 crash | `NeverOvercounts`, `RollupIsExactUnlessRaced`, `EventuallyRecorded` |
| `events_batch` | 2 requests, 2 posts | `BatchSurvivesBadEvent` is **violated** |
| `office` | users: 2 accounts, 2 open requests, 3 in all, 1 restart; documents: 2 keys, 2 uploads at once, 3 in all, 1 fault; mirrors: 2 runs at once, 3 in all, 2 records, 1 failure; transfer: 2 registrations, 1 stranger, 1 cut; scripts: 2 visitors, 2 forms, 3 runs, 1 fault; reports: 2 deals, 6 kinds of row, 3 transactions of webhooks and syncs, up to all of them open at once | `SuperadminRemains`, `TemporaryPasswords`; `RowHasObject`, `StatusIsRollup`; `MirrorIsExact`, `DayAddsUp`; `TransferIsWhole`; `ReconnectOnce`, `AnswersSurvive`; `BooksBalance`, `OverallIsMean`, `WatermarkCoversRows` |

What the passing runs show, in words:

* A lead marked synced has a contact, and every document recorded as delivered
  was mailed for this very row, whatever is deleted, re-submitted, restarted or
  left unanswered in between. The capture race is always recovered; a session ends
  in an unhandled error only if its lead was deleted under it. Without a write
  under a session's copy, the CRM is current; the second participant is a contact
  as well, unless a call has failed: the outcome of that push is kept nowhere, and
  a lead marked synced is not loaded again (`lead_crm_sync.py:210` speaks of a
  retry on the next pass, which comes only if the lead itself is queued again).
* A waiting lead or pack is settled in the end, a refused lead notwithstanding, as
  long as refused leads do not fill the sweep's batch.
* No advisory lock is leaked whatever way a run ends, and jobs that starve each
  other of connections recover by the pool's timeout.
* A call of the agent writes at most as many notes and tasks as it had unanswered
  attempts, and one more; never into a deal that was outside the allowed pipelines
  when it was checked; and it is answered although its budget of tokens is used up.
  In no stretch of time does the client send more than a full bucket and the
  refill meanwhile, so less than twice the limit in an hour.
* The triage sweep overrules a rep only if the rep decided after the sweep had
  loaded the lead. A contacted lead among the oldest `TriageLimit` candidates is
  noticed. Candidates nobody contacts stay in that window for ever, so that behind
  `TriageLimit` of them a contacted lead is not reached.
* Bookings overlap only if each check ran before the other insert; a booking whose
  mail fails is not reported as an error.
* No participant reaches the CRM without an approval, and a sweep does not undo a
  review made after it loaded its batch.
* A document row names a stored object except between a request's delete and its
  commit, and when that request fails there. The status of the participants is
  what the documents say, unless uploads overlapped or one was cut off.
* The event history of a deal is gapless and ends in the stored stage unless the
  sync or a concurrent handler came in between; stored values are never erased; when the
  edits stop, the row catches up with Freshsales.
* Repeated and failing runs of a mirror leave each record once. Excepted are a run
  that another one overtakes between DELETE and commit (the manual syncs take no
  lock), a webhook during a timeline backfill, and a stage emptied after today's
  snapshot, whose row stays.
* An e-mail event is never counted twice. The stored score misses nothing that an
  event or a form has changed, unless sessions raced or were cut off; but it is the
  score of the day it was computed. A pack delivered since (3 points) and the decay
  of recency enter it only with the lead's next event or form, and the Hot Leads
  queue sorts by it until then.
* A superadmin remains unless two administrative requests overlap (both check the
  role they loaded) or the seed script demotes the last one. A temporary password
  must be changed at the next login, and someone was told it.
* The export transfer is whole for each registration unless a run was stopped in
  the middle of it; a later run skips what it finds, so a torn registration stays
  torn. It marks a primary as synced whatever the campaign's sync had reached.
* The reconnect mail is sent once, with the exceptions named in `ReconnectOnce`.
  Answers and marks in `responses` survive, unless some write came between a
  script's load and its own write. The ICP tier "Skip" is final even if the lead is
  enriched later: scoring skips every lead that has a tier.
* What two reports say of the same deals agrees, NULLs included. The overall
  response time is the mean over the deals unless a mail is older than its deal.
  The watermark covers the rows reported unless, while the request was open, a
  webhook or a sync committed over the row of a transaction that had begun later.

The four violated properties are what the code's own comments or docs say:

* `leads_stale`: a re-submit that commits while the same lead is being pushed ends
  up `synced` without having been pushed (`lead_service.py:80` says it must be).
* `bookings_double`: two requests pass `find_overlapping` before either inserts
  (`booking_service.py:1` says double-booking is prevented).
* `trade_retry`: a retry that overlaps the first attempt stores the second
  participant twice (`docs/export-launchpad-integration.md:156` says it is safe).
* `events_batch`: an event that a concurrent request has recorded breaks the
  session, and the rest of the batch is dropped (`email_event_ingest.py:85` says
  it is not).

**Bounds.** Every bound is a constant named in its module (`Max...`, `BatchLimit`,
`TriageLimit`). They let two sessions meet on one row with one failure or operation
in between, which is what the hazards need; more addresses would mostly multiply
independent copies. The pool of two connections is the smallest in which two jobs
starve each other; three leads are the fewest that do not fit a window of two; two
deals with six kinds of row reach every threshold and NULL the reports test.
`leads` uses symmetry of the two captures, `office` of the open requests (which are
only ever used as indices); runs with liveness use none, and no constraint either.
`CHECK_DEADLOCK FALSE` is set where the bounds let a behaviour end.

**Fairness.** Weak fairness on the steps of a request or job once it has started:
an event loop runs every ready task. Weak fairness on the start of sweeps: the
scheduler fires them at an interval. In `FreshsalesCalls` time passes and a call
goes on; a failing attempt is never forced to succeed, the number of attempts is
what bounds it. No fairness on submissions, staff, reviews, edits, failures or
restarts, and none that makes an outside call succeed: failures are bounded by
`MaxFaults`, so that a retry eventually gets through. In `EmailEvents` nothing
makes SendGrid post again. No liveness is stated of the scripts and of `office`:
operators start them.

## Proofs

The theorems hold for every value of the constants that meets the named ASSUMEs of
the modules: bounds are numbers, `None` is not a row, an address or a request, the
events of a lead, the stages and the deals of a snapshot and of a report are
finitely many, `None` is not a number, a webhook's batch is not empty. Eight modules
hold proofs: seven by the pipelines they are about, of which `BackOfficeProofs` and
`JobSchedulerProofs` extend the module of the run `office` and of the run `jobs`, and
`SumTheorems` with what the others need of sums and products.

| Module | Theorem | Rests on |
|---|---|---|
| `LeadLifecycleProofs` | `TypeCorrect`; `StatusTrue` (`StatusIsTrue`); `OnlyDeletesFail` (`FailsOnlyOnDelete`); `SyncedCurrent` (`SyncedIsCurrentUnlessRaced`) | `LeadInv`: every row is truthful (`RowOK`); a session's copy is truthful, is behind the row only in columns that grow, and is the row itself as long as nobody wrote under it (`Copy`); what a session has set and not flushed is the truth (`NewOK`); ids are never reused (`Fresh`). For the second participant `SecondInv`: neither a row nor what a session is about to record says synced unless that contact is there or a call has failed |
| | `PromiseKept` (the refinement of `LeadPromise`) | `LeadInv` and `Unmailed`: no mail was sent under a number that is not a row's yet; `MergeTrue`: a row whose columns come from a stored row and from a session's copy says no less than the stored one, and only the truth |
| `JobSchedulerProofs` | `TypeCorrect`; `LocksNotLeaked` (`LockHeldByRun`); `Exclusion` (`OverlapOnlyAfterLoss`); `Refinement` (`ImplementsLease`) | `RunIsCovered`: a run past `try_lock` holds the lock, or its connection was lost; `LostIsRunning`: only a running job loses it |
| | `TriageTypeCorrect`; `DecisionsStand` (`RepDecisionStands`) | `CheckedIsPending`: the job works on its batch; `DecidedIsLate`: a lead of the batch a rep has decided on was decided on after the load |
| | `WritesBounded` (`WritesAreBounded`); `AllowedOnly` (`OnlyAllowedPipelines`) | `CallOK`: what a call has written at each label, given its failed attempts; `Guarded`: past the guard the deal is in an allowed pipeline, or was moved |
| | `RateBounded` (`RateIsBounded`) | `RateInv`: what the last k ticks have sent, and what the bucket still holds, is at most a full bucket and k - 1 refills; sums over an interval that gains an element at one end or shifts by one (`SentOneMore`, `SentShifts`) |
| | `JobsAreTheirParts` | a step of the whole is a step or a stutter of every part |
| `RoomBookingsProofs` | `TypeCorrect`; `OverlapNeedsRace` (`OverlapOnlyByRace`); `HonestAnswers` (`AnswersAreHonest`); `StoredSlotsAreReal`; `UniqueCodes` | `Underway`: an open request has a slot; `CheckInv`: what a check has seen is stored, keeps its slot and does not overlap the request's own; `AnswerInv`: only a rolled-back request is past its first attempt |
| `TradeRegistrationProofs` | `TypeCorrect`; `SyncedApproved` (`SyncedWasApproved`); `SweepKeeps` (`SweepKeepsTheRest`); `OneSecondAtMost` (`OneSecondUnlessCrowded`) | `TradeInv`: the gate holds of the rows and of every copy in a batch (`Clean`, `Copy`), open requests have numbers of their own (`NumbersOK`); `Alone`: unless crowded, a request about to save its second participant is the only one, and has rightly found none |
| `DealPipelineProofs` | `TypeCorrect`; `NothingForgotten` (`NeverForgets`); `HistoryTold` (`HistoryUnlessDisturbed`) | `PipelineInv`; `StoryInv`: while no write went past another, what a request has read is the row, and the events lead from stage to stage up to it |
| `EmailEventsProofs` | `TypeCorrect`; `NeverOvercounted` (`NeverOvercounts`); `ExactUnlessRaced` (`RollupIsExactUnlessRaced`) | `EventInv`: no copy shows more than the recorded events (`Behind`), and events in the hands of two requests are apart (`Apart`); `ExactInv`: undisturbed, the row is exact for the events committed so far, every copy is the row but for its pack status (`IsCopy`), and what a session writes back keeps it exact (`StoredExact`) |
| `BackOfficeProofs` | `UserTypeCorrect`; `SuperadminKept` (`SuperadminRemains`); `TemporaryPasswordsTold` (`TemporaryPasswords`) | `RequestOK`: an open request has loaded the rows of its next step; `AdminInv`: unless requests overlapped, one administers at a time and its caller is still a superadmin; `TempInv` |
| | `DocTypeCorrect`; `RowsHaveObjects` (`RowHasObject`); `StatusRolledUp` (`StatusIsRollup`) | `UploadOK`; `NamesBegun`, `NewIsOwn`, `KeysAreApart`: storage names are never used twice; `NewIsStored`; `SameObjectSameRow`; `RollInv`: undisturbed, one upload at a time, and only between its document's commit and its last update are the participants behind |
| | `MirrorTypeCorrect`; `MirrorsExact` (`MirrorIsExact`) | `MirrorInv`: a DELETE that nobody has overtaken has found what the table holds (`RunIsAlone`), and an exact target holds the rows of one run (`TableOK`) |
| | `DayIsConsistent` (`DayAddsUp`) | `DayInv`: a counted stage without deals is known to be emptied, and but for those the rows of a day are the counts of one state of the deals (`OneState`); `SumOfGroups` |
| | `BooksAreBalanced` (`BooksBalance`) | each report is a sum over the groups of a set of deals, and the sets are the same or split it (`SumOfGroups`, `SumOfUnion`) |
| | `OverallIsTheMean` (`OverallIsMean`) | the means of the owners over their common denominator: every weight divides the product of all (`FactorDivides`) and is cancelled |
| | `WatermarkCovers` (`WatermarkCoversRows`) | `ReportInv`: a row carries the begin of the transaction that wrote it, open transactions began in the past, and what a request has read is still in some stamp unless one was set back meanwhile; `MaxExists` |
| | `OfficeIsItsParts`; `OfficeTypeCorrect` | `OfficeStep`: a step of the whole is a step or a stutter of every part |
| | `ScriptTypeCorrect`; `AnswersAreKept` (`AnswersSurvive`); `ReconnectedOnce` (`ReconnectOnce`) | `CopiesOfLeads`, `WorkIsLoaded`, `NoLeadNoAnswers`; `MailedIsStamped`: who was mailed is stamped or about to be, who is still on the list was not mailed |
| | `TransferTypeCorrect`; `TransferredWhole` (`TransferIsWhole`) | `TransferInv` with `WholeSoFar`: what a registration with rows still lacks is in the hands of the run, or was when a run stopped |

The argument has the same shape everywhere: a type invariant with the facts that a
step needs of an open request, then an invariant that says what a session in the
middle of its work may rely on, one step or lemma per action. The strengthenings
are needed because the properties speak of stored rows, while what could break them
is a step that writes from a copy: the invariant has to say what the copy still
guarantees. Each was checked with TLC on the instance of its run, or on a smaller
one, before it was proved. `OfficeIsItsParts` and `JobsAreTheirParts` carry what is
proved of a part over to the composed specifications that the runs `office` and
`jobs` explore. The type invariants are proved for every module named here, and no
run checks them besides.

`StoredSlotsAreReal`, `UniqueCodes` and `PromiseKept` are not in a run; TLC agreed
with `ImplementsPromise` on the instance of `leads` once without faults and once
without staff operations. `UniqueCodes` is what the unique index and the retry give
together. `MaxExists` (a bounded set of numbers that is not empty has a largest
element) is an induction over numbers; it is had from the library's `WFMin`, which
takes a relation and a set and not an operator.

Sums are folds, and the definition of a fold recurses over sets: no theorem of the
library that the provers can use says what it computes. `SumTheorems` gets around
that: a counterexample to a claim about finite sets has a smallest finite set among
the counterexamples (`SmallestSet`, from `WFMin` along cardinality), and removing
one element of it refutes it. In that way a sum of natural numbers is shown to be
the size of a set of units (`SumIsCount`), and the laws of sums follow from those of
cardinality; products are shown to exist and to be unique in the same way.

Only model-checked:

* All liveness (`EventuallySynced`, `EventuallyDelivered`, `EveryRunEnds`,
  `AgentAnswers`, `ContactedIsNoticed`, `EveryRequestEnds`, `EventuallySettled`,
  `CatchesUp`, `EventuallyRecorded`): fairness and ENABLED are beyond the prover.
* The four violated properties.

## Not modelled

* Web analytics (GA4): requests passed through and answers passed back.
* Renewals, trends and data-quality reports; the `as_of` filter (accepted by the
  endpoints, used by no query).
* The layout of mails and of the CSV export: texts, no state.
* Signatures of webhooks and tokens, and password hashing: taken to work.
* A 2xx answer of Freshsales without a contact id: `MarkSynced` in `LeadLifecycle`
  and `Push` in `TradeRegistration` record the contact, where the code would store
  no id (`lead_crm_sync.py:189`, `trade_crm_sync.py:122`).
* `Search` of `FreshsalesCalls` is one attempt: the `get_deal` for each deal found
  (`agent_logging.py:83`), and notes and tasks left empty (118, 121), are not told
  apart.
* `scripts/backfill_engagement_scores.py`: recomputes every stored score in one
  commit.
* The ICP weights and the prompt: `ScoreLead` returns any tier or fails. Nor the
  values of timestamps and copied columns that nothing compares.
* `--fix-phones` and `--backdate` of the import, owner assignment, seeds,
  migrations: single passes, run once by hand. (`--fix-phones` after `--backdate`
  finds nothing: it tells its leads by `created_at`, which `--backdate` moves.)
* Agent prospecting: builds texts. Its writes to the CRM go through the client
  that `FreshsalesCalls` models.

## Plan

1. The trends and renewals reports.
2. A promise of the same kind for trade registration, implemented by
   `TradeRegistration` with `TradeInv`.
