-------------------------- MODULE FreshsalesCalls --------------------------
(***************************************************************************)
(* The Freshsales client under its heaviest user of writes, the logging    *)
(* agent: a webhook call resolves a deal, checks its pipeline against the  *)
(* allow-list and creates a note and a task.  Every HTTP attempt takes a   *)
(* token from the client's bucket; attempts that fail in a retryable way   *)
(* are repeated, four in all.  One webhook call is open at a time: calls   *)
(* share nothing but the CRM, whose users move deals while a call runs.    *)
(*                                                                         *)
(* Time passes in ticks, the time in which one token is refilled, so an    *)
(* hour has Capacity ticks.                                                *)
(***************************************************************************)
EXTENDS Naturals, Functions, UnitOfWork

CONSTANTS
    Deals, Pipelines,
    AllowedPipelines,   \* settings.agent_allowed_pipelines
    Capacity,           \* settings.freshsales_rate_limit_per_hour
    MaxMoves            \* bound: moves of a deal to another pipeline

ASSUME CallAssumptions ==
    /\ AllowedPipelines \subseteq Pipelines
    /\ None \notin Deals \cup Pipelines
    /\ Capacity \in Nat \ {0}
    /\ MaxMoves \in Nat

Attempts == 4               \* stop_after_attempt(4)
Ticks == 1 .. Capacity      \* one hour, the running tick first
Intents == {"note", "task", "note+task"}

\* The webhook call: what it does now, its intent and deal, the
\* failed attempts of the present HTTP call, the notes and tasks it has
\* created, and the attempts that were done and not answered.
AgentCall == [pc: {"idle", "search", "fetch", "note", "task", "answer"},
              intent: Intents \cup {None}, deal: Deals \cup {None},
              tries: 0 .. Attempts - 1, notes: 0 .. Attempts, tasks: 0 .. Attempts,
              unanswered: 0 .. 2 * Attempts]

NoCall == [pc |-> "idle", intent |-> None, deal |-> None, tries |-> 0,
           notes |-> 0, tasks |-> 0, unanswered |-> 0]

VARIABLES
    pipeline,   \* Freshsales: the pipeline of each deal
    call,       \* the webhook call and its client
    tokens,     \* RateLimiter._tokens of that client
    hour,       \* history: the requests it sent in each tick of the last hour
    moves,
    moved       \* history: the deal was moved after the call fetched it

callVars == <<pipeline, call, tokens, hour, moves, moved>>

CallTypeOK ==
    /\ pipeline \in [Deals -> Pipelines]
    /\ call \in AgentCall
    /\ tokens \in 0 .. Capacity
    /\ hour \in [Ticks -> Nat]
    /\ moves \in 0 .. MaxMoves
    /\ moved \in BOOLEAN

CallInit ==
    /\ pipeline \in [Deals -> Pipelines]
    /\ call = NoCall
    /\ tokens = Capacity /\ hour = [t \in Ticks |-> 0]
    /\ moves = 0 /\ moved = FALSE

-----------------------------------------------------------------------------
(* RateLimiter and the retry decorator                                      *)

\* Mutant: the bucket is refilled without a ceiling.
RefillNoCeiling == tokens' = tokens + 1

\* Mutant: max_per_hour // 3600 is 0 for a limit below one per second.
RefillRoundsToZero == tokens' = tokens

\* The refill of one tick.
Refill == tokens' = IF tokens < Capacity THEN tokens + 1 ELSE Capacity

\* acquire() recomputes the bucket from the time that has passed; a caller
\* that finds it empty sleeps until a token is there.
Tick ==
    /\ call.pc # "idle"
    /\ Refill
    /\ hour' = [t \in Ticks |-> IF t = 1 THEN 0 ELSE hour[t - 1]]
    /\ UNCHANGED <<pipeline, call, moves, moved>>

Acquire ==
    /\ tokens >= 1
    /\ tokens' = tokens - 1
    /\ hour' = [hour EXCEPT ![1] = @ + 1]

\* Mutant: what is repeated is the webhook's whole work, its note included.
AfterFailureWholeCall(c) ==
    IF c.tries + 1 < Attempts
    THEN [c EXCEPT !.tries = @ + 1,
                   !.pc = IF @ = "task" /\ c.intent # "task" THEN "note" ELSE @]
    ELSE [c EXCEPT !.pc = "answer"]

\* A transport error, a 5xx or a short 429 is repeated until the attempts are
\* used up; then the error is raised again and the webhook answers 500.
AfterFailure(c) ==
    IF c.tries + 1 < Attempts THEN [c EXCEPT !.tries = @ + 1]
    ELSE [c EXCEPT !.pc = "answer"]

-----------------------------------------------------------------------------
(* POST /webhooks/agent/log                                                 *)

\* A call that names its deal, or a hint: the ids of the allowed pipelines
\* are searched for it.  Each call opens a client of its own: a full bucket.
AgentLog(intent, d, byHint) ==
    /\ call.pc = "idle"
    /\ call' = [NoCall EXCEPT !.pc = IF byHint THEN "search" ELSE "fetch",
                              !.intent = intent, !.deal = IF byHint THEN None ELSE d]
    /\ tokens' = Capacity /\ hour' = [t \in Ticks |-> 0]
    /\ moved' = FALSE
    /\ UNCHANGED <<pipeline, moves>>

Requesting == call.pc \in {"search", "fetch", "note", "task"}

\* An attempt that left nothing behind and may be repeated.
AttemptFails ==
    /\ Requesting
    /\ Acquire
    /\ call' = AfterFailure(call)
    /\ UNCHANGED <<pipeline, moves, moved>>

\* A 4xx, or a 429 whose Retry-After is over 30 seconds: not repeated.
AttemptRefused ==
    /\ Requesting
    /\ Acquire
    /\ call' = [call EXCEPT !.pc = "answer"]
    /\ UNCHANGED <<pipeline, moves, moved>>

\* filtered_search per allowed pipeline, until a deal matches; none: 404.
Search ==
    /\ call.pc = "search"
    /\ Acquire
    /\ \/ \E d \in Deals :
            /\ pipeline[d] \in AllowedPipelines
            /\ call' = [call EXCEPT !.pc = "fetch", !.deal = d, !.tries = 0]
       \/ call' = [call EXCEPT !.pc = "answer"]
    /\ UNCHANGED <<pipeline, moves, moved>>

FirstWrite(intent) == IF intent = "task" THEN "task" ELSE "note"

\* Mutant: the guard is dropped, as the search has looked at the pipelines.
AllowedTrustsSearch(d) == TRUE

\* The allow-list, applied to the record that get_deal returned.
Allowed(d) == pipeline[d] \in AllowedPipelines

\* get_deal, then the guard on its pipeline: 403 for any other.
Fetch ==
    /\ call.pc = "fetch"
    /\ Acquire
    /\ call' = IF Allowed(call.deal)
               THEN [call EXCEPT !.pc = FirstWrite(call.intent), !.tries = 0]
               ELSE [call EXCEPT !.pc = "answer"]
    /\ moved' = FALSE
    /\ UNCHANGED <<pipeline, moves>>

\* create_note: done and answered, or done and not answered in time.
CreateNote ==
    LET done == [call EXCEPT !.notes = @ + 1]
    IN  /\ call.pc = "note"
        /\ Acquire
        /\ \/ call' = IF call.intent = "note+task"
                      THEN [done EXCEPT !.pc = "task", !.tries = 0]
                      ELSE [done EXCEPT !.pc = "answer"]
           \/ call' = AfterFailure([done EXCEPT !.unanswered = @ + 1])
        /\ UNCHANGED <<pipeline, moves, moved>>

CreateTask ==
    LET done == [call EXCEPT !.tasks = @ + 1]
    IN  /\ call.pc = "task"
        /\ Acquire
        /\ \/ call' = [done EXCEPT !.pc = "answer"]
           \/ call' = AfterFailure([done EXCEPT !.unanswered = @ + 1])
        /\ UNCHANGED <<pipeline, moves, moved>>

\* The outcome is answered and the client closed.
Answer ==
    /\ call.pc = "answer"
    /\ call' = NoCall
    /\ UNCHANGED <<pipeline, tokens, hour, moves, moved>>

\* A user of the CRM moves a deal.
MoveDeal(d, p) ==
    /\ moves < MaxMoves /\ moves' = moves + 1
    /\ pipeline' = [pipeline EXCEPT ![d] = p]
    /\ moved' = (moved \/ d = call.deal)
    /\ UNCHANGED <<call, tokens, hour>>

CallStep == AttemptFails \/ AttemptRefused \/ Search \/ Fetch
            \/ CreateNote \/ CreateTask \/ Answer

CallNext ==
    \/ \E intent \in Intents, d \in Deals, byHint \in BOOLEAN : AgentLog(intent, d, byHint)
    \/ CallStep
    \/ Tick
    \/ \E d \in Deals, p \in Pipelines : MoveDeal(d, p)

\* Time passes, and an attempt that has its token is made and ends.
CallFairness == WF_callVars(CallStep) /\ WF_callVars(Tick)

CallSpec == CallInit /\ [][CallNext]_callVars /\ CallFairness

-----------------------------------------------------------------------------
(* Properties                                                               *)

\* What one call does to the CRM is bounded: its note and its task are written
\* at most once each, but for attempts that were done and not answered, which
\* are repeated blindly.
WritesAreBounded ==
    /\ call.notes <= 1 + call.unanswered
    /\ call.tasks <= 1 + call.unanswered
    /\ call.notes + call.tasks <= 2 + call.unanswered

\* In no stretch of k ticks does a client send more than a full bucket and the
\* refill between those ticks, so less than twice the limit in an hour,
\* whatever the CRM answers.
RateIsBounded ==
    \A k \in Ticks : SumFunctionOnSet(hour, 1 .. k) <= Capacity + k - 1

\* "a misrouted message can never touch a real deal": every write hits a deal
\* of an allowed pipeline, unless a user moved it after the guard read it.
OnlyAllowedPipelines ==
    [][ call'.notes > call.notes \/ call'.tasks > call.tasks
            => pipeline[call.deal] \in AllowedPipelines \/ moved ]_callVars

\* Every webhook call ends, even when the CRM never answers: the attempts are
\* limited and the bucket is refilled.
AgentAnswers == (call.pc # "idle") ~> (call.pc = "idle")
=============================================================================
