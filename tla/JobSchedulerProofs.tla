------------------------- MODULE JobSchedulerProofs -------------------------
(***************************************************************************)
(* The scheduler, the Hot Leads sweep it runs and the Freshsales client,   *)
(* for any number of instances, jobs, leads and deals and any pool: the    *)
(* advisory lock is never leaked, two runs overlap only after a loss, the  *)
(* scheduler implements the lease protocol of JobLease, the sweep never    *)
(* undoes a rep's decision, the logging agent writes to no deal of a       *)
(* pipeline that is not allowed, and the client never outruns its limit.   *)
(***************************************************************************)
EXTENDS MCJobScheduler, SumTheorems

\* Every variable keeps its type.
THEOREM TypeCorrect == Spec => []TypeOK
<1>1. Init => TypeOK
  BY SchedulerAssumptions DEF Init, TypeOK, Phase
<1>2. ASSUME TypeOK, [Next]_vars PROVE TypeOK'
  <2> USE <1>2 DEF TypeOK
  <2>1. ASSUME NEW i \in Instances, Boot(i) PROVE TypeOK'
    BY <2>1 DEF Boot
  <2>2. ASSUME NEW i \in Instances, StartupSync(i) PROVE TypeOK'
    BY <2>2 DEF StartupSync
  <2>3. ASSUME NEW i \in Instances, Stop(i) PROVE TypeOK'
    BY <2>3 DEF Stop, Phase
  <2>4. ASSUME NEW i \in Instances, NEW j \in Jobs, Fire(i, j) PROVE TypeOK'
    BY <2>4 DEF Fire, Goto, Phase
  <2>5. ASSUME NEW i \in Instances, NEW j \in Jobs, RunStep(i, j) PROVE TypeOK'
    <3>1. CASE TryLock(i, j)
      BY <3>1 DEF TryLock, Goto, Phase
    <3>2. CASE StartWork(i, j)
      BY <3>2 DEF StartWork, Goto, Phase
    <3>3. CASE PoolTimeout(i, j)
      BY <3>3 DEF PoolTimeout, Goto, Phase
    <3>4. CASE Commit(i, j)
      BY <3>4 DEF Commit, Goto, Phase
    <3>5. CASE EndWork(i, j)
      BY <3>5 DEF EndWork, Goto, Phase
    <3>6. CASE Unlock(i, j)
      BY <3>6 DEF Unlock, Goto, Phase
    <3> QED
      BY <2>5, <3>1, <3>2, <3>3, <3>4, <3>5, <3>6 DEF RunStep
  <2>6. ASSUME NEW i \in Instances, NEW j \in Jobs, LoseConnection(i, j)
        PROVE  TypeOK'
    BY <2>6 DEF LoseConnection
  <2>7. ASSUME NEW i \in Instances, NEW j \in Jobs, Trigger(i, j) PROVE TypeOK'
    BY <2>7 DEF Trigger
  <2>8. ASSUME NEW i \in Instances, NEW j \in Jobs, TriggerEnd(i, j) PROVE TypeOK'
    BY <2>8 DEF TriggerEnd
  <2>9. CASE UNCHANGED vars
    BY <2>9 DEF vars
  <2> QED
    BY <2>1, <2>2, <2>3, <2>4, <2>5, <2>6, <2>7, <2>8, <2>9 DEF Next
<1> QED
  BY <1>1, <1>2, PTL DEF Spec

-----------------------------------------------------------------------------
\* A run past its try_lock holds the lock, or lost its connection under way.
RunIsCovered ==
    \A i \in Instances, j \in Jobs :
        pc[i][j] \in Locked => owner[j] = i \/ <<i, j>> \in lost

\* Only a run that is under way can have lost its connection.
LostIsRunning ==
    \A i \in Instances, j \in Jobs : <<i, j>> \in lost => pc[i][j] \in Locked

\* The inductive invariant: lock, runs and losses determine one another.
LockInv == TypeOK /\ LockHeldByRun /\ RunIsCovered /\ LostIsRunning

LEMMA LockInvInit == Init => LockInv
  BY SchedulerAssumptions
  DEF Init, LockInv, TypeOK, LockHeldByRun, RunIsCovered, LostIsRunning, Locked, Phase

LEMMA LockInvNext == LockInv /\ TypeOK' /\ [Next]_vars => LockInv'
<1> SUFFICES ASSUME LockInv, TypeOK', [Next]_vars PROVE LockInv'
  OBVIOUS
<1> DEFINE I == LockHeldByRun /\ RunIsCovered /\ LostIsRunning
<1> USE SchedulerAssumptions
    DEF LockInv, TypeOK, LockHeldByRun, RunIsCovered, LostIsRunning, Locked
<1>1. ASSUME NEW i \in Instances, Boot(i) \/ StartupSync(i) PROVE I'
  BY <1>1 DEF Boot, StartupSync
<1>2. ASSUME NEW i \in Instances, Stop(i) PROVE I'
  BY <1>2 DEF Stop
<1>3. ASSUME NEW i \in Instances, NEW j \in Jobs, Fire(i, j) PROVE I'
  BY <1>3 DEF Fire, Goto
<1>4. ASSUME NEW i \in Instances, NEW j \in Jobs, TryLock(i, j) PROVE I'
  <2>1. CASE owner[j] = None
    <3>1. /\ pc' = [pc EXCEPT ![i][j] = "wait"]
          /\ owner' = [owner EXCEPT ![j] = i]
          /\ lost' = lost
          /\ pc[i][j] = "checkout"
      BY <1>4, <2>1 DEF TryLock, Goto
    <3>2. \A k \in Instances, l \in Jobs : <<k, l>> # <<i, j>> =>
            pc'[k][l] = pc[k][l]
      BY <3>1
    <3>3. \A k \in Instances : k # i /\ pc[k][j] \in Locked => <<k, j>> \in lost
      BY <2>1
    <3> QED
      BY <3>1, <3>2, <3>3
  <2>2. CASE owner[j] # None
    <3>1. /\ pc' = [pc EXCEPT ![i][j] = "idle"]
          /\ UNCHANGED <<owner, lost>>
          /\ pc[i][j] = "checkout"
      BY <1>4, <2>2 DEF TryLock, Goto
    <3> QED
      BY <3>1
  <2> QED
    BY <2>1, <2>2
<1>5. ASSUME NEW i \in Instances, NEW j \in Jobs,
             StartWork(i, j) \/ PoolTimeout(i, j) \/ Commit(i, j) \/ EndWork(i, j)
      PROVE  I'
  <2>1. /\ UNCHANGED <<owner, lost>>
        /\ \E l \in Phase : /\ pc' = [pc EXCEPT ![i][j] = l]
                            /\ pc[i][j] \in Locked <=> l \in Locked
    BY <1>5 DEF StartWork, PoolTimeout, Commit, EndWork, Goto, Phase
  <2> QED
    BY <2>1
<1>6. ASSUME NEW i \in Instances, NEW j \in Jobs, Unlock(i, j) PROVE I'
  BY <1>6 DEF Unlock, Goto
<1>7. ASSUME NEW i \in Instances, NEW j \in Jobs, LoseConnection(i, j) PROVE I'
  BY <1>7 DEF LoseConnection
<1>8. ASSUME NEW i \in Instances, NEW j \in Jobs, Trigger(i, j) \/ TriggerEnd(i, j)
      PROVE  I'
  BY <1>8 DEF Trigger, TriggerEnd
<1>9. CASE UNCHANGED vars
  BY <1>9 DEF vars
<1> QED
  BY <1>1, <1>2, <1>3, <1>4, <1>5, <1>6, <1>7, <1>8, <1>9 DEF Next, RunStep

LEMMA LockInvariant == Spec => []LockInv
<1>1. Spec => []TypeOK
  BY TypeCorrect
<1> QED
  BY <1>1, LockInvInit, LockInvNext, PTL DEF Spec

\* No lock outlives its run, however the run ends (run_with_advisory_lock's
\* finally clause, a crash, a connection lost), for any deployment.
THEOREM LocksNotLeaked == Spec => []LockHeldByRun
<1>1. LockInv => LockHeldByRun
  BY DEF LockInv
<1> QED
  BY <1>1, LockInvariant, PTL

\* The same job runs on two instances only after one lost its lock connection.
THEOREM Exclusion == Spec => []OverlapOnlyAfterLoss
<1>1. LockInv => OverlapOnlyAfterLoss
  BY DEF LockInv, RunIsCovered, OverlapOnlyAfterLoss, Locked
<1> QED
  BY <1>1, LockInvariant, PTL

-----------------------------------------------------------------------------
LEMMA LeaseInit == Init => Lease!Init
  BY DEF Init, Lease!Init, StaleRuns

LEMMA LeaseNext == LockInv /\ [Next]_vars => [Lease!Next]_(Lease!lease)
<1> SUFFICES ASSUME LockInv, [Next]_vars PROVE Lease!Next \/ UNCHANGED Lease!lease
  OBVIOUS
<1> USE SchedulerAssumptions DEF LockInv, TypeOK, Locked
<1> USE DEF StaleRuns, Lease!Rest, Lease!Acquire, Lease!Release, Lease!Expire,
            Lease!Quit
<1>1. ASSUME NEW i \in Instances, Boot(i) \/ StartupSync(i) PROVE UNCHANGED <<owner, lost>>
  BY <1>1 DEF Boot, StartupSync
<1>2. ASSUME NEW i \in Instances, Stop(i) PROVE Lease!Next
  <2> SUFFICES ASSUME NEW j \in Jobs
               PROVE  \/ Lease!Rest(j)
                      \/ Lease!Release(i, j)
                      \/ Lease!Quit(i, j)
    BY DEF Lease!Next
  <2>1. CASE owner[j] = i
    BY <1>2, <2>1 DEF Stop, LockHeldByRun
  <2>2. CASE <<i, j>> \in lost
    BY <1>2, <2>2 DEF Stop, LockHeldByRun
  <2>3. CASE owner[j] # i /\ <<i, j>> \notin lost
    BY <1>2, <2>3 DEF Stop
  <2> QED
    BY <2>1, <2>2, <2>3
<1>3. ASSUME NEW i \in Instances, NEW j \in Jobs, Fire(i, j) PROVE UNCHANGED <<owner, lost>>
  BY <1>3 DEF Fire
<1>4. ASSUME NEW i \in Instances, NEW j \in Jobs, TryLock(i, j) PROVE Lease!Next
  <2>1. <<i, j>> \notin lost
    BY <1>4 DEF TryLock, LostIsRunning
  <2> QED
    BY <1>4, <2>1 DEF TryLock, Lease!Next
<1>5. ASSUME NEW i \in Instances, NEW j \in Jobs,
             StartWork(i, j) \/ PoolTimeout(i, j) \/ Commit(i, j) \/ EndWork(i, j)
      PROVE  UNCHANGED <<owner, lost>>
  BY <1>5 DEF StartWork, PoolTimeout, Commit, EndWork
<1>6. ASSUME NEW i \in Instances, NEW j \in Jobs, Unlock(i, j) PROVE Lease!Next
  <2>1. CASE <<i, j>> \in lost
    BY <1>6, <2>1 DEF Unlock, Lease!Next
  <2>2. CASE <<i, j>> \notin lost
    <3>1. owner[j] = i
      BY <1>6, <2>2 DEF Unlock, RunIsCovered
    <3> QED
      BY <1>6, <2>2, <3>1 DEF Unlock, Lease!Next
  <2> QED
    BY <2>1, <2>2
<1>7. ASSUME NEW i \in Instances, NEW j \in Jobs, LoseConnection(i, j) PROVE Lease!Next
  BY <1>7 DEF LoseConnection, Lease!Next
<1>8. ASSUME NEW i \in Instances, NEW j \in Jobs, Trigger(i, j) \/ TriggerEnd(i, j)
      PROVE  UNCHANGED <<owner, lost>>
  BY <1>8 DEF Trigger, TriggerEnd
<1>9. UNCHANGED <<owner, lost>> => UNCHANGED Lease!lease
  BY DEF Lease!lease
<1>10. CASE UNCHANGED vars
  BY <1>9, <1>10 DEF vars
<1> QED
  BY <1>1, <1>2, <1>3, <1>4, <1>5, <1>6, <1>7, <1>8, <1>9, <1>10 DEF Next, RunStep

\* The scheduler implements the lease protocol: every step of an instance is,
\* for every job, a lease step or none.
THEOREM Refinement == Spec => ImplementsLease
  BY LockInvariant, LeaseInit, LeaseNext, PTL DEF Spec, ImplementsLease, Lease!Spec

-----------------------------------------------------------------------------
(* The Hot Leads queue: any number of leads and reps, any limit of the sweep *)
(* and any number of transport errors.                                       *)

\* leads_repo.set_triage leaves a well-typed row, in the name of the writer or
\* of whoever was there before.
LEMMA SetTriageTyped ==
    ASSUME NEW stored \in Triage, NEW copy \in Triage, NEW status \in Statuses,
           NEW by \in Reps \cup {SystemTriageBy, None}
    PROVE  LET f == SetTriage(stored, copy, status, by)
           IN  f \in Triage /\ f.by \in {by, stored.by}
<1> DEFINE set == [status |-> status, by |-> by]
<1>1. set \in Triage /\ set.by = by
  BY DEF Triage
<1> HIDE DEF set
<1>2. Flushed(stored, copy, set) \in Triage /\ Flushed(stored, copy, set).by \in {by, stored.by}
  BY <1>1 DEF Flushed, Triage
<1> QED BY <1>2 DEF SetTriage, set

\* The sweep works on leads of its batch.
CheckedIsPending == checked # None => checked \in Pending

TriageTyped == TriageTypeOK /\ CheckedIsPending

LEMMA TriageInitTyped == TriageInit => TriageTyped
BY TriageAssumptions, NoTriageAssumption
   DEF TriageInit, TriageTyped, TriageTypeOK, CheckedIsPending, NewTriage, NoBatch, Triage, Statuses

\* Every step keeps the types, with one step per action.
LEMMA TriageStepTyped == TriageTyped /\ [TriageNext]_triageVars => TriageTyped'
<1> SUFFICES ASSUME TriageTyped, [TriageNext]_triageVars PROVE TriageTyped'
  OBVIOUS
<1> USE TriageAssumptions, NoTriageAssumption DEF TriageTyped, TriageTypeOK, CheckedIsPending, Pending
<1>1. ASSUME NEW l \in TriageLeads, LeadPushed(l) PROVE TriageTyped'
  BY <1>1 DEF LeadPushed
<1>2. ASSUME NEW l \in TriageLeads, ContactedInCrm(l) PROVE TriageTyped'
  BY <1>2 DEF ContactedInCrm
<1>3. ASSUME NEW l \in TriageLeads, ContactDeletedInCrm(l) PROVE TriageTyped'
  BY <1>3 DEF ContactDeletedInCrm
<1>4. ASSUME NEW l \in TriageLeads, LeadDeleted(l) PROVE TriageTyped'
  BY <1>4 DEF LeadDeleted
<1>5. ASSUME NEW l \in TriageLeads, NEW r \in Reps, NEW status \in Statuses,
             PatchLoads(r, l, status)
      PROVE  TriageTyped'
  <2>1. [lead |-> l, copy |-> triage[l], status |-> status] \in Patch
    BY <1>5 DEF PatchLoads, Patch
  <2> QED BY <1>5, <2>1 DEF PatchLoads
<1>6. ASSUME NEW r \in Reps, PatchCommits(r) PROVE TriageTyped'
  <2>1. PICK p \in Patch : p = patch[r]
    BY <1>6 DEF PatchCommits
  <2>2. p.lead \in TriageLeads /\ p.copy \in Triage /\ p.status \in Statuses
    BY DEF Patch
  <2>3. patch' \in [Reps -> Patch \cup {None}]
    BY <1>6 DEF PatchCommits
  <2>4. triage' \in [TriageLeads -> Triage \cup {None}] /\ late' \subseteq TriageLeads
    <3>1. CASE triage[p.lead] # None
      <4>1. triage[p.lead] \in Triage
        BY <2>2, <3>1
      <4>2. SetTriage(triage[p.lead], p.copy, p.status, r) \in Triage
        BY <2>2, <4>1, SetTriageTyped
      <4>3. /\ triage' = [triage EXCEPT ![p.lead] = SetTriage(triage[p.lead], p.copy, p.status, r)]
            /\ late' \in {late, late \cup {p.lead}}
        BY <1>6, <2>1, <3>1 DEF PatchCommits
      <4> QED BY <2>2, <4>2, <4>3
    <3>2. CASE triage[p.lead] = None
      BY <1>6, <2>1, <3>2 DEF PatchCommits
    <3> QED BY <3>1, <3>2
  <2> QED BY <1>6, <2>3, <2>4 DEF PatchCommits
<1>7. ASSUME SweepLoads PROVE TriageTyped'
  BY <1>7 DEF SweepLoads
<1>8. ASSUME FetchContact PROVE TriageTyped'
  BY <1>8 DEF FetchContact, FetchFails
<1>9. ASSUME Advance PROVE TriageTyped'
  <2>1. checked \in TriageLeads /\ batch[checked] \in Triage
    BY <1>9 DEF Advance
  <2>2. CASE triage[checked] # None
    <3>1. triage[checked] \in Triage
      BY <2>1, <2>2
    <3>2. SetTriage(triage[checked], batch[checked], "contacted", SystemTriageBy) \in Triage
      BY <2>1, <3>1, SetTriageTyped DEF Statuses
    <3>3. /\ triage' = [triage EXCEPT ![checked] =
                    SetTriage(triage[checked], batch[checked], "contacted", SystemTriageBy)]
          /\ batch' = [batch EXCEPT ![checked] = None]
          /\ checked' = None
      BY <1>9, <2>2 DEF Advance
    <3> QED BY <1>9, <2>1, <3>2, <3>3 DEF Advance
  <2>3. CASE triage[checked] = None
    BY <1>9, <2>3 DEF Advance, SweepEnds, NoBatch
  <2> QED BY <2>2, <2>3
<1>10. ASSUME TransportError PROVE TriageTyped'
  BY <1>10 DEF TransportError, SweepEnds, NoBatch
<1>11. CASE UNCHANGED triageVars
  BY <1>11 DEF triageVars
<1> QED
  BY <1>1, <1>2, <1>3, <1>4, <1>5, <1>6, <1>7, <1>8, <1>9, <1>10, <1>11 DEF TriageNext, Sweep

\* The triage columns, the sweep's batch and the open PATCH requests keep their
\* types.
THEOREM TriageTypeCorrect == TriageSpec => []TriageTypeOK
<1>1. TriageInit => TriageTyped
  BY TriageInitTyped
<1>2. TriageTyped /\ [TriageNext]_triageVars => TriageTyped'
  BY TriageStepTyped
<1>3. TriageTyped => TriageTypeOK
  BY DEF TriageTyped
<1> QED BY <1>1, <1>2, <1>3, PTL DEF TriageSpec

-----------------------------------------------------------------------------
(* Decisions of reps                                                        *)

Decided(l) == triage[l] # None /\ triage[l].by \in Reps /\ triage[l].status # "new"

\* Leads are "new" when the sweep loads them: a lead of the batch that a rep has
\* decided on was decided on since.
DecidedIsLate == \A l \in Pending : Decided(l) => l \in late

LEMMA DecidedInit == TriageInit => DecidedIsLate
BY DEF TriageInit, DecidedIsLate, Pending, NoBatch

LEMMA DecidedStep ==
    TriageTyped /\ DecidedIsLate /\ [TriageNext]_triageVars => DecidedIsLate'
<1> SUFFICES ASSUME TriageTyped, DecidedIsLate, [TriageNext]_triageVars
             PROVE  DecidedIsLate'
  OBVIOUS
<1> USE TriageAssumptions, NoTriageAssumption
    DEF TriageTyped, TriageTypeOK, CheckedIsPending, Pending, DecidedIsLate, Decided
<1>1. ASSUME UNCHANGED <<triage, batch, late>> PROVE DecidedIsLate'
  BY <1>1
<1>2. ASSUME NEW l \in TriageLeads, LeadDeleted(l) PROVE DecidedIsLate'
  BY <1>2 DEF LeadDeleted
<1>3. ASSUME NEW r \in Reps, PatchCommits(r) PROVE DecidedIsLate'
  <2>1. PICK p \in Patch : p = patch[r]
    BY <1>3 DEF PatchCommits
  <2>2. p.lead \in TriageLeads
    BY DEF Patch
  <2>3. CASE triage[p.lead] # None
    <3>1. /\ \A l \in TriageLeads \ {p.lead} : triage'[l] = triage[l]
          /\ late' = IF p.lead \in Pending \cup {checked} THEN late \cup {p.lead} ELSE late
          /\ batch' = batch
      BY <1>3, <2>1, <2>2, <2>3 DEF PatchCommits
    <3> QED BY <2>2, <3>1
  <2>4. CASE triage[p.lead] = None
    BY <1>3, <2>1, <2>4 DEF PatchCommits
  <2> QED BY <2>3, <2>4
<1>4. ASSUME SweepLoads PROVE DecidedIsLate'
  BY <1>4 DEF SweepLoads, ListUntriaged, Oldest
<1>5. ASSUME FetchContact PROVE DecidedIsLate'
  BY <1>5 DEF FetchContact, FetchFails
<1>6. ASSUME Advance PROVE DecidedIsLate'
  <2>1. checked \in TriageLeads
    BY <1>6 DEF Advance
  <2>2. CASE triage[checked] # None
    <3>1. /\ \A l \in TriageLeads \ {checked} : triage'[l] = triage[l] /\ batch'[l] = batch[l]
          /\ batch'[checked] = None
          /\ late' = late
      BY <1>6, <2>1, <2>2 DEF Advance
    <3> QED BY <2>1, <3>1
  <2>3. CASE triage[checked] = None
    BY <1>6, <2>3 DEF Advance, SweepEnds, NoBatch
  <2> QED BY <2>2, <2>3
<1>7. ASSUME TransportError PROVE DecidedIsLate'
  BY <1>7 DEF TransportError, SweepEnds, NoBatch
<1>8. CASE UNCHANGED triageVars
  BY <1>1, <1>8 DEF triageVars
<1> QED
  BY <1>1, <1>2, <1>3, <1>4, <1>5, <1>6, <1>7, <1>8
     DEF TriageNext, Sweep, LeadPushed, ContactedInCrm, ContactDeletedInCrm, PatchLoads

\* What RepDecisionStands says of one step.
StepKeepsDecisions ==
    \A l \in TriageLeads :
        triage[l] # None /\ triage'[l] # None
        /\ triage[l].by \in Reps /\ triage[l].status # "new"
        /\ triage'[l].by = SystemTriageBy
            => l \in late

LEMMA DecisionsStep ==
    TriageTyped /\ DecidedIsLate /\ [TriageNext]_triageVars => StepKeepsDecisions
<1> SUFFICES ASSUME TriageTyped, DecidedIsLate, [TriageNext]_triageVars
             PROVE  StepKeepsDecisions
  OBVIOUS
<1> USE TriageAssumptions, NoTriageAssumption
    DEF TriageTyped, TriageTypeOK, CheckedIsPending, Pending, DecidedIsLate, Decided,
        StepKeepsDecisions
<1>1. ASSUME triage' = triage PROVE StepKeepsDecisions
  BY <1>1
<1>2. ASSUME NEW l \in TriageLeads, LeadDeleted(l) PROVE StepKeepsDecisions
  BY <1>2 DEF LeadDeleted
<1>3. ASSUME NEW r \in Reps, PatchCommits(r) PROVE StepKeepsDecisions
  <2>1. PICK p \in Patch : p = patch[r]
    BY <1>3 DEF PatchCommits
  <2>2. p.lead \in TriageLeads /\ p.copy \in Triage /\ p.status \in Statuses
    BY DEF Patch
  <2>3. CASE triage[p.lead] # None
    <3>1. triage[p.lead] \in Triage
      BY <2>2, <2>3
    <3>2. /\ \A l \in TriageLeads \ {p.lead} : triage'[l] = triage[l]
          /\ triage'[p.lead] = SetTriage(triage[p.lead], p.copy, p.status, r)
      BY <1>3, <2>1, <2>2, <2>3 DEF PatchCommits
    <3>3. triage'[p.lead].by \in {r, triage[p.lead].by}
      <4>1. r \in Reps \cup {SystemTriageBy, None}
        OBVIOUS
      <4>2. SetTriage(triage[p.lead], p.copy, p.status, r).by \in {r, triage[p.lead].by}
        BY <2>2, <3>1, <4>1, SetTriageTyped
      <4> QED BY <3>2, <4>2
    <3> QED BY <2>2, <3>2, <3>3
  <2>4. CASE triage[p.lead] = None
    BY <1>1, <1>3, <2>1, <2>4 DEF PatchCommits
  <2> QED BY <2>3, <2>4
<1>4. ASSUME Advance PROVE StepKeepsDecisions
  <2>1. checked \in TriageLeads
    BY <1>4 DEF Advance
  <2>2. \A l \in TriageLeads \ {checked} : triage'[l] = triage[l]
    BY <1>4, <2>1 DEF Advance
  <2> QED BY <1>4, <2>1, <2>2 DEF Advance
<1>5. CASE UNCHANGED triageVars
  BY <1>1, <1>5 DEF triageVars
<1> QED
  BY <1>1, <1>2, <1>3, <1>4, <1>5
     DEF TriageNext, Sweep, LeadPushed, ContactedInCrm, ContactDeletedInCrm, PatchLoads,
         SweepLoads, FetchContact, TransportError

\* lead_triage_sync never takes over a lead that a rep has decided on, unless the
\* rep decided after the sweep had loaded its batch.
THEOREM DecisionsStand == TriageSpec => RepDecisionStands
<1>1. TriageInit => TriageTyped /\ DecidedIsLate
  BY TriageInitTyped, DecidedInit
<1>2. TriageTyped /\ DecidedIsLate /\ [TriageNext]_triageVars => (TriageTyped /\ DecidedIsLate)'
  BY TriageStepTyped, DecidedStep
<1>3. TriageTyped /\ DecidedIsLate /\ [TriageNext]_triageVars => [StepKeepsDecisions]_triageVars
  BY DecisionsStep
<1>4. TriageSpec => [][StepKeepsDecisions]_triageVars
  BY <1>1, <1>2, <1>3, PTL DEF TriageSpec
<1> QED BY <1>4 DEF RepDecisionStands, StepKeepsDecisions

-----------------------------------------------------------------------------
(* The logging agent: any deals, pipelines, attempts, answers and moves.    *)

\* What a call has written when it gets to a label: each failed attempt at a
\* write has left one note or task at most, and only if it was not answered.
CallOK(c) ==
    /\ c \in AgentCall
    /\ c.pc \in {"idle", "search", "fetch"} => c.notes = 0 /\ c.tasks = 0 /\ c.unanswered = 0
    /\ c.pc = "note" => /\ c.notes <= c.unanswered /\ c.unanswered <= c.tries
                        /\ c.tasks = 0
    /\ c.pc = "task" => /\ c.tasks <= c.tries /\ c.unanswered <= Attempts - 1 + c.tries
                        /\ c.notes <= 1 + c.unanswered /\ c.tasks <= c.unanswered
                        /\ c.notes + c.tasks <= 1 + c.unanswered
    /\ c.pc = "answer" => /\ c.notes <= 1 + c.unanswered /\ c.tasks <= 1 + c.unanswered
                          /\ c.notes + c.tasks <= 2 + c.unanswered
    /\ c.pc \in {"fetch", "note", "task"} => c.deal \in Deals

\* A call that has passed the guard works on a deal that was in an allowed
\* pipeline then, and is now unless a user has moved it since.
Guarded ==
    call.pc \in {"note", "task"} => pipeline[call.deal] \in AllowedPipelines \/ moved

CallInv == CallTypeOK /\ CallOK(call) /\ Guarded

\* The next attempt, or the answer: what a failed attempt leaves.
LEMMA AfterFailureOK ==
  ASSUME NEW c, CallOK(c), c.pc \in {"search", "fetch", "note", "task"}
  PROVE  /\ CallOK(AfterFailure(c)) /\ AfterFailure(c).deal = c.deal
         /\ AfterFailure(c).pc \in {c.pc, "answer"}
         /\ AfterFailure(c).notes = c.notes /\ AfterFailure(c).tasks = c.tasks
<1>t. PICK t : t = AfterFailure(c)
  OBVIOUS
<1>1. c \in AgentCall
  BY DEF CallOK
<1>2. CASE c.tries + 1 < Attempts
  <2>1. /\ t \in AgentCall /\ t.pc = c.pc /\ t.tries = c.tries + 1 /\ t.deal = c.deal
        /\ t.notes = c.notes /\ t.tasks = c.tasks /\ t.unanswered = c.unanswered
    BY <1>t, <1>1, <1>2 DEF AfterFailure, AgentCall, Attempts
  <2>2. CallOK(t)
    BY <1>1, <2>1 DEF CallOK, AgentCall, Attempts
  <2> QED
    BY <1>t, <2>1, <2>2
<1>3. CASE ~(c.tries + 1 < Attempts)
  <2>1. /\ t \in AgentCall /\ t.pc = "answer" /\ t.deal = c.deal
        /\ t.notes = c.notes /\ t.tasks = c.tasks /\ t.unanswered = c.unanswered
    BY <1>t, <1>1, <1>3 DEF AfterFailure, AgentCall
  <2>2. CallOK(t)
    BY <1>1, <2>1 DEF CallOK, AgentCall, Attempts
  <2> QED
    BY <1>t, <2>1, <2>2
<1> QED
  BY <1>2, <1>3

\* The same after an attempt that was done: one more note, or one more task.
LEMMA UnansweredOK ==
  ASSUME NEW c, CallOK(c), c.pc = "note" \/ c.pc = "task", NEW d, d \in AgentCall,
         d.pc = c.pc, d.tries = c.tries, d.deal = c.deal, d.unanswered = c.unanswered + 1,
         d.notes = IF c.pc = "note" THEN c.notes + 1 ELSE c.notes,
         d.tasks = IF c.pc = "task" THEN c.tasks + 1 ELSE c.tasks
  PROVE  /\ CallOK(AfterFailure(d)) /\ AfterFailure(d).deal = c.deal
         /\ AfterFailure(d).pc \in {c.pc, "answer"}
<1>t. PICK t : t = AfterFailure(d)
  OBVIOUS
<1>1. c \in AgentCall
  BY DEF CallOK
<1>2. CASE d.tries + 1 < Attempts
  <2>1. /\ t \in AgentCall /\ t.pc = c.pc /\ t.tries = c.tries + 1 /\ t.deal = c.deal
        /\ t.notes = d.notes /\ t.tasks = d.tasks /\ t.unanswered = c.unanswered + 1
    BY <1>t, <1>2 DEF AfterFailure, AgentCall, Attempts
  <2>2. CallOK(t)
    BY <1>1, <2>1 DEF CallOK, AgentCall, Attempts
  <2> QED
    BY <1>t, <2>1, <2>2
<1>3. CASE ~(d.tries + 1 < Attempts)
  <2>1. /\ t \in AgentCall /\ t.pc = "answer" /\ t.deal = c.deal
        /\ t.notes = d.notes /\ t.tasks = d.tasks /\ t.unanswered = c.unanswered + 1
    BY <1>t, <1>3 DEF AfterFailure, AgentCall
  <2>2. CallOK(t)
    BY <1>1, <2>1 DEF CallOK, AgentCall, Attempts
  <2> QED
    BY <1>t, <2>1, <2>2
<1> QED
  BY <1>2, <1>3

\* A step of the call that takes a token and leaves the CRM as it is.
LEMMA AttemptInv ==
  ASSUME CallInv, Acquire, CallOK(call'), UNCHANGED <<pipeline, moves>>,
         moved' \in BOOLEAN, Guarded'
  PROVE  CallInv'
<1>1. tokens' \in 0 .. Capacity /\ hour' \in [Ticks -> Nat]
  BY CallAssumptions DEF CallInv, CallTypeOK, Acquire, Ticks
<1>2. call' \in AgentCall
  BY DEF CallOK
<1>3. CallTypeOK'
  BY <1>1, <1>2 DEF CallInv, CallTypeOK
<1> QED
  BY <1>3 DEF CallInv, CallOK

LEMMA Zeros ==
    0 \in 0 .. Attempts - 1 /\ 0 \in 0 .. Attempts /\ 0 \in 0 .. 2 * Attempts
  BY DEF Attempts

\* A new client: a full bucket, and nothing sent.
LEMMA NewClient == Capacity \in 0 .. Capacity /\ [t \in Ticks |-> 0] \in [Ticks -> Nat]
<1>1. Capacity \in Nat
  BY CallAssumptions
<1> QED
  BY <1>1

LEMMA CallInvInit == CallInit => CallInv
<1> SUFFICES ASSUME CallInit PROVE CallInv
  OBVIOUS
<1>1. NoCall \in AgentCall /\ CallOK(NoCall) /\ NoCall.pc = "idle"
  BY DEF NoCall, AgentCall, CallOK, Attempts
<1>2. CallTypeOK
  <2>1. tokens \in 0 .. Capacity /\ hour \in [Ticks -> Nat] /\ moves \in 0 .. MaxMoves
    BY NewClient, CallAssumptions DEF CallInit
  <2> QED
    BY <1>1, <2>1 DEF CallInit, CallTypeOK
<1> QED
  BY <1>1, <1>2 DEF CallInit, CallInv, Guarded

LEMMA CallInvNext == CallInv /\ [CallNext]_callVars => CallInv'
<1> SUFFICES ASSUME CallInv, [CallNext]_callVars PROVE CallInv'
  OBVIOUS
<1>t. call \in AgentCall /\ CallOK(call) /\ CallTypeOK
  BY DEF CallInv, CallOK
<1>1. ASSUME NEW intent \in Intents, NEW d \in Deals, NEW byHint \in BOOLEAN,
             AgentLog(intent, d, byHint)
      PROVE  CallInv'
  <2>1. PICK c, x : /\ c = IF byHint THEN "search" ELSE "fetch"
                    /\ x = IF byHint THEN None ELSE d
    OBVIOUS
  <2>2. call' = [NoCall EXCEPT !.pc = c, !.intent = intent, !.deal = x]
    BY <1>1, <2>1 DEF AgentLog
  <2>3. /\ call' \in AgentCall /\ call'.pc = c /\ call'.deal = x
        /\ call'.notes = 0 /\ call'.tasks = 0 /\ call'.unanswered = 0
    BY <2>1, <2>2, Zeros DEF NoCall, AgentCall
  <2>4. CallOK(call')
    BY <2>1, <2>3 DEF CallOK
  <2>5. CallTypeOK'
    <3>1. tokens' \in 0 .. Capacity /\ hour' \in [Ticks -> Nat]
      BY <1>1, NewClient DEF AgentLog
    <3> QED
      BY <1>1, <1>t, <2>3, <3>1 DEF AgentLog, CallTypeOK
  <2>6. Guarded'
    BY <2>1, <2>3 DEF Guarded
  <2> QED
    BY <2>4, <2>5, <2>6 DEF CallInv, CallOK
<1>2. CASE AttemptFails
  <2>1. CallOK(AfterFailure(call)) /\ AfterFailure(call).deal = call.deal
        /\ AfterFailure(call).pc \in {call.pc, "answer"}
    BY <1>2, <1>t, AfterFailureOK DEF AttemptFails, Requesting
  <2>2. /\ CallOK(call') /\ call'.deal = call.deal /\ call'.pc \in {call.pc, "answer"}
        /\ Acquire /\ UNCHANGED <<pipeline, moves, moved>>
    BY <1>2, <2>1 DEF AttemptFails
  <2>3. Guarded' /\ moved' \in BOOLEAN
    BY <1>t, <2>2 DEF CallInv, CallTypeOK, Guarded
  <2> QED
    BY <2>2, <2>3, AttemptInv
<1>3. CASE AttemptRefused
  <2>1. /\ call' \in AgentCall /\ call'.pc = "answer" /\ call'.notes = call.notes
        /\ call'.tasks = call.tasks /\ call'.unanswered = call.unanswered
    BY <1>3, <1>t DEF AttemptRefused, AgentCall
  <2>2. CallOK(call')
    BY <1>3, <1>t, <2>1 DEF AttemptRefused, Requesting, CallOK, AgentCall, Attempts
  <2>3. Guarded' /\ moved' \in BOOLEAN
    BY <1>3, <1>t, <2>1 DEF AttemptRefused, CallTypeOK, Guarded
  <2> QED
    BY <1>3, <2>2, <2>3, AttemptInv DEF AttemptRefused
<1>4. CASE Search
  <2>1. CASE call' = [call EXCEPT !.pc = "answer"]
    <3>1. /\ call' \in AgentCall /\ call'.pc = "answer" /\ call'.notes = call.notes
          /\ call'.tasks = call.tasks /\ call'.unanswered = call.unanswered
      BY <1>t, <2>1 DEF AgentCall
    <3>2. CallOK(call')
      <4>1. call.notes = 0 /\ call.tasks = 0 /\ call.unanswered = 0
        BY <1>4, <1>t DEF Search, CallOK
      <4> QED
        BY <3>1, <4>1 DEF CallOK
    <3>3. Guarded' /\ moved' \in BOOLEAN
      BY <1>4, <1>t, <3>1 DEF Search, CallTypeOK, Guarded
    <3> QED
      BY <1>4, <3>2, <3>3, AttemptInv DEF Search
  <2>2. ASSUME NEW d \in Deals,
               call' = [call EXCEPT !.pc = "fetch", !.deal = d, !.tries = 0]
        PROVE  CallInv'
    <3>1. /\ call' \in AgentCall /\ call'.pc = "fetch" /\ call'.notes = call.notes
          /\ call'.tasks = call.tasks /\ call'.unanswered = call.unanswered
          /\ call'.deal = d
      BY <1>t, <2>2, Zeros DEF AgentCall
    <3>2. CallOK(call')
      <4>1. call.notes = 0 /\ call.tasks = 0 /\ call.unanswered = 0
        BY <1>4, <1>t DEF Search, CallOK
      <4> QED
        BY <3>1, <4>1 DEF CallOK
    <3>3. Guarded' /\ moved' \in BOOLEAN
      BY <1>4, <1>t, <3>1 DEF Search, CallTypeOK, Guarded
    <3> QED
      BY <1>4, <3>2, <3>3, AttemptInv DEF Search
  <2> QED
    BY <1>4, <2>1, <2>2 DEF Search
<1>5. CASE Fetch
  <2>0. call.pc = "fetch" /\ call.deal \in Deals /\ Acquire /\ moved' = FALSE
        /\ UNCHANGED <<pipeline, moves>>
    BY <1>5, <1>t DEF Fetch, CallOK
  <2>1. CASE Allowed(call.deal)
    <3>1. PICK c : c = FirstWrite(call.intent) /\ c \in {"note", "task"}
      BY DEF FirstWrite
    <3>2. call' = [call EXCEPT !.pc = c, !.tries = 0]
      BY <1>5, <2>1, <3>1 DEF Fetch
    <3>3. /\ call' \in AgentCall /\ call'.pc = c /\ call'.notes = call.notes
          /\ call'.tasks = call.tasks /\ call'.unanswered = call.unanswered
          /\ call'.deal = call.deal /\ call'.tries = 0
      BY <1>t, <3>1, <3>2, Zeros DEF AgentCall
    <3>4. CallOK(call')
      BY <1>t, <2>0, <3>1, <3>3 DEF CallOK, Attempts
    <3>5. Guarded'
      BY <2>0, <2>1, <3>3 DEF Guarded, Allowed
    <3> QED
      BY <2>0, <3>4, <3>5, AttemptInv
  <2>2. CASE ~Allowed(call.deal)
    <3>1. call' = [call EXCEPT !.pc = "answer"]
      BY <1>5, <2>2 DEF Fetch
    <3>2. /\ call' \in AgentCall /\ call'.pc = "answer" /\ call'.notes = call.notes
          /\ call'.tasks = call.tasks /\ call'.unanswered = call.unanswered
      BY <1>t, <3>1 DEF AgentCall
    <3>3. CallOK(call') /\ Guarded'
      BY <1>t, <2>0, <3>2 DEF CallOK, Guarded
    <3> QED
      BY <2>0, <3>3, AttemptInv
  <2> QED
    BY <2>1, <2>2
<1>6. CASE CreateNote
  <2>p. PICK d : d = [call EXCEPT !.notes = @ + 1]
    OBVIOUS
  <2>0. /\ call.pc = "note" /\ Acquire /\ UNCHANGED <<pipeline, moves, moved>>
        /\ call.notes <= call.unanswered /\ call.unanswered <= call.tries /\ call.tasks = 0
        /\ call.deal \in Deals /\ moved \in BOOLEAN
    BY <1>6, <1>t DEF CreateNote, CallOK, CallTypeOK
  <2>1. /\ d \in AgentCall /\ d.pc = "note" /\ d.tries = call.tries /\ d.deal = call.deal
        /\ d.notes = call.notes + 1 /\ d.tasks = 0 /\ d.unanswered = call.unanswered
    BY <1>t, <2>p, <2>0 DEF AgentCall, Attempts
  <2>2. CASE call' = [d EXCEPT !.pc = "task", !.tries = 0]
    <3>1. /\ call' \in AgentCall /\ call'.pc = "task" /\ call'.tries = 0
          /\ call'.deal = call.deal /\ call'.notes = call.notes + 1 /\ call'.tasks = 0
          /\ call'.unanswered = call.unanswered
      BY <2>1, <2>2, Zeros DEF AgentCall
    <3>2. CallOK(call')
      BY <1>t, <2>0, <3>1 DEF CallOK, AgentCall, Attempts
    <3>3. Guarded'
      BY <2>0, <3>1 DEF CallInv, Guarded
    <3> QED
      BY <2>0, <3>2, <3>3, AttemptInv
  <2>3. CASE call' = [d EXCEPT !.pc = "answer"]
    <3>1. /\ call' \in AgentCall /\ call'.pc = "answer" /\ call'.notes = call.notes + 1
          /\ call'.tasks = 0 /\ call'.unanswered = call.unanswered
      BY <2>1, <2>3 DEF AgentCall
    <3>2. CallOK(call') /\ Guarded'
      BY <1>t, <2>0, <3>1 DEF CallOK, AgentCall, Attempts, Guarded
    <3> QED
      BY <2>0, <3>2, AttemptInv
  <2>4. CASE call' = AfterFailure([d EXCEPT !.unanswered = @ + 1])
    <3>1. PICK e : e = [d EXCEPT !.unanswered = @ + 1]
      OBVIOUS
    <3>2. /\ e \in AgentCall /\ e.pc = call.pc /\ e.tries = call.tries
          /\ e.deal = call.deal /\ e.unanswered = call.unanswered + 1
          /\ e.notes = call.notes + 1 /\ e.tasks = call.tasks
      BY <1>t, <2>0, <2>1, <3>1 DEF AgentCall, Attempts
    <3>3. /\ CallOK(AfterFailure(e)) /\ AfterFailure(e).deal = call.deal
          /\ AfterFailure(e).pc \in {call.pc, "answer"}
      BY <1>t, <2>0, <3>2, UnansweredOK
    <3>4. CallOK(call') /\ call'.deal = call.deal /\ call'.pc \in {call.pc, "answer"}
      BY <2>4, <3>1, <3>3
    <3>5. Guarded'
      BY <2>0, <3>4 DEF CallInv, Guarded
    <3> QED
      BY <2>0, <3>4, <3>5, AttemptInv
  <2> QED
    BY <1>6, <2>p, <2>2, <2>3, <2>4 DEF CreateNote
<1>7. CASE CreateTask
  <2>p. PICK d : d = [call EXCEPT !.tasks = @ + 1]
    OBVIOUS
  <2>0. /\ call.pc = "task" /\ Acquire /\ UNCHANGED <<pipeline, moves, moved>>
        /\ call.tasks <= call.tries /\ call.unanswered <= Attempts - 1 + call.tries
        /\ call.deal \in Deals /\ moved \in BOOLEAN
    BY <1>7, <1>t DEF CreateTask, CallOK, CallTypeOK
  <2>1. /\ d \in AgentCall /\ d.pc = "task" /\ d.tries = call.tries /\ d.deal = call.deal
        /\ d.notes = call.notes /\ d.tasks = call.tasks + 1
        /\ d.unanswered = call.unanswered
    BY <1>t, <2>p, <2>0 DEF AgentCall, Attempts
  <2>2. CASE call' = [d EXCEPT !.pc = "answer"]
    <3>1. /\ call' \in AgentCall /\ call'.pc = "answer" /\ call'.notes = call.notes
          /\ call'.tasks = call.tasks + 1 /\ call'.unanswered = call.unanswered
      BY <2>1, <2>2 DEF AgentCall
    <3>2. CallOK(call') /\ Guarded'
      BY <1>t, <2>0, <3>1 DEF CallOK, AgentCall, Attempts, Guarded
    <3> QED
      BY <2>0, <3>2, AttemptInv
  <2>3. CASE call' = AfterFailure([d EXCEPT !.unanswered = @ + 1])
    <3>1. PICK e : e = [d EXCEPT !.unanswered = @ + 1]
      OBVIOUS
    <3>2. /\ e \in AgentCall /\ e.pc = call.pc /\ e.tries = call.tries
          /\ e.deal = call.deal /\ e.unanswered = call.unanswered + 1
          /\ e.notes = call.notes /\ e.tasks = call.tasks + 1
      BY <1>t, <2>0, <2>1, <3>1 DEF AgentCall, Attempts
    <3>3. /\ CallOK(AfterFailure(e)) /\ AfterFailure(e).deal = call.deal
          /\ AfterFailure(e).pc \in {call.pc, "answer"}
      BY <1>t, <2>0, <3>2, UnansweredOK
    <3>4. CallOK(call') /\ call'.deal = call.deal /\ call'.pc \in {call.pc, "answer"}
      BY <2>3, <3>1, <3>3
    <3>5. Guarded'
      BY <2>0, <3>4 DEF CallInv, Guarded
    <3> QED
      BY <2>0, <3>4, <3>5, AttemptInv
  <2> QED
    BY <1>7, <2>p, <2>2, <2>3 DEF CreateTask
<1>8. CASE Answer
  <2>1. NoCall \in AgentCall /\ CallOK(NoCall) /\ NoCall.pc = "idle"
    BY DEF NoCall, AgentCall, CallOK, Attempts
  <2>2. CallTypeOK'
    BY <1>8, <1>t, <2>1 DEF Answer, CallTypeOK
  <2>3. call' = NoCall
    BY <1>8 DEF Answer
  <2> QED
    BY <2>1, <2>2, <2>3 DEF CallInv, CallOK, Guarded
<1>9. CASE Tick
  <2>1. tokens' \in 0 .. Capacity /\ hour' \in [Ticks -> Nat]
    BY <1>9, <1>t, CallAssumptions DEF Tick, Refill, CallTypeOK, Ticks
  <2> QED
    BY <1>9, <1>t, <2>1 DEF Tick, CallInv, CallTypeOK, CallOK, Guarded
<1>10. ASSUME NEW d \in Deals, NEW p \in Pipelines, MoveDeal(d, p) PROVE CallInv'
  <2>1. pipeline' \in [Deals -> Pipelines] /\ moves' \in 0 .. MaxMoves /\ moved' \in BOOLEAN
    BY <1>10, <1>t, CallAssumptions DEF MoveDeal, CallTypeOK
  <2>2. CallTypeOK' /\ UNCHANGED call
    BY <1>10, <1>t, <2>1 DEF MoveDeal, CallTypeOK
  <2>3. Guarded'
    BY <1>10, <1>t, <2>2 DEF MoveDeal, CallInv, Guarded, CallTypeOK, CallOK
  <2> QED
    BY <1>t, <2>2, <2>3 DEF CallInv, CallOK
<1>11. CASE UNCHANGED callVars
  BY <1>11, <1>t DEF callVars, CallInv, CallTypeOK, CallOK, Guarded
<1> QED
  BY <1>1, <1>2, <1>3, <1>4, <1>5, <1>6, <1>7, <1>8, <1>9, <1>10, <1>11
     DEF CallNext, CallStep

LEMMA CallInvariant == CallSpec => []CallInv
  BY CallInvInit, CallInvNext, PTL DEF CallSpec

\* Whatever Freshsales answers and however often an attempt is repeated, a call
\* writes its note and its task once, and once more per attempt that was done
\* and not answered (the retry decorator of freshsales/client.py).
THEOREM WritesBounded == CallSpec => []WritesAreBounded
<1>1. CallInv => WritesAreBounded
  <2> SUFFICES ASSUME CallInv PROVE WritesAreBounded
    OBVIOUS
  <2>1. call \in AgentCall /\ CallOK(call)
    BY DEF CallInv, CallOK
  <2> QED
    BY <2>1 DEF CallOK, AgentCall, WritesAreBounded, Attempts
<1> QED
  BY <1>1, CallInvariant, PTL

\* A note or a task is only ever written to a deal of an allowed pipeline, or to
\* one a user of the CRM has moved since get_deal (the guard of the webhook).
THEOREM AllowedOnly == CallSpec => OnlyAllowedPipelines
<1>1. CallInv /\ [CallNext]_callVars =>
        [call'.notes > call.notes \/ call'.tasks > call.tasks
            => pipeline[call.deal] \in AllowedPipelines \/ moved]_callVars
  <2> SUFFICES ASSUME CallInv, CallNext, call'.notes > call.notes \/ call'.tasks > call.tasks
               PROVE  pipeline[call.deal] \in AllowedPipelines \/ moved
    OBVIOUS
  <2>1. SUFFICES ASSUME call.pc \notin {"note", "task"} PROVE FALSE
    BY DEF CallInv, Guarded
  <2>t. call \in AgentCall /\ CallOK(call) /\ call.notes \in Nat /\ call.tasks \in Nat
    BY DEF CallInv, CallOK, AgentCall
  <2>2. ~CreateNote /\ ~CreateTask
    BY <2>1 DEF CreateNote, CreateTask
  <2>3. CASE AttemptFails
    <3>1. /\ call'.notes = call.notes /\ call'.tasks = call.tasks
      BY <2>3, <2>t, AfterFailureOK DEF AttemptFails, Requesting
    <3> QED
      BY <2>t, <3>1
  <2>4. CASE AttemptRefused \/ Search \/ Fetch
    <3>1. /\ call'.notes = call.notes /\ call'.tasks = call.tasks
      BY <2>4, <2>t DEF AttemptRefused, Search, Fetch, AgentCall
    <3> QED
      BY <2>t, <3>1
  <2>5. CASE Answer \/ \E intent \in Intents, d \in Deals, byHint \in BOOLEAN :
                            AgentLog(intent, d, byHint)
    <3>1. call'.notes = 0 /\ call'.tasks = 0
      <4>1. CASE Answer
        BY <4>1 DEF Answer, NoCall
      <4>2. ASSUME NEW intent \in Intents, NEW d \in Deals, NEW byHint \in BOOLEAN,
                   AgentLog(intent, d, byHint)
            PROVE  call'.notes = 0 /\ call'.tasks = 0
        <5>1. PICK c, x : call' = [NoCall EXCEPT !.pc = c, !.intent = intent, !.deal = x]
          BY <4>2 DEF AgentLog
        <5> QED
          BY <5>1 DEF NoCall
      <4> QED
        BY <2>5, <4>1, <4>2
    <3> QED
      BY <2>t, <3>1
  <2>6. CASE Tick \/ \E d \in Deals, p \in Pipelines : MoveDeal(d, p)
    <3>1. call' = call
      BY <2>6 DEF Tick, MoveDeal
    <3> QED
      BY <2>t, <3>1
  <2> QED
    BY <2>2, <2>3, <2>4, <2>5, <2>6 DEF CallNext, CallStep
<1> QED
  BY <1>1, CallInvariant, PTL DEF CallSpec, OnlyAllowedPipelines

\* The requests of the last k ticks, the running one included.
Sent(h, k) == SumFunctionOnSet(h, 1 .. k)

\* What k ticks have sent and what the bucket still holds came from a full
\* bucket and the refills between those ticks, one less than the ticks.
RateInv == \A k \in Ticks : Sent(hour, k) + tokens <= Capacity + k - 1

LEMMA SentType ==
  ASSUME NEW h \in [Ticks -> Nat], NEW k \in 0 .. Capacity
  PROVE  /\ IsFiniteSet(1 .. k) /\ IsNatural(h, 1 .. k)
         /\ Sent(h, k) \in Nat
<1>1. IsFiniteSet(1 .. k)
  BY CallAssumptions, FS_Interval
<1>2. IsNatural(h, 1 .. k)
  BY CallAssumptions DEF Ticks, IsNatural
<1> QED
  BY <1>1, <1>2, SumType DEF Sent

\* A client that has sent nothing.
LEMMA SentNothing ==
  ASSUME NEW k \in 0 .. Capacity PROVE Sent([t \in Ticks |-> 0], k) = 0
<1> DEFINE h == [t \in Ticks |-> 0]
<1>1. h \in [Ticks -> Nat] /\ \A t \in 1 .. k : h[t] = 0
  BY CallAssumptions DEF Ticks
<1>2. IsFiniteSet(1 .. k) /\ IsNatural(h, 1 .. k)
  BY <1>1, SentType
<1>3. SumFunctionOnSet(h, 1 .. k) = 0
  <2> HIDE DEF h
  <2> QED
    BY <1>1, <1>2, SumOfZeros
<1> QED
  BY <1>3 DEF Sent

\* A request counts in the running tick.
LEMMA SentOneMore ==
  ASSUME CallTypeOK, Acquire, NEW k \in Ticks
  PROVE  Sent(hour', k) = Sent(hour, k) + 1
<1>0. k \in 0 .. Capacity /\ 1 \in 1 .. k /\ (1 .. k) \ {1} \subseteq Ticks \ {1} /\ 1 \in Ticks
  BY CallAssumptions DEF Ticks
<1>1. hour \in [Ticks -> Nat] /\ hour' = [hour EXCEPT ![1] = @ + 1]
  BY DEF CallTypeOK, Acquire
<1>2. /\ hour' \in [Ticks -> Nat] /\ hour'[1] = hour[1] + 1 /\ hour[1] \in Nat
      /\ \A t \in (1 .. k) \ {1} : hour'[t] = hour[t]
  BY <1>0, <1>1
<1>3. /\ IsFiniteSet(1 .. k) /\ IsNatural(hour, 1 .. k) /\ IsNatural(hour', 1 .. k)
  BY <1>0, <1>1, <1>2, SentType
<1>4. /\ Sent(hour, k) = hour[1] + SumFunctionOnSet(hour, (1 .. k) \ {1})
      /\ Sent(hour', k) = hour'[1] + SumFunctionOnSet(hour', (1 .. k) \ {1})
  BY <1>0, <1>3, SumOfOne DEF Sent
<1>5. IsFiniteSet((1 .. k) \ {1}) /\ IsNatural(hour, (1 .. k) \ {1})
  BY <1>3, FS_Subset DEF IsNatural
<1>6. SumFunctionOnSet(hour', (1 .. k) \ {1}) = SumFunctionOnSet(hour, (1 .. k) \ {1})
      /\ SumFunctionOnSet(hour, (1 .. k) \ {1}) \in Nat
  BY <1>2, <1>5, SumOfSame, SumType
<1> QED
  BY <1>2, <1>4, <1>6

\* A tick moves every count to the tick before it.
LEMMA SentShifts ==
  ASSUME CallTypeOK, Tick, NEW k \in Ticks
  PROVE  Sent(hour', k) = Sent(hour, k - 1)
<1> DEFINE older == (1 .. k) \ {1}
           b == [t \in older |-> t - 1]
<1>0. /\ k \in 0 .. Capacity /\ k - 1 \in 0 .. Capacity /\ 1 \in 1 .. k
      /\ \A t \in older : t \in Ticks /\ t # 1 /\ t \in Int /\ t - 1 \in Ticks /\ t - 1 \in 1 .. k - 1
      /\ \A t \in 1 .. k - 1 : t + 1 \in older /\ t = (t + 1) - 1 /\ t \in Ticks
      /\ 1 \in Ticks
  BY CallAssumptions DEF Ticks
<1>1. /\ hour \in [Ticks -> Nat]
      /\ hour' = [t \in Ticks |-> IF t = 1 THEN 0 ELSE hour[t - 1]]
  BY DEF CallTypeOK, Tick
<1>2. /\ hour' \in [Ticks -> Nat] /\ hour'[1] = 0
      /\ \A t \in older : hour'[t] = hour[t - 1]
  BY <1>0, <1>1, CallAssumptions DEF Ticks
<1>3. /\ IsFiniteSet(1 .. k) /\ IsNatural(hour', 1 .. k) /\ IsFiniteSet(1 .. k - 1)
      /\ Sent(hour, k - 1) \in Nat
  BY <1>0, <1>1, <1>2, SentType
<1>4. Sent(hour', k) = hour'[1] + SumFunctionOnSet(hour', older)
  BY <1>0, <1>3, SumOfOne DEF Sent
<1>5. IsFiniteSet(older)
  BY <1>3, FS_Subset
<1>6. SumFunctionOnSet(hour', older) = SumFunctionOnSet(hour, 1 .. k - 1)
  <2>1. \A t \in older : b[t] \in 1 .. k - 1 /\ hour'[t] = hour[b[t]]
    BY <1>0, <1>2
  <2>2. ASSUME NEW t \in 1 .. k - 1
        PROVE  hour[t] \in Nat /\ \E u \in older : b[u] = t
    <3>1. t + 1 \in older /\ b[t + 1] = t
      BY <1>0
    <3> QED
      BY <1>0, <1>1, <3>1
  <2>3. \A t, u \in older : b[t] = b[u] => t = u
    BY <1>0
  <2>4. PICK S, T, g, m : S = older /\ T = 1 .. k - 1 /\ g = hour' /\ m = b
    OBVIOUS
  <2>5. /\ IsFiniteSet(S) /\ IsFiniteSet(T)
        /\ \A t \in S : m[t] \in T /\ g[t] = hour[m[t]]
        /\ \A t \in T : hour[t] \in Nat /\ \E u \in S : m[u] = t
        /\ \A t, u \in S : m[t] = m[u] => t = u
    <3> HIDE DEF older, b
    <3> QED
      BY <1>3, <1>5, <2>1, <2>2, <2>3, <2>4
  <2>6. SumFunctionOnSet(g, S) = SumFunctionOnSet(hour, T)
    BY <2>5, SumOfRenamed
  <2> QED
    BY <2>4, <2>6
<1> QED
  BY <1>2, <1>3, <1>4, <1>6 DEF Sent

LEMMA RateInit == CallInit => RateInv
<1> SUFFICES ASSUME CallInit, NEW k \in Ticks PROVE Sent(hour, k) + tokens <= Capacity + k - 1
  BY DEF RateInv
<1>1. Sent(hour, k) = 0
  BY SentNothing, CallAssumptions DEF CallInit, Ticks
<1> QED
  BY <1>1, CallAssumptions DEF CallInit, Ticks

LEMMA RateNext == CallInv /\ RateInv /\ [CallNext]_callVars => RateInv'
<1> SUFFICES ASSUME CallInv, RateInv, [CallNext]_callVars, NEW k \in Ticks
             PROVE  Sent(hour', k) + tokens' <= Capacity + k - 1
  BY DEF RateInv, Sent, Ticks
<1>t. CallTypeOK /\ hour \in [Ticks -> Nat] /\ tokens \in 0 .. Capacity
  BY DEF CallInv, CallTypeOK
<1>k. k \in 1 .. Capacity /\ k \in Nat /\ Capacity \in Nat /\ k \in 0 .. Capacity
      /\ Sent(hour, k) \in Nat /\ Sent(hour, k) + tokens <= Capacity + k - 1
  BY <1>t, SentType, CallAssumptions DEF Ticks, RateInv
<1>1. CASE Acquire
  <2>1. Sent(hour', k) = Sent(hour, k) + 1 /\ tokens' = tokens - 1
    BY <1>1, <1>t, SentOneMore DEF Acquire
  <2> QED
    BY <1>t, <1>k, <2>1
<1>2. CASE tokens' = Capacity /\ hour' = [t \in Ticks |-> 0]
  <2>1. Sent(hour', k) = 0
    BY <1>2, <1>k, SentNothing
  <2> QED
    BY <1>2, <1>k, <2>1
<1>3. CASE Tick
  <2>1. Sent(hour', k) = Sent(hour, k - 1)
    BY <1>3, <1>t, SentShifts
  <2>2. tokens' \in 0 .. Capacity /\ tokens' <= tokens + 1
    BY <1>3, <1>t, <1>k DEF Tick, Refill
  <2>3. CASE k = 1
    <3>1. Sent(hour, k - 1) = 0
      <4>1. 1 .. k - 1 = {}
        BY <2>3
      <4> QED
        BY <4>1, SumOfNone DEF Sent
    <3> QED
      BY <1>k, <2>1, <2>2, <2>3, <3>1
  <2>4. CASE k # 1
    <3>1. k - 1 \in Ticks /\ k - 1 \in 0 .. Capacity
      BY <1>k, <2>4 DEF Ticks
    <3>2. Sent(hour, k - 1) + tokens <= Capacity + (k - 1) - 1 /\ Sent(hour, k - 1) \in Nat
      BY <1>t, <3>1, SentType DEF RateInv
    <3> QED
      BY <1>k, <1>t, <2>1, <2>2, <3>2
  <2> QED
    BY <2>3, <2>4
<1>4. CASE UNCHANGED <<tokens, hour>>
  BY <1>4, <1>k
<1>5. Acquire \/ (tokens' = Capacity /\ hour' = [t \in Ticks |-> 0]) \/ Tick
      \/ UNCHANGED <<tokens, hour>>
  BY DEF CallNext, CallStep, AgentLog, AttemptFails, AttemptRefused, Search, Fetch,
         CreateNote, CreateTask, Answer, MoveDeal, callVars
<1> QED
  BY <1>1, <1>2, <1>3, <1>4, <1>5

\* A client of freshsales/client.py sends in no stretch of ticks more than a full
\* bucket and the refill between those ticks, whatever is answered and retried:
\* RateLimiter.acquire pays for every request and caps the refill.
THEOREM RateBounded == CallSpec => []RateIsBounded
<1>1. CallInv /\ RateInv => RateIsBounded
  <2> SUFFICES ASSUME CallInv, RateInv, NEW k \in Ticks
               PROVE  Sent(hour, k) <= Capacity + k - 1
    BY DEF RateIsBounded, Sent
  <2>1. /\ Capacity \in Nat /\ k \in Nat /\ k \in 0 .. Capacity
        /\ tokens \in Nat /\ hour \in [Ticks -> Nat]
    BY CallAssumptions DEF Ticks, CallInv, CallTypeOK
  <2>2. Sent(hour, k) \in Nat /\ Sent(hour, k) + tokens <= Capacity + k - 1
    BY <2>1, SentType DEF RateInv
  <2> QED
    BY <2>1, <2>2
<1>2. CallInit => CallInv /\ RateInv
  BY CallInvInit, RateInit
<1>3. CallInv /\ RateInv /\ [CallNext]_callVars => (CallInv /\ RateInv)'
  BY CallInvNext, RateNext
<1> QED
  BY <1>1, <1>2, <1>3, PTL DEF CallSpec

-----------------------------------------------------------------------------
\* A behaviour of the composition (scheduler.py, lead_triage_sync.py and
\* freshsales/client.py side by side) is one of the scheduler, of the sweep and
\* of the client: the theorems above hold of it, and its liveness rests on
\* the fairness of each of them alone.
THEOREM JobsAreTheirParts == MCSpec => FairSpec /\ CallSpec /\ TriageSpec
<1>1. MCInit => Init /\ CallInit /\ TriageInit
  BY DEF MCInit
<1>2. [MCNext]_allVars => [Next]_vars
  BY DEF MCNext, allVars
<1>3. [MCNext]_allVars => [CallNext]_callVars
  BY DEF MCNext, allVars
<1>4. [MCNext]_allVars => [TriageNext]_triageVars
  BY DEF MCNext, allVars
<1> QED
  BY <1>1, <1>2, <1>3, <1>4, PTL DEF MCSpec, FairSpec, Spec, CallSpec, TriageSpec
=============================================================================
