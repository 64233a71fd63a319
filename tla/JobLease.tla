------------------------------ MODULE JobLease ------------------------------
(***************************************************************************)
(* What the advisory locks promise: a run of a job starts only while       *)
(* nobody holds the job's lease, and a run whose lease has expired under   *)
(* it (stale) goes on without it.  There is never a second holder, but a   *)
(* stale run may overlap the next holder's.  The end of an instance moves  *)
(* several jobs at once, so a step is one step or none of every job.       *)
(***************************************************************************)
CONSTANTS Instances, Jobs, None
VARIABLES
    holder,     \* holder[j]: the instance that holds j's lease
    stale       \* stale[j]: the instances that run j on an expired lease

lease == <<holder, stale>>

Init ==
    /\ holder = [j \in Jobs |-> None]
    /\ stale = [j \in Jobs |-> {}]

Acquire(i, j) ==
    holder[j] = None /\ i \notin stale[j] /\ holder'[j] = i /\ stale'[j] = stale[j]

Release(i, j) ==
    holder[j] = i /\ holder'[j] = None /\ stale'[j] = stale[j]

Expire(i, j) ==
    holder[j] = i /\ holder'[j] = None /\ stale'[j] = stale[j] \cup {i}

Quit(i, j) ==
    i \in stale[j] /\ stale'[j] = stale[j] \ {i} /\ holder'[j] = holder[j]

Rest(j) == holder'[j] = holder[j] /\ stale'[j] = stale[j]

Next ==
    \A j \in Jobs :
        \/ Rest(j)
        \/ \E i \in Instances :
            Acquire(i, j) \/ Release(i, j) \/ Expire(i, j) \/ Quit(i, j)

Spec == Init /\ [][Next]_lease
=============================================================================
