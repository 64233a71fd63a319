---------------------------- MODULE RoomBookings ----------------------------
(***************************************************************************)
(* Meeting-room bookings: concurrent create_booking requests, each with    *)
(* its overlap check and, a statement later, its insert under a random     *)
(* access code, and the cancellations.  A booking is kept under the        *)
(* request that made it, which stands for its primary key.                 *)
(***************************************************************************)
EXTENDS Naturals, FiniteSets

CONSTANTS
    Requests,       \* POST /bookings requests
    Rooms,
    ActiveRooms,    \* rooms with is_active
    Codes,          \* access codes
    MaxAttempts,    \* _CODE_MAX_ATTEMPTS
    MaxTime,        \* bound: the clock
    None

Times == 0 .. MaxTime

ASSUME BookingAssumptions ==
    /\ ActiveRooms \subseteq Rooms
    /\ MaxAttempts \in Nat \ {0}
    /\ MaxTime \in Nat

Slot == [room: Rooms, start: Times, end: Times]
Booking == [room: Rooms, start: Times, end: Times, code: Codes,
            status: {"confirmed", "cancelled"}]

ASSUME NoBookingAssumption == None \notin Booking /\ None \notin Slot /\ None \notin Codes

VARIABLES
    now,        \* the clock
    bookings,   \* the bookings table
    pc,         \* where each request is
    slot,       \* what each request asks for
    code,       \* the access code its next insert uses
    attempt,    \* the insert attempts it has made
    seen,       \* history: the bookings in the table when q's overlap check ran
    troubled    \* history: requests that were rolled back or interrupted

vars == <<now, bookings, pc, slot, code, attempt, seen, troubled>>

\* rejected: 404, 409 or 422; done: 201; error: 500 or no answer at all.
Labels == {"idle", "check", "insert", "saved", "rejected", "done", "error"}

Stored == {q \in Requests : bookings[q] # None}

\* Half-open intervals on the same room.
Overlaps(a, b) == a.room = b.room /\ a.start < b.end /\ b.start < a.end

Goto(q, l) == pc' = [pc EXCEPT ![q] = l]

-----------------------------------------------------------------------------
\* The times are validated and the room is read.
Request(q, s) ==
    /\ pc[q] = "idle"
    /\ slot' = [slot EXCEPT ![q] = s]
    /\ Goto(q, IF s.start < s.end /\ s.start >= now /\ s.room \in ActiveRooms
               THEN "check" ELSE "rejected")
    /\ UNCHANGED <<now, bookings, code, attempt, seen, troubled>>

\* Mutant: two bookings conflict only if they start together.
ConflictsSameStart(q) ==
    \E r \in Stored : /\ bookings[r].status = "confirmed"
                      /\ bookings[r].room = slot[q].room
                      /\ bookings[r].start = slot[q].start

\* find_overlapping: a confirmed booking overlaps the slot.
Conflicts(q) ==
    \E r \in Stored : /\ bookings[r].status = "confirmed"
                      /\ Overlaps(bookings[r], slot[q])

\* The overlap check; if it passes, the booking is built with a random code.
Check(q) ==
    /\ pc[q] = "check"
    /\ IF Conflicts(q)
       THEN Goto(q, "rejected") /\ UNCHANGED <<code, seen>>
       ELSE /\ Goto(q, "insert")
            /\ \E c \in Codes : code' = [code EXCEPT ![q] = c]
            /\ seen' = [seen EXCEPT ![q] = Stored]
    /\ UNCHANGED <<now, bookings, slot, attempt, troubled>>

Store(q) ==
    bookings' = [bookings EXCEPT ![q] =
        [room |-> slot[q].room, start |-> slot[q].start, end |-> slot[q].end,
         code |-> code[q], status |-> "confirmed"]]

CodeTaken(q) == \E r \in Stored : bookings[r].code = code[q]

\* The insert succeeds.  After an earlier rollback the room is expired, and
\* reading its name for the mail raises.
Insert(q) ==
    /\ pc[q] = "insert"
    /\ ~CodeTaken(q)
    /\ Store(q)
    /\ Goto(q, IF attempt[q] = 0 THEN "saved" ELSE "error")
    /\ UNCHANGED <<now, slot, code, attempt, seen, troubled>>

\* Mutant: the loop tries for ever.
RetryForever(q) ==
    /\ pc[q] = "insert"
    /\ attempt' = [attempt EXCEPT ![q] = 1]
    /\ \E c \in Codes : code' = [code EXCEPT ![q] = c]
    /\ troubled' = troubled \cup {q}
    /\ UNCHANGED <<now, bookings, pc, slot, seen>>

\* rollback, then another attempt with a new code, or the exception leaves.
Retry(q) ==
    /\ pc[q] = "insert"
    /\ attempt' = [attempt EXCEPT ![q] = @ + 1]
    /\ IF attempt[q] + 1 = MaxAttempts
       THEN Goto(q, "error") /\ UNCHANGED code
       ELSE /\ \E c \in Codes : code' = [code EXCEPT ![q] = c]
            /\ UNCHANGED pc
    /\ troubled' = troubled \cup {q}
    /\ UNCHANGED <<now, bookings, slot, seen>>

\* The insert hits the unique index on the access code.
Collide(q) == CodeTaken(q) /\ Retry(q)

\* The insert fails for another reason, which the same clause catches.
InsertFails(q) == ~CodeTaken(q) /\ Retry(q)

\* The commit went through but its answer was lost: every further attempt
\* inserts under the primary key that is there already.
CommitUnknown(q) ==
    /\ pc[q] = "insert"
    /\ ~CodeTaken(q)
    /\ Store(q)
    /\ Goto(q, "error")
    /\ troubled' = troubled \cup {q}
    /\ UNCHANGED <<now, slot, code, attempt, seen>>

\* Mutant: a mail that cannot be sent fails the request.
ConfirmRaises(q) ==
    /\ pc[q] = "saved"
    /\ Goto(q, "done") \/ Goto(q, "error")
    /\ UNCHANGED <<now, bookings, slot, code, attempt, seen, troubled>>

\* The confirmation mail is tried, and the booking returned either way.
Confirm(q) ==
    /\ pc[q] = "saved"
    /\ Goto(q, "done")
    /\ UNCHANGED <<now, bookings, slot, code, attempt, seen, troubled>>

\* The process stops while the request is under way.
Crash(q) ==
    /\ pc[q] \in {"check", "insert", "saved"}
    /\ Goto(q, "error")
    /\ troubled' = troubled \cup {q}
    /\ UNCHANGED <<now, bookings, slot, code, attempt, seen>>

\* By access code or by id.  Cancelling twice changes nothing, so the read and
\* the write are one step.
Cancel(q) ==
    /\ q \in Stored
    /\ bookings[q].status # "cancelled"
    /\ bookings' = [bookings EXCEPT ![q].status = "cancelled"]
    /\ UNCHANGED <<now, pc, slot, code, attempt, seen, troubled>>

Tick ==
    /\ now < MaxTime
    /\ now' = now + 1
    /\ UNCHANGED <<bookings, pc, slot, code, attempt, seen, troubled>>

-----------------------------------------------------------------------------
Init ==
    /\ now = 0
    /\ bookings = [q \in Requests |-> None]
    /\ pc = [q \in Requests |-> "idle"]
    /\ slot = [q \in Requests |-> None]
    /\ code = [q \in Requests |-> None]
    /\ attempt = [q \in Requests |-> 0]
    /\ seen = [q \in Requests |-> {}]
    /\ troubled = {}

\* The steps create_booking takes by itself once the request is in.
Step(q) ==
    \/ Check(q) \/ Insert(q) \/ Collide(q) \/ InsertFails(q)
    \/ CommitUnknown(q) \/ Confirm(q)

Next ==
    \/ \E q \in Requests, s \in Slot : Request(q, s)
    \/ \E q \in Requests : Step(q) \/ Crash(q) \/ Cancel(q)
    \/ Tick

Spec == Init /\ [][Next]_vars

\* The server keeps running the handlers of the requests it has accepted.
FairSpec == Spec /\ \A q \in Requests : WF_vars(Step(q))

-----------------------------------------------------------------------------
(* Properties                                                               *)

TypeOK ==
    /\ now \in Times
    /\ bookings \in [Requests -> Booking \cup {None}]
    /\ pc \in [Requests -> Labels]
    /\ slot \in [Requests -> Slot \cup {None}]
    /\ code \in [Requests -> Codes \cup {None}]
    /\ attempt \in [Requests -> 0 .. MaxAttempts]
    /\ seen \in [Requests -> SUBSET Requests]
    /\ troubled \subseteq Requests

\* The check does its work up to the race: two confirmed bookings of a room
\* overlap only if each overlap check ran before the other booking was stored.
OverlapOnlyByRace ==
    \A q, r \in Stored :
        /\ q # r
        /\ bookings[q].status = "confirmed"
        /\ bookings[r].status = "confirmed"
        /\ Overlaps(bookings[q], bookings[r])
        => q \notin seen[r] /\ r \notin seen[q]

\* The access code tells the bookings apart, cancelled ones included, after any
\* number of collisions and retries.
CodesAreUnique ==
    \A q, r \in Stored : bookings[q].code = bookings[r].code => q = r

\* The answer is honest: a rejected request has stored nothing, a confirmed one
\* its slot, and a request answered with an error has stored a booking only if
\* it was rolled back or interrupted.
AnswersAreHonest ==
    \A q \in Requests :
        /\ pc[q] = "rejected" => q \notin Stored
        /\ pc[q] \in {"saved", "done"} =>
            q \in Stored /\ bookings[q].start = slot[q].start
                         /\ bookings[q].end = slot[q].end
        /\ pc[q] = "error" /\ q \in Stored => q \in troubled

\* A stored booking occupies time that was still ahead when it was asked for,
\* so that it can be found by the overlap check of a later request.
StoredIsRealTime ==
    \A q \in Stored : Overlaps(bookings[q], bookings[q])

\* Every request gets an answer, also when no access code is free any more.
EveryRequestEnds ==
    \A q \in Requests :
        pc[q] = "check" ~> pc[q] \in {"rejected", "done", "error"}

\* Bookings of a room never overlap: double-booking is prevented.
NoDoubleBooking ==
    \A q, r \in Stored :
        /\ bookings[q].status = "confirmed"
        /\ bookings[r].status = "confirmed"
        /\ Overlaps(bookings[q], bookings[r])
        => q = r
=============================================================================
