------------------------- MODULE RoomBookingsProofs -------------------------
(***************************************************************************)
(* For any number of requests, rooms, codes and attempts: what the overlap *)
(* check and the unique access code guarantee without a lock.              *)
(***************************************************************************)
EXTENDS RoomBookings, TLAPS

\* Every variable keeps its type, and a request about to check or to insert has
\* a real slot, has stored nothing, and has an attempt left.
Underway ==
    \A q \in Requests :
        /\ pc[q] \in {"check", "insert"} =>
            /\ slot[q] \in Slot
            /\ slot[q].start < slot[q].end
            /\ q \notin Stored
        /\ pc[q] = "insert" => code[q] \in Codes /\ attempt[q] < MaxAttempts
        /\ pc[q] = "idle" => q \notin Stored
        /\ pc[q] \in {"idle", "check"} => attempt[q] = 0

TypeInv == TypeOK /\ Underway

LEMMA TypeInvInit == Init => TypeInv
  BY BookingAssumptions, NoBookingAssumption
  DEF Init, TypeInv, TypeOK, Underway, Stored, Labels, Times

LEMMA TypeInvNext == TypeInv /\ [Next]_vars => TypeInv'
<1> SUFFICES ASSUME TypeInv, [Next]_vars PROVE TypeInv'
  OBVIOUS
<1> USE BookingAssumptions, NoBookingAssumption
    DEF TypeInv, TypeOK, Underway, Stored, Labels, Times, Slot, Goto
<1>1. ASSUME NEW q \in Requests, NEW s \in Slot, Request(q, s) PROVE TypeInv'
  BY <1>1 DEF Request
<1>2. ASSUME NEW q \in Requests, Check(q) PROVE TypeInv'
  <2>1. CASE Conflicts(q)
    BY <1>2, <2>1 DEF Check
  <2>2. CASE ~Conflicts(q)
    <3>1. PICK c \in Codes : code' = [code EXCEPT ![q] = c]
      BY <1>2, <2>2 DEF Check
    <3>2. /\ pc[q] = "check"
          /\ pc' = [pc EXCEPT ![q] = "insert"]
          /\ seen' = [seen EXCEPT ![q] = Stored]
          /\ UNCHANGED <<now, bookings, slot, attempt, troubled>>
      BY <1>2, <2>2 DEF Check
    <3>3. attempt[q] < MaxAttempts
      BY <3>2
    <3> QED
      BY <3>1, <3>2, <3>3
  <2> QED
    BY <2>1, <2>2
<1>3. ASSUME NEW q \in Requests, pc[q] = "insert", Store(q)
      PROVE  bookings' \in [Requests -> Booking \cup {None}]
  <2>1. [room |-> slot[q].room, start |-> slot[q].start, end |-> slot[q].end,
         code |-> code[q], status |-> "confirmed"] \in Booking
    BY <1>3 DEF Booking
  <2> QED
    BY <1>3, <2>1 DEF Store
<1>4. ASSUME NEW q \in Requests, Insert(q) \/ CommitUnknown(q) PROVE TypeInv'
  <2>1. bookings' \in [Requests -> Booking \cup {None}]
    BY <1>3, <1>4 DEF Insert, CommitUnknown
  <2>2. /\ pc[q] = "insert"
        /\ pc' \in [Requests -> Labels]
        /\ pc'[q] \in {"saved", "error"}
        /\ \A r \in Requests : r # q => pc'[r] = pc[r] /\ bookings'[r] = bookings[r]
        /\ UNCHANGED <<now, slot, code, attempt, seen>>
        /\ troubled' \subseteq Requests
    BY <1>4 DEF Insert, CommitUnknown, Store
  <2> QED
    BY <2>1, <2>2
<1>5. ASSUME NEW q \in Requests, Retry(q) PROVE TypeInv'
  <2>1. /\ pc[q] = "insert"
        /\ attempt' = [attempt EXCEPT ![q] = @ + 1]
        /\ attempt[q] + 1 \in 1 .. MaxAttempts
        /\ UNCHANGED <<now, bookings, slot, seen>>
        /\ troubled' \subseteq Requests
    BY <1>5 DEF Retry
  <2>2. CASE attempt[q] + 1 = MaxAttempts
    BY <1>5, <2>1, <2>2 DEF Retry
  <2>3. CASE attempt[q] + 1 # MaxAttempts
    BY <1>5, <2>1, <2>3 DEF Retry
  <2> QED
    BY <2>2, <2>3
<1>6. ASSUME NEW q \in Requests, Confirm(q) \/ Crash(q) PROVE TypeInv'
  BY <1>6 DEF Confirm, Crash
<1>7. ASSUME NEW q \in Requests, Cancel(q) PROVE TypeInv'
  <2>1. [bookings[q] EXCEPT !.status = "cancelled"] \in Booking
    BY <1>7 DEF Cancel, Booking
  <2>2. bookings' = [bookings EXCEPT ![q] = [bookings[q] EXCEPT !.status = "cancelled"]]
    BY <1>7 DEF Cancel
  <2> QED
    BY <1>7, <2>1, <2>2 DEF Cancel
<1>8. CASE Tick
  BY <1>8 DEF Tick
<1>9. CASE UNCHANGED vars
  BY <1>9 DEF vars
<1> QED
  BY <1>1, <1>2, <1>4, <1>5, <1>6, <1>7, <1>8, <1>9 DEF Next, Step, Collide, InsertFails

LEMMA TypeInvariant == Spec => []TypeInv
  BY TypeInvInit, TypeInvNext, PTL DEF Spec

\* Every variable keeps its type; in particular no request makes more than
\* _CODE_MAX_ATTEMPTS attempts.
THEOREM TypeCorrect == Spec => []TypeOK
<1>1. TypeInv => TypeOK
  BY DEF TypeInv
<1> QED
  BY <1>1, TypeInvariant, PTL

-----------------------------------------------------------------------------
\* The inductive invariant behind the overlap check: what q's check saw is still
\* stored, has passed q's check or been cancelled since, and a stored booking
\* is for the slot that was asked for.
SeenIsStored == \A q \in Requests : seen[q] \subseteq Stored

SlotIsKept ==
    \A q \in Stored : /\ slot[q] \in Slot
                      /\ bookings[q].room = slot[q].room
                      /\ bookings[q].start = slot[q].start
                      /\ bookings[q].end = slot[q].end
                      /\ slot[q].start < slot[q].end

SeenIsDisjoint ==
    \A q \in Requests : \A r \in seen[q] :
        /\ pc[q] \notin {"idle", "check"}
        /\ bookings[r].status = "confirmed" => ~Overlaps(bookings[r], slot[q])

CheckInv == SeenIsStored /\ SlotIsKept /\ SeenIsDisjoint

LEMMA CheckInvInit == Init => CheckInv
  BY DEF Init, CheckInv, SeenIsStored, SlotIsKept, SeenIsDisjoint, Stored

\* Storing q's slot under a fresh key keeps what every check has seen.
LEMMA StoreKeepsCheck ==
    ASSUME TypeInv, CheckInv, NEW q \in Requests, pc[q] = "insert", Store(q),
           UNCHANGED <<slot, seen>>, pc'[q] \in {"saved", "error"},
           \A r \in Requests : r # q => pc'[r] = pc[r]
    PROVE  CheckInv'
<1>1. /\ slot[q] \in Slot
      /\ q \notin Stored
      /\ slot[q].start < slot[q].end
      /\ bookings \in [Requests -> Booking \cup {None}]
  BY DEF TypeInv, TypeOK, Underway
<1>2. /\ bookings'[q].room = slot[q].room
      /\ bookings'[q].start = slot[q].start
      /\ bookings'[q].end = slot[q].end
      /\ bookings'[q] \in Booking
  BY <1>1 DEF Store, Booking, Slot, TypeInv, Underway
<1>3. \A r \in Requests : r # q => bookings'[r] = bookings[r]
  BY <1>1 DEF Store
<1>4. Stored' = Stored \cup {q}
  BY <1>2, <1>3, NoBookingAssumption DEF Stored
<1>5. \A r \in Requests : q \notin seen[r]
  BY <1>1 DEF CheckInv, SeenIsStored
<1>6. SeenIsStored'
  BY <1>4 DEF CheckInv, SeenIsStored
<1>7. SlotIsKept'
  BY <1>1, <1>2, <1>3, <1>4 DEF CheckInv, SlotIsKept, Stored
<1>8. SeenIsDisjoint'
  BY <1>3, <1>5 DEF CheckInv, SeenIsStored, SeenIsDisjoint, Stored, Overlaps
<1> QED
  BY <1>6, <1>7, <1>8 DEF CheckInv

LEMMA CheckInvNext == TypeInv /\ CheckInv /\ [Next]_vars => CheckInv'
<1> SUFFICES ASSUME TypeInv, CheckInv, [Next]_vars PROVE CheckInv'
  OBVIOUS
<1> USE DEF CheckInv, SeenIsStored, SlotIsKept, SeenIsDisjoint
<1>1. ASSUME NEW q \in Requests, NEW s \in Slot, Request(q, s) PROVE CheckInv'
  <2>1. /\ q \notin Stored
        /\ seen[q] = {}
        /\ UNCHANGED <<bookings, seen>>
        /\ \A r \in Requests : r # q => slot'[r] = slot[r] /\ pc'[r] = pc[r]
    BY <1>1 DEF Request, Goto, TypeInv, TypeOK, Underway
  <2> QED
    BY <2>1 DEF Stored, Overlaps
<1>2. ASSUME NEW q \in Requests, Check(q) PROVE CheckInv'
  <2>1. /\ UNCHANGED <<bookings, slot>>
        /\ pc'[q] \notin {"idle", "check"}
        /\ \A r \in Requests : r # q => pc'[r] = pc[r] /\ seen'[r] = seen[r]
        /\ seen'[q] = seen[q] \/ (seen'[q] = Stored /\ ~Conflicts(q))
    BY <1>2 DEF Check, Goto, TypeInv, TypeOK
  <2>2. Stored' = Stored
    BY <2>1 DEF Stored
  <2> QED
    BY <2>1, <2>2 DEF Conflicts, Overlaps
<1>3. ASSUME NEW q \in Requests, Insert(q) \/ CommitUnknown(q) PROVE CheckInv'
  <2>1. /\ pc[q] = "insert" /\ Store(q)
        /\ UNCHANGED <<slot, seen>>
        /\ pc'[q] \in {"saved", "error"}
        /\ \A r \in Requests : r # q => pc'[r] = pc[r]
    BY <1>3 DEF Insert, CommitUnknown, Goto, TypeInv, TypeOK
  <2> QED
    BY <2>1, StoreKeepsCheck
<1>4. ASSUME NEW q \in Requests, Retry(q) \/ Confirm(q) \/ Crash(q) PROVE CheckInv'
  <2>1. /\ UNCHANGED <<bookings, slot, seen>>
        /\ \A r \in Requests : pc'[r] # pc[r] => pc'[r] \notin {"idle", "check"}
    BY <1>4 DEF Retry, Confirm, Crash, Goto, TypeInv, TypeOK
  <2> QED
    BY <2>1 DEF Stored, Overlaps
<1>5. ASSUME NEW q \in Requests, Cancel(q) PROVE CheckInv'
  <2>1. /\ UNCHANGED <<pc, slot, seen>>
        /\ bookings \in [Requests -> Booking \cup {None}]
        /\ q \in Stored
        /\ bookings' = [bookings EXCEPT ![q] = [bookings[q] EXCEPT !.status = "cancelled"]]
    BY <1>5 DEF Cancel, TypeInv, TypeOK
  <2>2. /\ bookings'[q].status = "cancelled"
        /\ bookings'[q].room = bookings[q].room
        /\ bookings'[q].start = bookings[q].start
        /\ bookings'[q].end = bookings[q].end
        /\ bookings'[q] \in Booking
        /\ \A r \in Requests : r # q => bookings'[r] = bookings[r]
    BY <2>1 DEF Stored, Booking
  <2>3. Stored' = Stored
    BY <2>1, <2>2, NoBookingAssumption DEF Stored
  <2> QED
    BY <2>1, <2>2, <2>3 DEF Stored, Overlaps
<1>6. CASE Tick \/ UNCHANGED vars
  BY <1>6 DEF Tick, vars, Stored, Overlaps
<1> QED
  BY <1>1, <1>2, <1>3, <1>4, <1>5, <1>6 DEF Next, Step, Collide, InsertFails

LEMMA CheckInvariant == Spec => []CheckInv
  BY TypeInvariant, CheckInvInit, CheckInvNext, PTL DEF Spec

\* Two confirmed bookings overlap only if neither overlap check could have seen
\* the other booking: find_overlapping followed by the insert prevents every
\* double booking but the race, through all retries and cancellations.
THEOREM OverlapNeedsRace == Spec => []OverlapOnlyByRace
<1>1. CheckInv => OverlapOnlyByRace
  BY DEF CheckInv, SlotIsKept, SeenIsDisjoint, OverlapOnlyByRace, Overlaps, Stored
<1> QED
  BY <1>1, CheckInvariant, PTL

\* A stored booking is a non-empty interval, visible to every later check.
THEOREM StoredSlotsAreReal == Spec => []StoredIsRealTime
<1>1. CheckInv => StoredIsRealTime
  BY DEF CheckInv, SlotIsKept, StoredIsRealTime, Overlaps
<1> QED
  BY <1>1, CheckInvariant, PTL

-----------------------------------------------------------------------------
LEMMA CodesNext == TypeInv /\ CodesAreUnique /\ [Next]_vars => CodesAreUnique'
<1> SUFFICES ASSUME TypeInv, CodesAreUnique, [Next]_vars PROVE CodesAreUnique'
  OBVIOUS
<1> USE DEF CodesAreUnique
<1>1. ASSUME NEW q \in Requests, Insert(q) \/ CommitUnknown(q) PROVE CodesAreUnique'
  <2>1. /\ ~CodeTaken(q)
        /\ bookings \in [Requests -> Booking \cup {None}]
        /\ bookings'[q].code = code[q]
        /\ \A r \in Requests : r # q => bookings'[r] = bookings[r]
    BY <1>1 DEF Insert, CommitUnknown, Store, TypeInv, TypeOK
  <2> QED
    BY <2>1 DEF CodeTaken, Stored
<1>2. ASSUME NEW q \in Requests, Cancel(q) PROVE CodesAreUnique'
  <2>1. /\ bookings \in [Requests -> Booking \cup {None}]
        /\ q \in Stored
        /\ bookings' = [bookings EXCEPT ![q] = [bookings[q] EXCEPT !.status = "cancelled"]]
    BY <1>2 DEF Cancel, TypeInv, TypeOK
  <2>2. \A r \in Requests : r \in Stored' => r \in Stored /\ bookings'[r].code = bookings[r].code
    BY <2>1 DEF Stored, Booking
  <2> QED
    BY <2>2 DEF Stored
<1>3. ASSUME UNCHANGED bookings PROVE CodesAreUnique'
  BY <1>3 DEF Stored
<1>4. ASSUME NEW q \in Requests, Check(q) \/ Retry(q) \/ Confirm(q) \/ Crash(q)
      PROVE  UNCHANGED bookings
  BY <1>4 DEF Check, Retry, Confirm, Crash
<1>5. ASSUME NEW q \in Requests, NEW s \in Slot, Request(q, s) PROVE UNCHANGED bookings
  BY <1>5 DEF Request
<1>6. CASE Tick \/ UNCHANGED vars
  BY <1>3, <1>6 DEF Tick, vars
<1> QED
  BY <1>1, <1>2, <1>3, <1>4, <1>5, <1>6 DEF Next, Step, Collide, InsertFails

\* An access code belongs to one booking for ever.
THEOREM UniqueCodes == Spec => []CodesAreUnique
<1>1. Init => CodesAreUnique
  BY DEF Init, CodesAreUnique, Stored
<1> QED
  BY <1>1, TypeInvariant, CodesNext, PTL DEF Spec

-----------------------------------------------------------------------------
\* What an answer says about the table: the inductive part of
\* AnswersAreHonest.  Only a rolled-back request is past its first attempt.
AnswerInv ==
    \A q \in Requests :
        /\ attempt[q] # 0 => q \in troubled
        /\ pc[q] = "rejected" => q \notin Stored
        /\ pc[q] \in {"saved", "done"} => q \in Stored
        /\ pc[q] = "error" /\ q \in Stored => q \in troubled

LEMMA AnswerInvNext == TypeInv /\ TypeInv' /\ AnswerInv /\ [Next]_vars => AnswerInv'
<1> SUFFICES ASSUME TypeInv, TypeInv', AnswerInv, [Next]_vars PROVE AnswerInv'
  OBVIOUS
<1> USE DEF AnswerInv, TypeInv, TypeOK, Goto
<1>1. ASSUME NEW q \in Requests, NEW s \in Slot, Request(q, s) PROVE AnswerInv'
  BY <1>1 DEF Request, Stored, Underway
<1>2. ASSUME NEW q \in Requests, Check(q) PROVE AnswerInv'
  <2>1. /\ pc[q] = "check" /\ q \notin Stored /\ UNCHANGED <<bookings, attempt, troubled>>
        /\ \E l \in {"rejected", "insert"} : pc' = [pc EXCEPT ![q] = l]
    BY <1>2 DEF Check, Underway
  <2> QED
    BY <2>1 DEF Stored
<1>3. ASSUME NEW q \in Requests, Insert(q) \/ CommitUnknown(q) PROVE AnswerInv'
  <2>1. /\ pc[q] = "insert" /\ UNCHANGED attempt
        /\ troubled \subseteq troubled'
        /\ \A r \in Requests \ {q} : pc'[r] = pc[r] /\ bookings'[r] = bookings[r]
    BY <1>3 DEF Insert, CommitUnknown, Store
  <2>2. bookings'[q] # None
    <3>1. bookings'[q] = [room |-> slot[q].room, start |-> slot[q].start,
                          end |-> slot[q].end, code |-> code[q], status |-> "confirmed"]
      BY <1>3 DEF Insert, CommitUnknown, Store
    <3>2. slot[q] \in Slot /\ code[q] \in Codes
      BY <2>1 DEF Underway
    <3> QED
      BY <3>1, <3>2, NoBookingAssumption DEF Slot, Booking
  <2>3. \/ pc'[q] = "saved"
        \/ pc'[q] = "error" /\ q \in troubled'
    BY <1>3 DEF Insert, CommitUnknown
  <2> QED
    BY <2>1, <2>2, <2>3 DEF Stored
<1>4. ASSUME NEW q \in Requests, Retry(q) PROVE AnswerInv'
  <2>1. /\ pc[q] = "insert" /\ UNCHANGED bookings /\ troubled' = troubled \cup {q}
        /\ \A r \in Requests \ {q} : pc'[r] = pc[r] /\ attempt'[r] = attempt[r]
        /\ pc'[q] \in {"insert", "error"}
    BY <1>4 DEF Retry
  <2> QED
    BY <2>1 DEF Stored
<1>5. ASSUME NEW q \in Requests, Confirm(q) \/ Crash(q) PROVE AnswerInv'
  BY <1>5 DEF Confirm, Crash, Stored
<1>6. ASSUME NEW q \in Requests, Cancel(q) PROVE AnswerInv'
  <2>1. /\ UNCHANGED <<pc, attempt, troubled>>
        /\ \A r \in Requests \ {q} : bookings'[r] = bookings[r]
        /\ bookings[q] \in Booking
        /\ bookings' = [bookings EXCEPT ![q] = [bookings[q] EXCEPT !.status = "cancelled"]]
    BY <1>6 DEF Cancel, Stored
  <2>2. bookings'[q] # None /\ bookings[q] # None
    <3>1. [bookings[q] EXCEPT !.status = "cancelled"] \in Booking
      BY <2>1 DEF Booking
    <3> QED
      BY <2>1, <3>1, NoBookingAssumption
  <2> QED
    BY <2>1, <2>2 DEF Stored
<1>7. CASE Tick
  BY <1>7 DEF Tick, Stored
<1>8. CASE UNCHANGED vars
  BY <1>8 DEF vars, Stored
<1> QED
  BY <1>1, <1>2, <1>3, <1>4, <1>5, <1>6, <1>7, <1>8 DEF Next, Step, Collide, InsertFails

\* create_booking's answers are honest, for any number of requests, collisions,
\* failed inserts, lost commits and crashes.
THEOREM HonestAnswers == Spec => []AnswersAreHonest
<1>1. Init => AnswerInv
  BY DEF Init, AnswerInv, Stored
<1>2. CheckInv /\ AnswerInv => AnswersAreHonest
  BY DEF CheckInv, SlotIsKept, AnswerInv, AnswersAreHonest
<1> QED
  BY <1>1, <1>2, TypeInvariant, CheckInvariant, AnswerInvNext, PTL DEF Spec
=============================================================================
