------------------------ MODULE LeadLifecycleProofs ------------------------
(***************************************************************************)
(* For any addresses, campaign, settings and number of concurrent          *)
(* captures, syncs and deliveries: the status columns of a lead tell the   *)
(* truth, a session fails only after a delete, and a synced lead is current *)
(* in the CRM unless its row was written under a session's copy.  The       *)
(* sessions implement the promise of LeadPromise.                          *)
(*                                                                         *)
(* The argument is about the copies: what holds of a stored row must hold  *)
(* of every copy that a session may still write back, column by column.    *)
(***************************************************************************)
EXTENDS LeadLifecycle, TLAPS

\* Where a session works on a lead it has loaded, and where it has set
\* attributes of it that are not written yet.
Working == {"saved", "mail", "viewing", "record", "record_viewing", "recorded",
            "viewed", "push", "second"}
Setting == {"record", "record_viewing", "second"}

\* StatusIsTrue of one row or copy.
Truthful(e, r) ==
    /\ r.crm = "synced" => r.contact
    /\ r.contact => contacts[e] # None
    /\ r.pack = "sent" => r.delivered # {}
    /\ r.delivered \subseteq mailed[r.id]

\* The CRM holds the details of r, if r says so.
UpToDate(e, r) ==
    r.crm = "synced" =>
        /\ contacts[e].info = r.info
        /\ r.pack = "sent" => contacts[e].collateral

RowOK(e) ==
    rows[e] # None =>
        /\ Truthful(e, rows[e])
        /\ rows[e].id <= submits
        /\ e \notin raced => UpToDate(e, rows[e])

SameRow(e, r) == rows[e] # None /\ rows[e].id = r.id

\* A copy is truthful, is behind the row in the two columns that only grow,
\* and is the row itself as long as nobody wrote under it.
Copy(e, r) ==
    /\ r \in Row
    /\ Truthful(e, r)
    /\ r.id <= submits
    /\ SameRow(e, r) => /\ r.contact => rows[e].contact
                        /\ r.delivered # {} => rows[e].delivered # {}
    /\ rows[e] # None /\ e \notin raced => r = rows[e]

BatchOK(s) ==
    \A e \in Emails : s.batch[e] # None =>
        Copy(e, s.batch[e]) /\ (s.lost \/ SameRow(e, s.batch[e]))

HasLead(s) ==
    /\ s.email \in Emails
    /\ s.camp \in Campaign
    /\ s.batch[s.email] = None
    /\ Copy(s.email, s.snap)
    /\ s.lost \/ SameRow(s.email, s.snap)

\* What a session has set: the truth, and only ever more than it had loaded.
NewOK(s) ==
    /\ s.new \in Row
    /\ Truthful(s.email, s.new)
    /\ s.new.id = s.snap.id
    /\ s.new.info = s.snap.info
    /\ s.snap.contact => s.new.contact
    /\ s.new.delivered # s.snap.delivered => s.new.delivered # {}
    /\ s.new.crm = "synced" /\ s.new.pack = "sent" => s.snap.pack = "sent"
    /\ rows[s.email] # None /\ s.email \notin raced => UpToDate(s.email, s.new)

\* A session about to turn to its lead.
Ready(s) == s \in Session /\ s.no = 0 /\ BatchOK(s) /\ HasLead(s)

Good(s) ==
    /\ s \in Session
    /\ BatchOK(s)
    /\ s.pc \in Working => s.no = 0 /\ HasLead(s)
    /\ s.pc \in Setting => NewOK(s)
    /\ s.pc = "mail" => Deliverable(s.snap, s.camp) # {}
    /\ s.pc \in {"save", "recover"} =>
            /\ s.no # 0 /\ s.batch = NoBatch
            /\ s.email \in Emails /\ s.req \in Payload /\ s.camp \in Campaign
    /\ s.pc = "save" /\ s.snap # None => HasLead(s)
    /\ s.pc = "recover" => s.snap = None /\ (s.lost \/ rows[s.email] # None)
    /\ s.pc \in {"idle", "next", "error"} => s.snap = None /\ s.no = 0
    /\ s.pc = "error" => s.lost

\* s holds a copy of the row with the id n.
UsesId(s, n) ==
    \/ s.snap # None /\ s.snap.id = n
    \/ \E e \in Emails : s.batch[e] # None /\ s.batch[e].id = n

\* The number of an open capture is nobody else's, and no row or copy has it.
Fresh ==
    \A w \in Workers : ses[w].no # 0 =>
        /\ ses[w].no <= submits
        /\ \A e \in Emails : rows[e] # None => rows[e].id # ses[w].no
        /\ \A v \in Workers : /\ ~UsesId(ses[v], ses[w].no)
                              /\ v # w => ses[v].no # ses[w].no

\* The inductive invariant.
LeadInv ==
    /\ TypeOK
    /\ Fresh
    /\ \A e \in Emails : RowOK(e)
    /\ \A w \in Workers : Good(ses[w])

-----------------------------------------------------------------------------
(* Sessions in a given state.                                               *)

LEMMA ClosedType == Closed \in Session /\ NoBatch \in [Emails -> Row \cup {None}]
  BY LeadAssumptions DEF Closed, Session, NoBatch, Labels_pc

LEMMA ClosedGood == Good(Closed)
<1>1. BatchOK(Closed)
  BY DEF BatchOK, Closed, NoBatch
<1>2. /\ Closed.pc = "idle" /\ Closed.snap = None /\ Closed.no = 0
  BY DEF Closed
<1> QED
  BY ClosedType, <1>1, <1>2 DEF Good, Working, Setting

LEMMA FailedGood ==
  ASSUME NEW t, t = [Closed EXCEPT !.pc = "error", !.lost = TRUE]
  PROVE  Good(t)
<1>1. t \in Session
  BY ClosedType DEF Session, Labels_pc
<1>2. /\ t.pc = "error" /\ t.snap = None /\ t.no = 0 /\ t.lost = TRUE
      /\ t.batch = NoBatch
  BY DEF Closed
<1>3. BatchOK(t)
  BY <1>2 DEF BatchOK, NoBatch
<1> QED
  BY <1>1, <1>2, <1>3 DEF Good, Working, Setting

\* A row that is loaded is a copy of itself.
LEMMA LoadedCopy ==
  ASSUME TypeOK, NEW e \in Emails, rows[e] # None, RowOK(e)
  PROVE  Copy(e, rows[e]) /\ SameRow(e, rows[e])
  BY DEF TypeOK, RowOK, Copy, SameRow

LEMMA DeliverPackGood ==
  ASSUME TypeOK, NEW s, Ready(s), RowOK(s.email)
  PROVE  Good(DeliverPack(s))
<1> DEFINE t == DeliverPack(s)
<1> SUFFICES Good(t)
  OBVIOUS
<1>s. /\ s \in Session /\ s.snap \in Row /\ s.camp \in Campaign /\ s.no = 0
      /\ s.email \in Emails
  BY DEF Ready, HasLead, Copy
<1>1. CASE Deliverable(s.snap, s.camp) # {} /\ settings.mail
  <2>1. t = [s EXCEPT !.pc = "mail"]
    BY <1>1 DEF DeliverPack
  <2>2. t \in Session
    BY <2>1, <1>s DEF Session, Labels_pc
  <2>3. /\ t.pc = "mail" /\ t.no = s.no /\ t.email = s.email /\ t.camp = s.camp
        /\ t.snap = s.snap /\ t.batch = s.batch /\ t.lost = s.lost
    BY <2>1, <1>s DEF Session
  <2> HIDE DEF t
  <2>4. BatchOK(t) /\ HasLead(t)
    BY <2>3 DEF Ready, BatchOK, HasLead
  <2> QED
    BY <1>s, <1>1, <2>2, <2>3, <2>4 DEF Good, Working, Setting
<1>2. CASE ~(Deliverable(s.snap, s.camp) # {} /\ settings.mail)
  <2> DEFINE n == Undeliverable(s.snap, s.camp)
  <2>1. t = [s EXCEPT !.pc = "record", !.new = n]
    BY <1>2 DEF DeliverPack
  <2>n. /\ n \in Row
        /\ n.id = s.snap.id /\ n.info = s.snap.info /\ n.contact = s.snap.contact
        /\ n.crm = s.snap.crm /\ n.delivered = s.snap.delivered
        /\ n.pack # "sent"
    BY <1>s DEF Undeliverable, Row, PackStatus
  <2> HIDE DEF n
  <2>2. t \in Session
    BY <2>1, <2>n, <1>s DEF Session, Labels_pc
  <2>3. /\ t.pc = "record" /\ t.no = s.no /\ t.email = s.email /\ t.camp = s.camp
        /\ t.snap = s.snap /\ t.batch = s.batch /\ t.lost = s.lost /\ t.new = n
    BY <2>1, <1>s DEF Session
  <2> HIDE DEF t
  <2>4. BatchOK(t) /\ HasLead(t)
    BY <2>3 DEF Ready, BatchOK, HasLead
  <2>5. Copy(s.email, s.snap)
    BY DEF Ready, HasLead
  <2>6. rows[s.email] # None /\ s.email \notin raced => UpToDate(s.email, n)
    BY <2>n, <2>5 DEF Copy, RowOK, UpToDate
  <2>7. NewOK(t)
    BY <2>3, <2>n, <2>5, <2>6 DEF NewOK, Copy, Truthful
  <2> QED
    BY <1>s, <2>2, <2>3, <2>4, <2>7 DEF Good, Working, Setting
<1> QED
  BY <1>1, <1>2

LEMMA SyncLeadGood ==
  ASSUME TypeOK, NEW s, Ready(s), RowOK(s.email), NEW a
  PROVE  Good(SyncLead(s, a))
<1> DEFINE t == SyncLead(s, a)
<1> SUFFICES Good(t)
  OBVIOUS
<1>s. /\ s \in Session /\ s.snap \in Row /\ s.camp \in Campaign /\ s.no = 0
      /\ s.email \in Emails
  BY DEF Ready, HasLead, Copy
<1>1. CASE settings.crm /\ a
  <2>1. t = [s EXCEPT !.pc = "push"]
    BY <1>1 DEF SyncLead
  <2>2. t \in Session
    BY <2>1, <1>s DEF Session, Labels_pc
  <2>3. /\ t.pc = "push" /\ t.no = s.no /\ t.email = s.email /\ t.camp = s.camp
        /\ t.snap = s.snap /\ t.batch = s.batch /\ t.lost = s.lost
    BY <2>1, <1>s DEF Session
  <2> HIDE DEF t
  <2>4. BatchOK(t) /\ HasLead(t)
    BY <2>3 DEF Ready, BatchOK, HasLead
  <2> QED
    BY <1>s, <1>1, <2>2, <2>3, <2>4 DEF Good, Working, Setting
<1>2. CASE ~(settings.crm /\ a)
  <2> DEFINE n == [s.snap EXCEPT !.crm = "skipped"]
  <2>1. t = [s EXCEPT !.pc = "record", !.new = n]
    BY <1>2 DEF SyncLead
  <2>n. /\ n \in Row
        /\ n.id = s.snap.id /\ n.info = s.snap.info /\ n.contact = s.snap.contact
        /\ n.crm = "skipped" /\ n.delivered = s.snap.delivered
        /\ n.pack = s.snap.pack
    BY <1>s DEF Row, CrmStatus
  <2> HIDE DEF n
  <2>2. t \in Session
    BY <2>1, <2>n, <1>s DEF Session, Labels_pc
  <2>3. /\ t.pc = "record" /\ t.no = s.no /\ t.email = s.email /\ t.camp = s.camp
        /\ t.snap = s.snap /\ t.batch = s.batch /\ t.lost = s.lost /\ t.new = n
    BY <2>1, <1>s DEF Session
  <2> HIDE DEF t
  <2>4. BatchOK(t) /\ HasLead(t)
    BY <2>3 DEF Ready, BatchOK, HasLead
  <2>5. Copy(s.email, s.snap)
    BY DEF Ready, HasLead
  <2>7. NewOK(t)
    BY <2>3, <2>n, <2>5 DEF NewOK, Copy, Truthful, UpToDate
  <2> QED
    BY <1>s, <2>2, <2>3, <2>4, <2>7 DEF Good, Working, Setting
<1> QED
  BY <1>1, <1>2

LEMMA AfterCaptureGood ==
  ASSUME NEW s, Ready(s)
  PROVE  Good(AfterCapture(s))
<1> DEFINE t == AfterCapture(s)
<1> SUFFICES Good(t)
  OBVIOUS
<1>1. CASE s.created /\ s.snap.inspection
  <2>1. t = [s EXCEPT !.pc = "viewing"]
    BY <1>1 DEF AfterCapture
  <2>2. t \in Session
    BY <2>1 DEF Ready, Session, Labels_pc
  <2>3. /\ t.pc = "viewing" /\ t.no = s.no /\ t.email = s.email /\ t.camp = s.camp
        /\ t.snap = s.snap /\ t.batch = s.batch /\ t.lost = s.lost
    BY <2>1 DEF Ready, Session
  <2> HIDE DEF t
  <2>4. t.no = 0 /\ BatchOK(t) /\ HasLead(t)
    BY <2>3 DEF Ready, BatchOK, HasLead
  <2> QED
    BY <2>2, <2>3, <2>4 DEF Good, Working, Setting
<1>2. CASE ~(s.created /\ s.snap.inspection)
  BY <1>2, ClosedGood DEF AfterCapture
<1> QED
  BY <1>1, <1>2

LEMMA WorkReady ==
  ASSUME TypeOK, NEW s, Good(s), s.pc = "next",
         NEW e \in Emails, s.batch[e] # None
  PROVE  Ready(Work(s, e))
<1> DEFINE b == [s.batch EXCEPT ![e] = None]
           c == IF s.camp = None THEN campaign ELSE s.camp
           t == Work(s, e)
<1>s. s \in Session /\ s.batch \in [Emails -> Row \cup {None}] /\ s.no = 0
  BY DEF Good, Session
<1>b. b \in [Emails -> Row \cup {None}] /\ c \in Campaign /\ s.batch[e] \in Row
  BY <1>s DEF TypeOK, Session
<1>1. t = [s EXCEPT !.email = e, !.snap = s.batch[e], !.batch = b, !.camp = c]
  BY <1>s DEF Work, Session
<1>2. t \in Session
  BY <1>s, <1>b, <1>1 DEF Session
<1>3. /\ t.email = e /\ t.snap = s.batch[e] /\ t.batch = b /\ t.camp = c
      /\ t.no = 0 /\ t.lost = s.lost
  BY <1>s, <1>1 DEF Session
<1>4. \A f \in Emails : t.batch[f] # None => f # e /\ t.batch[f] = s.batch[f]
  BY <1>s, <1>3
<1>5. t.batch[e] = None
  BY <1>s, <1>3
<1> HIDE DEF t, b, c
<1>6. BatchOK(s)
  BY DEF Good
<1>7. BatchOK(t)
  BY <1>3, <1>4, <1>6 DEF BatchOK
<1>8. HasLead(t)
  BY <1>b, <1>3, <1>5, <1>6 DEF BatchOK, HasLead
<1> QED
  BY <1>2, <1>3, <1>7, <1>8 DEF Ready, t

-----------------------------------------------------------------------------
(* Steps that write no row: what the CRM and the mail provider hold grows.  *)

Pushed(r) == [info |-> r.info, collateral |-> r.pack = "sent"]

Quiet ==
    /\ rows' = rows /\ raced' = raced
    /\ submits' \in 0 .. MaxSubmits /\ submits <= submits'
    /\ mailed' \in [Ids -> SUBSET Labels]
    /\ \A i \in Ids : mailed[i] \subseteq mailed'[i]
    /\ contacts' \in [Emails -> Contact \cup {None}]
    /\ \A e \in Emails :
        \/ contacts'[e] = contacts[e]
        \/ /\ contacts'[e] # None
           /\ rows[e] # None /\ e \notin raced => contacts'[e] = Pushed(rows[e])

LEMMA PushedFields ==
  ASSUME NEW r
  PROVE  Pushed(r).info = r.info /\ (r.pack = "sent" => Pushed(r).collateral)
  BY DEF Pushed

LEMMA TruthfulQuiet ==
  ASSUME TypeOK, Quiet, NEW e \in Emails, NEW r \in Row, Truthful(e, r)
  PROVE  Truthful(e, r)'
<1>1. r.id \in Ids
  BY DEF Row
<1>2. mailed[r.id] \subseteq mailed'[r.id] /\ (contacts[e] # None => contacts'[e] # None)
  BY <1>1 DEF Quiet
<1> QED
  BY <1>2 DEF Truthful

LEMMA RowQuiet ==
  ASSUME TypeOK, Quiet, NEW e \in Emails, RowOK(e)
  PROVE  RowOK(e)'
<1> SUFFICES ASSUME rows[e] # None PROVE RowOK(e)'
  BY DEF Quiet, RowOK
<1>1. rows[e] \in Row /\ rows' = rows /\ raced' = raced
  BY DEF TypeOK, Quiet
<1>2. Truthful(e, rows[e])'
  BY <1>1, TruthfulQuiet DEF RowOK
<1>3. (rows[e].id <= submits)'
  BY <1>1 DEF RowOK, Quiet, TypeOK, Row, Ids
<1>4. ASSUME e \notin raced PROVE UpToDate(e, rows[e])'
  <2>1. contacts'[e] = contacts[e] \/ contacts'[e] = Pushed(rows[e])
    BY <1>4 DEF Quiet
  <2> QED
    BY <1>1, <1>4, <2>1, PushedFields DEF RowOK, UpToDate
<1> QED
  BY <1>1, <1>2, <1>3, <1>4 DEF RowOK

LEMMA CopyQuiet ==
  ASSUME TypeOK, Quiet, NEW e \in Emails, NEW r, Copy(e, r)
  PROVE  Copy(e, r)'
<1>1. r \in Row /\ rows' = rows /\ raced' = raced
  BY DEF Quiet, Copy
<1>2. Truthful(e, r)'
  BY <1>1, TruthfulQuiet DEF Copy
<1>3. (r.id <= submits)'
  BY <1>1 DEF Copy, Quiet, TypeOK, Row, Ids
<1> QED
  BY <1>1, <1>2, <1>3 DEF Copy, SameRow

LEMMA LeadQuiet ==
  ASSUME TypeOK, Quiet, NEW s
  PROVE  /\ BatchOK(s) => BatchOK(s)'
         /\ HasLead(s) => HasLead(s)'
<1>1. \A e \in Emails : \A r : SameRow(e, r) => SameRow(e, r)'
  BY DEF SameRow, Quiet
<1>2. \A e \in Emails : \A r : Copy(e, r) => Copy(e, r)'
  BY CopyQuiet
<1>3. BatchOK(s) => BatchOK(s)'
  BY <1>1, <1>2 DEF BatchOK
<1>4. HasLead(s) => HasLead(s)'
  BY <1>1, <1>2 DEF HasLead
<1> QED
  BY <1>3, <1>4

LEMMA NewQuiet ==
  ASSUME TypeOK, Quiet, NEW s, HasLead(s), NewOK(s)
  PROVE  NewOK(s)'
<1>1. s.new \in Row /\ s.email \in Emails /\ rows' = rows /\ raced' = raced
  BY DEF Quiet, NewOK, HasLead
<1>2. Truthful(s.email, s.new)'
  BY <1>1, TruthfulQuiet DEF NewOK
<1>3. ASSUME rows[s.email] # None, s.email \notin raced
      PROVE  UpToDate(s.email, s.new)'
  <2>1. rows[s.email] = s.snap
    BY <1>3 DEF HasLead, Copy
  <2>2. UpToDate(s.email, s.new)
    BY <1>3 DEF NewOK
  <2>3. contacts'[s.email] = contacts[s.email] \/ contacts'[s.email] = Pushed(s.snap)
    BY <1>1, <1>3, <2>1 DEF Quiet
  <2> QED
    BY <1>1, <2>2, <2>3, PushedFields DEF UpToDate, NewOK
<1> QED
  BY <1>1, <1>2, <1>3 DEF NewOK

LEMMA GoodQuiet ==
  ASSUME TypeOK, Quiet, NEW s, Good(s)
  PROVE  Good(s)'
<1>1. /\ BatchOK(s)'
      /\ HasLead(s) => HasLead(s)'
      /\ HasLead(s) /\ NewOK(s) => NewOK(s)'
      /\ rows' = rows
  BY LeadQuiet, NewQuiet DEF Good, Quiet
<1> QED
  BY <1>1 DEF Good, Working, Setting

\* Every id that t knows, s knew or a row has.
IdsFrom(s, t) ==
    /\ t.no \in {0, s.no}
    /\ \A n \in Ids : UsesId(t, n) =>
        UsesId(s, n) \/ \E e \in Emails : rows[e] # None /\ rows[e].id = n

LEMMA IdsFromClosed ==
  ASSUME NEW s, NEW t, t.no = 0, t.snap = None, t.batch = NoBatch
  PROVE  IdsFrom(s, t)
  BY DEF IdsFrom, UsesId, NoBatch

LEMMA IdsFromSnap ==
  ASSUME NEW s, NEW t, t.no \in {0, s.no}, t.snap = s.snap, t.batch = s.batch
  PROVE  IdsFrom(s, t)
  BY DEF IdsFrom, UsesId

LEMMA IdsFromRow ==
  ASSUME NEW s, NEW t, t.no \in {0, s.no}, t.batch = s.batch,
         NEW e \in Emails, t.snap = rows[e]
  PROVE  IdsFrom(s, t)
  BY DEF IdsFrom, UsesId

LEMMA FreshQuiet ==
  ASSUME LeadInv, Quiet, NEW w \in Workers, NEW t,
         ses' = [ses EXCEPT ![w] = t], IdsFrom(ses[w], t)
  PROVE  Fresh'
<1>1. /\ ses \in [Workers -> Session] /\ rows' = rows
      /\ ses'[w] = t /\ \A v \in Workers \ {w} : ses'[v] = ses[v]
      /\ submits \in Nat /\ submits' \in Nat /\ submits <= submits'
      /\ \A v \in Workers : ses[v].no \in Nat
  BY LeadAssumptions DEF LeadInv, TypeOK, Quiet, Session
<1>2. ASSUME NEW v \in Workers, ses'[v].no # 0
      PROVE  ses'[v].no = ses[v].no
  BY <1>1, <1>2 DEF IdsFrom
<1>3. ASSUME NEW v \in Workers, ses'[v].no # 0
      PROVE  /\ ses'[v].no <= submits'
             /\ \A e \in Emails : rows'[e] # None => rows'[e].id # ses'[v].no
  BY <1>1, <1>2, <1>3 DEF LeadInv, Fresh
<1>4. ASSUME NEW v \in Workers, ses'[v].no # 0, NEW u \in Workers
      PROVE  ~UsesId(ses'[u], ses'[v].no)
  <2> DEFINE n == ses[v].no
  <2>1. n # 0 /\ n <= submits /\ n \in Nat /\ ses'[v].no = n
    BY <1>1, <1>2, <1>4 DEF LeadInv, Fresh
  <2>2. n \in Ids
    BY <2>1, LeadAssumptions DEF LeadInv, TypeOK, Ids
  <2>3. ~UsesId(ses[u], n) /\ ~\E e \in Emails : rows[e] # None /\ rows[e].id = n
    BY <2>1 DEF LeadInv, Fresh
  <2>4. ~UsesId(ses'[u], n)
    BY <1>1, <2>2, <2>3 DEF IdsFrom
  <2> QED
    BY <2>1, <2>4
<1>5. ASSUME NEW v \in Workers, ses'[v].no # 0, NEW u \in Workers, u # v
      PROVE  ses'[u].no # ses'[v].no
  BY <1>1, <1>2, <1>5 DEF LeadInv, Fresh
<1> QED
  BY <1>3, <1>4, <1>5 DEF Fresh, UsesId

\* A step of one session that writes no row keeps the invariant.
LEMMA SessionStep ==
  ASSUME LeadInv, Quiet, NEW w \in Workers, NEW t, Continue(w, t),
         Good(t)', Fresh', UNCHANGED config,
         seconds' \subseteq Emails, faults' \in 0 .. MaxFaults,
         staff' \in 0 .. MaxStaff
  PROVE  LeadInv'
<1>1. ses' = [ses EXCEPT ![w] = t] /\ ses \in [Workers -> Session] /\ t \in Session
  BY DEF Continue, LeadInv, TypeOK, Good
<1>2. TypeOK'
  BY <1>1 DEF LeadInv, TypeOK, Quiet, config
<1>4. \A e \in Emails : RowOK(e)'
  BY RowQuiet DEF LeadInv
<1>5. ASSUME NEW v \in Workers PROVE Good(ses[v])'
  <2>1. CASE v = w
    BY <1>1, <2>1
  <2>2. CASE v # w
    <3>1. ses'[v] = ses[v]
      BY <1>1, <2>2
    <3>2. Good(ses[v]) /\ TypeOK
      BY DEF LeadInv
    <3>3. \A s : Good(s) => Good(s)'
      BY <3>2, GoodQuiet
    <3> QED
      BY <3>1, <3>2, <3>3
  <2> QED
    BY <2>1, <2>2
<1> QED
  BY <1>2, <1>4, <1>5 DEF LeadInv

-----------------------------------------------------------------------------
(* Steps that write a row.                                                  *)

\* s relies on e's row (Holds, of a session).
Relies(s, e) ==
    \/ s.email = e /\ (s.snap # None \/ s.pc = "recover")
    \/ s.batch[e] # None

\* The row of e becomes r: its successor, or a row where there was none.
Writes(e, r) ==
    /\ rows' = [rows EXCEPT ![e] = r]
    /\ r \in Row
    /\ raced \subseteq raced' /\ raced' \subseteq raced \cup {e}
    /\ UNCHANGED <<contacts, mailed, submits>>
    /\ rows[e] # None => /\ r.id = rows[e].id
                         /\ rows[e].contact => r.contact
                         /\ rows[e].delivered # {} => r.delivered # {}

LEMMA CopyWrites ==
  ASSUME TypeOK, NEW e \in Emails, NEW r, Writes(e, r),
         NEW f \in Emails, NEW q, Copy(f, q),
         f = e => e \in raced',
         f = e /\ rows[e] = None => q.id # r.id
  PROVE  Copy(f, q)'
<1>1. q \in Row /\ Truthful(f, q)' /\ (q.id <= submits)'
  BY DEF Copy, Truthful, Writes
<1>2. CASE f # e
  <2>1. rows'[f] = rows[f] /\ (f \in raced <=> f \in raced')
    BY <1>2 DEF TypeOK, Writes
  <2> QED
    BY <1>1, <2>1 DEF Copy, SameRow
<1>3. CASE f = e
  <2>1. rows'[f] = r /\ f \in raced'
    BY <1>3 DEF TypeOK, Writes
  <2>2. ASSUME r.id = q.id
        PROVE  (q.contact => r.contact) /\ (q.delivered # {} => r.delivered # {})
    BY <1>3, <2>2 DEF Copy, SameRow, Writes
  <2> QED
    BY <1>1, <2>1, <2>2 DEF Copy, SameRow
<1> QED
  BY <1>2, <1>3

LEMMA GoodWrites ==
  ASSUME TypeOK, NEW e \in Emails, NEW r, Writes(e, r), NEW s, Good(s),
         Relies(s, e) => e \in raced',
         rows[e] = None => ~UsesId(s, r.id)
  PROVE  Good(s)'
<1>1. \A f \in Emails : rows[f] # None => rows'[f] # None /\ rows'[f].id = rows[f].id
  BY NoneAssumption DEF TypeOK, Writes
<1>2. \A f \in Emails : \A q : SameRow(f, q) => SameRow(f, q)'
  BY <1>1 DEF SameRow
<1>3. \A f \in Emails, q \in Row :
        /\ Copy(f, q)
        /\ f = e => e \in raced'
        /\ f = e /\ rows[e] = None => q.id # r.id
        => Copy(f, q)'
  BY CopyWrites
<1>4. BatchOK(s)'
  <2>1. SUFFICES ASSUME NEW f \in Emails, s.batch[f] # None
                 PROVE  Copy(f, s.batch[f])' /\ (s.lost \/ SameRow(f, s.batch[f])')
    BY DEF BatchOK
  <2>2. Copy(f, s.batch[f]) /\ (s.lost \/ SameRow(f, s.batch[f])) /\ s.batch[f] \in Row
    BY <2>1 DEF Good, BatchOK, Copy
  <2>3. f = e => e \in raced'
    BY <2>1 DEF Relies
  <2>4. f = e /\ rows[e] = None => s.batch[f].id # r.id
    BY <2>1 DEF UsesId
  <2> QED
    BY <2>2, <2>3, <2>4, <1>2, <1>3
<1>5. ASSUME s.snap # None, HasLead(s) PROVE HasLead(s)'
  <2>2. /\ Copy(s.email, s.snap) /\ (s.lost \/ SameRow(s.email, s.snap))
        /\ s.snap \in Row /\ s.email \in Emails
    BY <1>5 DEF HasLead, Copy
  <2>3. s.email = e => e \in raced'
    BY <1>5 DEF Relies
  <2>4. s.email = e /\ rows[e] = None => s.snap.id # r.id
    BY <1>5 DEF UsesId
  <2>5. Copy(s.email, s.snap)'
    BY <2>2, <2>3, <2>4, <1>3
  <2> QED
    BY <1>2, <1>5, <2>2, <2>5 DEF HasLead
<1>6. ASSUME HasLead(s), NewOK(s), s.snap # None PROVE NewOK(s)'
  <2>1. s.email \in Emails /\ Truthful(s.email, s.new)'
    BY <1>6 DEF HasLead, NewOK, Truthful, Writes
  <2>2. s.email \notin raced' => s.email \notin raced /\ rows'[s.email] = rows[s.email]
    BY <1>6, <2>1 DEF Relies, Writes, TypeOK
  <2>3. rows'[s.email] # None /\ s.email \notin raced' => UpToDate(s.email, s.new)'
    BY <1>6, <2>2 DEF NewOK, UpToDate, Writes
  <2> QED
    BY <1>6, <2>1, <2>3 DEF NewOK
<1>7. HasLead(s) => s.snap # None
  BY NoneAssumption DEF HasLead, Copy
<1> QED
  BY <1>1, <1>4, <1>5, <1>6, <1>7 DEF Good, Working, Setting

\* The session w has written r over e's row, and remembers it as t does.
OwnWrite(w, e, r, t) ==
    /\ WriteRow(w, e, r) /\ Continue(w, t) /\ UNCHANGED <<outside, config, bounds>>
    /\ Writes(e, r)
    /\ rows[e] = None => r.id = ses[w].no /\ ses[w].no # 0
    /\ t \in Session /\ t.pc \in {"saved", "recorded", "viewed"}
    /\ t.no = 0 /\ t.email = e /\ t.camp \in Campaign
    /\ t.batch = ses[w].batch /\ t.batch[e] = None /\ t.lost = ses[w].lost
    /\ t.snap \in Row
    /\ Truthful(e, t.snap)
    /\ t.snap.id = r.id
    /\ t.snap.contact => r.contact
    /\ t.snap.delivered # {} => r.delivered # {}
    /\ e \notin raced' => t.snap = r /\ UpToDate(e, r)
    /\ Truthful(e, r)
    /\ r.id <= submits

LEMMA OwnWriteGood ==
  ASSUME LeadInv, NEW w \in Workers, NEW e \in Emails, NEW r, NEW t,
         OwnWrite(w, e, r, t)
  PROVE  Good(t)'
<1>1. rows'[e] = r /\ r \in Row /\ r # None
  BY NoneAssumption DEF OwnWrite, Writes, LeadInv, TypeOK
<1>2. /\ t.pc \in {"saved", "recorded", "viewed"} /\ t.no = 0 /\ t.email = e
      /\ t \in Session /\ t.camp \in Campaign /\ t.batch[e] = None /\ t.snap \in Row
  BY DEF OwnWrite
<1>3. Copy(e, t.snap)' /\ SameRow(e, t.snap)'
  <2>1. Truthful(e, t.snap)' /\ (t.snap.id <= submits)'
    BY DEF OwnWrite, Writes, Truthful
  <2> QED
    BY <1>1, <1>2, <2>1 DEF Copy, SameRow, OwnWrite
<1>4. BatchOK(t)'
  <2>1. SUFFICES ASSUME NEW f \in Emails, t.batch[f] # None
                 PROVE  Copy(f, t.batch[f])' /\ (t.lost \/ SameRow(f, t.batch[f])')
    BY DEF BatchOK
  <2>2. f # e /\ t.batch[f] = ses[w].batch[f] /\ t.lost = ses[w].lost
    BY <2>1 DEF OwnWrite
  <2>3. BatchOK(ses[w]) /\ TypeOK
    BY DEF LeadInv, Good
  <2>4. Copy(f, t.batch[f]) /\ (t.lost \/ SameRow(f, t.batch[f]))
    BY <2>1, <2>2, <2>3 DEF BatchOK
  <2>5. Copy(f, t.batch[f])'
    BY <2>2, <2>3, <2>4, CopyWrites DEF OwnWrite
  <2>6. SameRow(f, t.batch[f]) => SameRow(f, t.batch[f])'
    BY <2>2, <2>3 DEF SameRow, OwnWrite, Writes, TypeOK
  <2> QED
    BY <2>4, <2>5, <2>6
<1>5. HasLead(t)'
  BY <1>2, <1>3 DEF HasLead
<1> QED
  BY <1>2, <1>4, <1>5 DEF Good, Working, Setting

LEMMA OwnWriteFresh ==
  ASSUME LeadInv, NEW w \in Workers, NEW e \in Emails, NEW r, NEW t,
         OwnWrite(w, e, r, t)
  PROVE  Fresh'
<1>1. /\ ses \in [Workers -> Session] /\ rows \in [Emails -> Row \cup {None}]
      /\ ses'[w] = t /\ \A v \in Workers \ {w} : ses'[v] = ses[v]
      /\ rows'[e] = r /\ \A f \in Emails \ {e} : rows'[f] = rows[f]
      /\ submits' = submits
  BY DEF LeadInv, TypeOK, OwnWrite, Continue, Writes
<1>2. \/ r.id = ses[w].no /\ ses[w].no # 0
      \/ rows[e] # None /\ r.id = rows[e].id
  BY DEF OwnWrite, Writes
<1>3. SUFFICES ASSUME NEW v \in Workers, ses'[v].no # 0
      PROVE  /\ ses'[v].no <= submits'
             /\ \A f \in Emails : rows'[f] # None => rows'[f].id # ses'[v].no
             /\ \A u \in Workers : /\ ~UsesId(ses'[u], ses'[v].no)
                                   /\ u # v => ses'[u].no # ses'[v].no
  BY DEF Fresh, UsesId
<1>4. v # w /\ ses'[v].no = ses[v].no
  BY <1>1, <1>3 DEF OwnWrite
<1> DEFINE n == ses[v].no
<1>5. /\ n # 0 /\ n <= submits
      /\ \A f \in Emails : rows[f] # None => rows[f].id # n
      /\ \A u \in Workers : ~UsesId(ses[u], n) /\ (u # v => ses[u].no # n)
  BY <1>3, <1>4 DEF LeadInv, Fresh
<1>6. r.id # n
  BY <1>2, <1>4, <1>5
<1>7. ~UsesId(t, n)
  <2>1. t.snap.id = r.id /\ t.batch = ses[w].batch /\ ~UsesId(ses[w], n)
    BY <1>5 DEF OwnWrite
  <2> QED
    BY <1>6, <2>1 DEF UsesId
<1>8. t.no # n
  BY <1>5 DEF OwnWrite
<1> QED
  BY <1>1, <1>4, <1>5, <1>6, <1>7, <1>8

LEMMA OwnWriteStep ==
  ASSUME LeadInv, NEW w \in Workers, NEW e \in Emails, NEW r, NEW t,
         OwnWrite(w, e, r, t)
  PROVE  LeadInv'
<1>1. /\ ses' = [ses EXCEPT ![w] = t] /\ t \in Session
      /\ rows' = [rows EXCEPT ![e] = r] /\ r \in Row
  BY DEF OwnWrite, Continue, Writes
<1>2. TypeOK'
  BY <1>1 DEF LeadInv, TypeOK, OwnWrite, Writes, outside, config, bounds
<1>3. ASSUME NEW f \in Emails PROVE RowOK(f)'
  <2>1. CASE f = e
    <3>1. rows'[e] = r
      BY <1>1 DEF LeadInv, TypeOK
    <3>2. Truthful(e, r)' /\ (r.id <= submits)' /\ (e \notin raced' => UpToDate(e, r)')
      BY DEF OwnWrite, Writes, Truthful, UpToDate
    <3> QED
      BY <2>1, <3>1, <3>2 DEF RowOK
  <2>2. CASE f # e
    <3>1. rows'[f] = rows[f] /\ (f \in raced => f \in raced')
      BY <1>1, <2>2 DEF LeadInv, TypeOK, OwnWrite, Writes
    <3>2. RowOK(f)
      BY DEF LeadInv
    <3> QED
      BY <3>1, <3>2 DEF RowOK, OwnWrite, Writes, Truthful, UpToDate
  <2> QED
    BY <2>1, <2>2
<1>4. ASSUME NEW v \in Workers PROVE Good(ses[v])'
  <2>1. CASE v = w
    <3>1. ses'[v] = t
      BY <1>1, <2>1 DEF LeadInv, TypeOK
    <3> QED
      BY <3>1, OwnWriteGood
  <2>2. CASE v # w
    <3>1. ses'[v] = ses[v] /\ Good(ses[v]) /\ TypeOK /\ Writes(e, r)
      BY <1>1, <2>2 DEF LeadInv, TypeOK, OwnWrite
    <3>2. Relies(ses[v], e) => e \in raced'
      BY <2>2 DEF OwnWrite, WriteRow, Holds, Relies
    <3>3. rows[e] = None => ~UsesId(ses[v], r.id)
      BY DEF LeadInv, Fresh, OwnWrite
    <3>4. \A s : /\ Good(s)
                 /\ Relies(s, e) => e \in raced'
                 /\ rows[e] = None => ~UsesId(s, r.id)
                 => Good(s)'
      BY <3>1, GoodWrites
    <3> QED
      BY <3>1, <3>2, <3>3, <3>4
  <2> QED
    BY <2>1, <2>2
<1> QED
  BY <1>2, <1>3, <1>4, OwnWriteFresh DEF LeadInv

-----------------------------------------------------------------------------
(* The UPDATE of the changed columns.                                       *)

LEMMA MergeColumns ==
  ASSUME NEW p \in Row, NEW q \in Row, NEW r \in Row, NEW m, m = Merge(p, q, r)
  PROVE  /\ m.id = IF r.id # q.id THEN r.id ELSE p.id
         /\ m.contact = IF r.contact # q.contact THEN r.contact ELSE p.contact
         /\ m.crm = IF r.crm # q.crm THEN r.crm ELSE p.crm
         /\ m.pack = IF r.pack # q.pack THEN r.pack ELSE p.pack
         /\ m.delivered = IF r.delivered # q.delivered THEN r.delivered ELSE p.delivered
  BY DEF Merge, Row

LEMMA MergeRow ==
  ASSUME NEW p \in Row, NEW q \in Row, NEW r \in Row
  PROVE  Merge(p, q, r) \in Row /\ Merge(p, p, r) = r
  BY DEF Merge, Row

\* A session writes back what it has set on a copy of the row: the row that
\* results is truthful although its columns come from two places.
LEMMA MergeTrue ==
  ASSUME TypeOK, NEW e \in Emails, RowOK(e), NEW q, Copy(e, q), SameRow(e, q),
         NEW r \in Row, Truthful(e, r), r.id = q.id, q.contact => r.contact,
         r.delivered # q.delivered => r.delivered # {},
         NEW m, m = Merge(rows[e], q, r)
  PROVE  /\ m \in Row
         /\ m.id = rows[e].id /\ m.id = r.id
         /\ Truthful(e, m)
         /\ rows[e].contact => m.contact
         /\ rows[e].delivered # {} => m.delivered # {}
         /\ r.contact => m.contact
         /\ r.delivered # {} => m.delivered # {}
         /\ e \notin raced => m = r
<1>1. rows[e] \in Row /\ q \in Row /\ rows[e] # None
  BY DEF TypeOK, Copy, SameRow
<1>2. /\ m.id = IF r.id # q.id THEN r.id ELSE rows[e].id
      /\ m.contact = IF r.contact # q.contact THEN r.contact ELSE rows[e].contact
      /\ m.crm = IF r.crm # q.crm THEN r.crm ELSE rows[e].crm
      /\ m.pack = IF r.pack # q.pack THEN r.pack ELSE rows[e].pack
      /\ m.delivered = IF r.delivered # q.delivered THEN r.delivered ELSE rows[e].delivered
  BY <1>1, MergeColumns
<1>3. m \in Row
  BY <1>1, MergeRow
<1>4. m.id = rows[e].id /\ m.id = r.id
  BY <1>2 DEF SameRow
<1>5. /\ rows[e].contact => m.contact
      /\ r.contact => m.contact
  <2>1. q.contact => rows[e].contact
    BY DEF Copy
  <2>2. /\ q.contact \in BOOLEAN /\ r.contact \in BOOLEAN /\ rows[e].contact \in BOOLEAN
    BY <1>1 DEF Row
  <2>3. m.contact = IF r.contact # q.contact THEN r.contact ELSE rows[e].contact
    BY <1>2
  <2> QED
    BY <2>1, <2>2, <2>3
<1>6. /\ rows[e].delivered # {} => m.delivered # {}
      /\ r.delivered # {} => m.delivered # {}
  BY <1>2 DEF Copy
<1>7. Truthful(e, m)
  <2>1. Truthful(e, rows[e])
    BY <1>1 DEF RowOK
  <2>2. m.crm = "synced" => m.contact
    BY <1>2, <1>5, <2>1 DEF Truthful
  <2>3. m.contact => contacts[e] # None
    BY <1>2, <2>1 DEF Truthful
  <2>4. m.pack = "sent" => m.delivered # {}
    BY <1>2, <1>6, <2>1 DEF Truthful
  <2>5. m.delivered \subseteq mailed[m.id]
    BY <1>2, <1>4, <2>1 DEF Truthful
  <2> QED
    BY <2>2, <2>3, <2>4, <2>5 DEF Truthful
<1>8. ASSUME e \notin raced PROVE m = r
  BY <1>1, <1>8, MergeRow DEF Copy
<1> QED
  BY <1>3, <1>4, <1>5, <1>6, <1>7, <1>8

-----------------------------------------------------------------------------
(* The actions that write no row.                                           *)

\* What the steps below leave alone.
Still == UNCHANGED <<rows, contacts, mailed, submits, raced>>

LEMMA StillQuiet == ASSUME TypeOK, Still PROVE Quiet
  BY DEF TypeOK, Still, Quiet

\* A session step that leaves tables and services alone.
LEMMA StillStep ==
  ASSUME LeadInv, NEW w \in Workers, NEW t, Continue(w, t), Good(t),
         IdsFrom(ses[w], t), Still, UNCHANGED config, seconds' \subseteq Emails,
         faults' \in 0 .. MaxFaults, staff' \in 0 .. MaxStaff
  PROVE  LeadInv'
<1>1. TypeOK /\ Quiet
  BY StillQuiet DEF LeadInv
<1>2. Good(t)'
  BY <1>1, GoodQuiet
<1>3. Fresh'
  BY <1>1, FreshQuiet DEF Continue
<1> QED
  BY <1>1, <1>2, <1>3, SessionStep

LEMMA BoundsKept ==
  ASSUME LeadInv
  PROVE  /\ UNCHANGED seconds => seconds' \subseteq Emails
         /\ UNCHANGED faults => faults' \in 0 .. MaxFaults
         /\ UNCHANGED staff => staff' \in 0 .. MaxStaff
         /\ faults < MaxFaults /\ faults' = faults + 1 => faults' \in 0 .. MaxFaults
         /\ StaffStep => staff' \in 0 .. MaxStaff
  BY LeadAssumptions DEF LeadInv, TypeOK, StaffStep

\* Closing a session, in the right order or by an error after a delete.
LEMMA CloseStep ==
  ASSUME LeadInv, NEW w \in Workers, Close(w), Quiet, UNCHANGED config,
         seconds' \subseteq Emails, faults' \in 0 .. MaxFaults,
         staff' \in 0 .. MaxStaff
  PROVE  LeadInv'
<1>1. IdsFrom(ses[w], Closed)
  BY IdsFromClosed DEF Closed
<1>2. TypeOK
  BY DEF LeadInv
<1>3. Good(Closed)'
  BY <1>2, ClosedGood, GoodQuiet
<1>4. Fresh'
  BY <1>1, FreshQuiet DEF Close, Continue
<1> QED
  BY <1>3, <1>4, SessionStep DEF Close

LEMMA FailStep ==
  ASSUME LeadInv, NEW w \in Workers, Fail(w), ses[w].lost,
         UNCHANGED <<rows, outside, config, bounds, raced>>
  PROVE  LeadInv'
<1> DEFINE t == [Closed EXCEPT !.pc = "error", !.lost = ses[w].lost]
<1>1. ses[w].lost = TRUE
  BY DEF LeadInv, TypeOK, Session
<1>2. Good(t)
  BY <1>1, FailedGood
<1>3. t.no = 0 /\ t.snap = None /\ t.batch = NoBatch
  BY DEF Closed
<1>4. Continue(w, t) /\ Still /\ UNCHANGED config
  BY DEF Fail, Still, outside, bounds
<1>5. /\ seconds' \subseteq Emails /\ faults' \in 0 .. MaxFaults
      /\ staff' \in 0 .. MaxStaff
  BY BoundsKept DEF outside, bounds
<1> HIDE DEF t
<1>6. IdsFrom(ses[w], t)
  BY <1>3, IdsFromClosed
<1> QED
  BY <1>2, <1>4, <1>5, <1>6, StillStep

\* A session that works on a lead finds its row, unless it has lost it.
LEMMA LostOrPresent ==
  ASSUME LeadInv, NEW w \in Workers, HasLead(ses[w]), ~Present(w)
  PROVE  ses[w].lost
  BY DEF HasLead, Present, SameRow

\* The refreshed session.
LEMMA RefreshReady ==
  ASSUME LeadInv, NEW w \in Workers, HasLead(ses[w]), Present(w), ses[w].no = 0,
         NEW s, s = [ses[w] EXCEPT !.snap = rows[ses[w].email]]
  PROVE  /\ Ready(s) /\ RowOK(s.email)
         /\ s.no = ses[w].no /\ s.batch = ses[w].batch
         /\ s.email = ses[w].email /\ s.snap = rows[s.email] /\ s.pc = ses[w].pc
         /\ s.lost = ses[w].lost
<1>1. /\ ses[w] \in Session /\ ses[w].email \in Emails
      /\ rows[ses[w].email] \in Row /\ rows[ses[w].email] # None /\ TypeOK
  BY DEF LeadInv, TypeOK, HasLead, Present
<1>2. s \in Session
  BY <1>1 DEF Session
<1>3. /\ s.no = ses[w].no /\ s.batch = ses[w].batch /\ s.camp = ses[w].camp
      /\ s.email = ses[w].email /\ s.snap = rows[s.email] /\ s.lost = ses[w].lost
      /\ s.pc = ses[w].pc
  BY <1>1 DEF Session
<1>4. Copy(s.email, s.snap) /\ SameRow(s.email, s.snap) /\ RowOK(s.email)
  BY <1>1, <1>3, LoadedCopy DEF LeadInv
<1>5. BatchOK(ses[w])
  BY DEF LeadInv, Good
<1>6. BatchOK(s)
  BY <1>3, <1>5 DEF BatchOK
<1>7. HasLead(s)
  BY <1>1, <1>3, <1>4 DEF HasLead
<1> QED
  BY <1>2, <1>3, <1>4, <1>6, <1>7 DEF Ready

LEMMA SameCopies ==
  ASSUME NEW s \in Session, NEW a, NEW t, t \in {DeliverPack(s), SyncLead(s, a)}
  PROVE  t.no = s.no /\ t.snap = s.snap /\ t.batch = s.batch
  BY DEF DeliverPack, SyncLead, Session

LEMMA AfterCaptureIds ==
  ASSUME NEW s \in Session, NEW r, r.no = s.no, r.batch = s.batch,
         NEW e \in Emails, s.snap = rows[e]
  PROVE  IdsFrom(r, AfterCapture(s))
<1> DEFINE t == AfterCapture(s)
<1>1. CASE s.created /\ s.snap.inspection
  <2>1. t.no = s.no /\ t.batch = s.batch /\ t.snap = s.snap
    BY <1>1 DEF AfterCapture, Session
  <2> HIDE DEF t
  <2> QED
    BY <2>1, IdsFromRow DEF t
<1>2. CASE ~(s.created /\ s.snap.inspection)
  <2>1. t.no = 0 /\ t.batch = NoBatch /\ t.snap = None
    BY <1>2 DEF AfterCapture, Closed
  <2> HIDE DEF t
  <2> QED
    BY <2>1, IdsFromClosed DEF t
<1> QED
  BY <1>1, <1>2

LEMMA CaptureStartInv ==
  ASSUME LeadInv, NEW w \in Captures, NEW e \in Emails, NEW p \in Payloads,
         CaptureStart(w, e, p)
  PROVE  LeadInv'
<1>t. PICK t : t = [Closed EXCEPT !.pc = "save", !.no = submits + 1, !.email = e,
                          !.req = p, !.camp = campaign, !.snap = rows[e]]
  OBVIOUS
<1>w. w \in Workers
  BY DEF Workers
<1>1. /\ Continue(w, t) /\ submits' = submits + 1 /\ submits < MaxSubmits
      /\ UNCHANGED <<rows, contacts, seconds, mailed, campaign, settings,
                     faults, staff, raced>>
  BY <1>t DEF CaptureStart, outside, config
<1>2. TypeOK /\ Quiet /\ submits' \in 0 .. MaxSubmits
  BY <1>1, LeadAssumptions DEF LeadInv, TypeOK, Quiet
<1>3. t \in Session
  BY <1>t, <1>1, <1>2, ClosedType, LeadAssumptions DEF TypeOK, Session, Labels_pc
<1>4. /\ t.pc = "save" /\ t.no = submits + 1 /\ t.email = e /\ t.req = p
      /\ t.camp = campaign /\ t.snap = rows[e] /\ t.batch = NoBatch
  BY <1>t DEF Closed
<1>5. BatchOK(t) /\ t.batch[e] = None /\ \A f \in Emails : t.batch[f] = None
  BY <1>4 DEF BatchOK, NoBatch
<1>6. t.snap # None => HasLead(t)
  <2>1. rows[e] # None => Copy(e, rows[e]) /\ SameRow(e, rows[e])
    BY <1>2, LoadedCopy DEF LeadInv
  <2> QED
    BY <1>2, <1>4, <1>5, <2>1 DEF HasLead, TypeOK
<1>7. Good(t)
  <2>1. t.no # 0 /\ t.req \in Payload /\ t.camp \in Campaign
    BY <1>2, <1>4, LeadAssumptions DEF TypeOK
  <2> QED
    BY <1>3, <1>4, <1>5, <1>6, <2>1 DEF Good, Working, Setting
<1>8. Good(t)'
  BY <1>2, <1>7, GoodQuiet
<1>9. Fresh'
  <2>1. /\ ses \in [Workers -> Session] /\ rows' = rows
        /\ ses'[w] = t /\ \A v \in Workers \ {w} : ses'[v] = ses[v]
        /\ submits \in Nat
        /\ \A v \in Workers : ses[v].no \in Nat
    BY <1>w, <1>1, <1>2, LeadAssumptions DEF TypeOK, Continue, Session
  <2>2. \A f \in Emails : rows[f] # None => rows[f].id \in Nat /\ rows[f].id <= submits
    BY <1>2 DEF LeadInv, RowOK, TypeOK, Row, Ids
  <2>3. ASSUME NEW v \in Workers, NEW n \in Ids, UsesId(ses[v], n) PROVE n <= submits
    <3>1. Good(ses[v])
      BY DEF LeadInv
    <3>2. \A f \in Emails : ses[v].batch[f] # None => ses[v].batch[f].id <= submits
      BY <3>1 DEF Good, BatchOK, Copy
    <3>3. ses[v].snap # None => ses[v].snap.id <= submits
      <4>1. ses[v].pc \in Labels_pc
        BY <2>1 DEF Session
      <4>2. ses[v].snap # None => HasLead(ses[v])
        BY <3>1, <4>1 DEF Good, Working, Labels_pc
      <4> QED
        BY <4>2 DEF HasLead, Copy
    <3> QED
      BY <2>3, <3>2, <3>3 DEF UsesId
  <2>4. \A v \in Workers : ses[v].no <= submits
    BY <2>1 DEF LeadInv, Fresh
  <2>5. submits + 1 \in Ids
    BY <1>1, <2>1, LeadAssumptions DEF Ids
  <2>6. ASSUME NEW v \in Workers PROVE ~UsesId(ses'[v], submits + 1)
    <3>1. CASE v = w
      BY <1>4, <1>5, <2>1, <2>2, <3>1 DEF UsesId
    <3>2. CASE v # w
      BY <2>1, <2>3, <2>5, <3>2
    <3> QED
      BY <3>1, <3>2
  <2>7. ASSUME NEW v \in Workers \ {w}, ses[v].no # 0, NEW u \in Workers
        PROVE  ~UsesId(ses'[u], ses[v].no)
    <3>1. CASE u = w
      BY <1>4, <1>5, <2>1, <2>7, <3>1 DEF UsesId, LeadInv, Fresh
    <3>2. CASE u # w
      BY <2>1, <2>7, <3>2 DEF LeadInv, Fresh
    <3> QED
      BY <3>1, <3>2
  <2>8. ASSUME NEW v \in Workers, ses'[v].no # 0
        PROVE  /\ ses'[v].no <= submits'
               /\ \A f \in Emails : rows'[f] # None => rows'[f].id # ses'[v].no
               /\ \A u \in Workers : /\ ~UsesId(ses'[u], ses'[v].no)
                                     /\ u # v => ses'[u].no # ses'[v].no
    <3>1. CASE v = w
      BY <1>1, <1>4, <2>1, <2>2, <2>4, <2>6, <3>1
    <3>2. CASE v # w
      <4>1. ses'[v].no = ses[v].no /\ ses[v].no # 0 /\ ses[v].no <= submits
        BY <2>1, <2>4, <2>8, <3>2
      <4>2. ses[v].no <= submits' /\ ses'[w].no # ses[v].no
        BY <1>1, <1>4, <2>1, <4>1
      <4>3. \A u \in Workers : u # v => ses'[u].no # ses[v].no
        BY <2>1, <4>1, <4>2 DEF LeadInv, Fresh
      <4>4. \A f \in Emails : rows[f] # None => rows[f].id # ses[v].no
        BY <4>1 DEF LeadInv, Fresh
      <4> QED
        BY <2>1, <2>7, <3>2, <4>1, <4>2, <4>3, <4>4
    <3> QED
      BY <3>1, <3>2
  <2> QED
    BY <2>8 DEF Fresh, UsesId
<1> QED
  <2>1. seconds' \subseteq Emails /\ faults' \in 0 .. MaxFaults /\ staff' \in 0 .. MaxStaff
    BY <1>1, BoundsKept
  <2> QED
    BY <1>w, <1>1, <1>2, <1>8, <1>9, <2>1, SessionStep DEF config

\* An UNCHANGED of everything but the sessions, spelled out.
LEMMA AllStill ==
  ASSUME LeadInv, UNCHANGED <<rows, outside, config, bounds, raced>>
  PROVE  /\ Still /\ UNCHANGED config /\ seconds' \subseteq Emails
         /\ faults' \in 0 .. MaxFaults /\ staff' \in 0 .. MaxStaff
<1>1. UNCHANGED <<seconds, faults, staff>>
  BY DEF outside, bounds
<1> QED
  BY <1>1, BoundsKept DEF Still, outside, bounds

LEMMA CaptureRecoverInv ==
  ASSUME LeadInv, NEW w \in Captures, CaptureRecover(w)
  PROVE  LeadInv'
<1> DEFINE s == ses[w]
<1>w. w \in Workers
  BY DEF Workers
<1>s. /\ Good(s) /\ s \in Session /\ s.pc = "recover" /\ TypeOK
      /\ s.email \in Emails /\ s.req \in Payload /\ s.no # 0
      /\ s.snap = None /\ (s.lost \/ rows[s.email] # None)
      /\ UNCHANGED <<rows, outside, config, bounds, raced>>
  BY <1>w DEF CaptureRecover, LeadInv, Good
<1>1. CASE rows[s.email] = None
  BY <1>w, <1>s, <1>1, FailStep DEF CaptureRecover
<1>2. CASE rows[s.email] # None
  <2>1. PICK t : t = [s EXCEPT !.pc = "save", !.snap = rows[s.email], !.camp = campaign]
    OBVIOUS
  <2>2. Continue(w, t)
    BY <1>2, <2>1 DEF CaptureRecover
  <2>0. rows[s.email] \in Row \cup {None} /\ campaign \in Campaign \cup {None}
    BY <1>s DEF TypeOK
  <2>3. t \in Session
    <3>1. s \in Session
      BY <1>s
    <3> HIDE DEF s
    <3> QED
      BY <2>0, <2>1, <3>1 DEF Session, Labels_pc
  <2>4. /\ t.pc = "save" /\ t.snap = rows[s.email] /\ t.camp = campaign
        /\ t.no = s.no /\ t.email = s.email /\ t.req = s.req /\ t.batch = s.batch
        /\ t.lost = s.lost
    BY <1>s, <2>1 DEF Session
  <2>5. Copy(s.email, rows[s.email]) /\ SameRow(s.email, rows[s.email])
    BY <1>s, <1>2, LoadedCopy DEF LeadInv
  <2>6. BatchOK(t)
    BY <1>s, <2>4 DEF Good, BatchOK
  <2>7. s.batch[s.email] = None
    BY <1>s DEF Good, NoBatch
  <2>8. HasLead(t)
    BY <1>s, <2>4, <2>5, <2>7 DEF HasLead, TypeOK
  <2>9. Good(t)
    BY <1>s, <2>3, <2>4, <2>6, <2>8 DEF Good, Working, Setting, TypeOK
  <2>10. IdsFrom(s, t)
    BY <1>s, <2>4, IdsFromRow
  <2> QED
    BY <1>w, <1>s, <2>2, <2>9, <2>10, AllStill, StillStep
<1> QED
  BY <1>1, <1>2

LEMMA CaptureSavedInv ==
  ASSUME LeadInv, NEW w \in Captures, CaptureSaved(w)
  PROVE  LeadInv'
<1>w. w \in Workers
  BY DEF Workers
<1>s. /\ Good(ses[w]) /\ HasLead(ses[w]) /\ ses[w].no = 0 /\ TypeOK
      /\ UNCHANGED <<rows, outside, config, bounds, raced>>
  BY <1>w DEF CaptureSaved, LeadInv, Good, Working
<1>1. CASE ~Present(w)
  BY <1>w, <1>s, <1>1, LostOrPresent, FailStep DEF CaptureSaved
<1>2. CASE Present(w)
  <2>1. PICK s : s = [ses[w] EXCEPT !.snap = rows[ses[w].email]]
    OBVIOUS
  <2>2. /\ Ready(s) /\ RowOK(s.email) /\ s \in Session /\ s.email \in Emails
        /\ s.no = ses[w].no /\ s.batch = ses[w].batch /\ s.snap = rows[s.email]
    BY <1>w, <1>s, <1>2, <2>1, RefreshReady DEF Ready, HasLead
  <2>3. PICK t : t = IF s.snap.pack = "pending" THEN DeliverPack(s) ELSE AfterCapture(s)
    OBVIOUS
  <2>4. Continue(w, t)
    BY <1>2, <2>1, <2>3 DEF CaptureSaved
  <2>5. Good(t) /\ IdsFrom(ses[w], t)
    <3>1. CASE s.snap.pack = "pending"
      <4>1. t = DeliverPack(s)
        BY <2>3, <3>1
      <4>2. t.no = s.no /\ t.snap = s.snap /\ t.batch = s.batch
        BY <2>2, <4>1, SameCopies
      <4>3. IdsFrom(ses[w], t)
        BY <2>2, <4>2, IdsFromRow
      <4> QED
        BY <1>s, <2>2, <4>1, <4>3, DeliverPackGood
    <3>2. CASE s.snap.pack # "pending"
      BY <2>2, <2>3, <3>2, AfterCaptureGood, AfterCaptureIds
    <3> QED
      BY <3>1, <3>2
  <2> QED
    BY <1>w, <1>s, <2>4, <2>5, AllStill, StillStep
<1> QED
  BY <1>1, <1>2

LEMMA RecordedInv ==
  ASSUME LeadInv, NEW w \in Workers, Recorded(w)
  PROVE  LeadInv'
<1>s. /\ Good(ses[w]) /\ HasLead(ses[w]) /\ ses[w].no = 0 /\ TypeOK
      /\ UNCHANGED <<rows, outside, config, bounds, raced>>
  BY DEF Recorded, LeadInv, Good, Working
<1>1. CASE ~Present(w)
  BY <1>s, <1>1, LostOrPresent, FailStep DEF Recorded
<1>2. CASE Present(w)
  <2>1. PICK s : s = [ses[w] EXCEPT !.snap = rows[ses[w].email]]
    OBVIOUS
  <2>2. /\ Ready(s) /\ RowOK(s.email) /\ s \in Session /\ s.email \in Emails
        /\ s.no = ses[w].no /\ s.batch = ses[w].batch /\ s.snap = rows[s.email]
    BY <1>s, <1>2, <2>1, RefreshReady DEF Ready, HasLead
  <2>3. CASE w \in Captures
    <3>1. PICK t : t = IF s.pc = "recorded" THEN AfterCapture(s) ELSE Closed
      OBVIOUS
    <3>2. Continue(w, t)
      BY <1>2, <2>1, <2>3, <3>1 DEF Recorded
    <3>3. IdsFrom(ses[w], Closed)
      BY IdsFromClosed DEF Closed
    <3>4. Good(t) /\ IdsFrom(ses[w], t)
      BY <2>2, <3>1, <3>3, ClosedGood, AfterCaptureGood, AfterCaptureIds
    <3> QED
      BY <1>s, <3>2, <3>4, AllStill, StillStep
  <2>4. CASE w \notin Captures
    <3>1. PICK t : t = [s EXCEPT !.pc = "next", !.email = None, !.snap = None]
      OBVIOUS
    <3>2. Continue(w, t)
      BY <1>2, <2>1, <2>4, <3>1 DEF Recorded
    <3>3. t \in Session
      BY <2>2, <3>1 DEF Session, Labels_pc
    <3>4. /\ t.pc = "next" /\ t.no = s.no /\ t.batch = s.batch /\ t.snap = None
          /\ t.lost = s.lost
      BY <2>2, <3>1 DEF Session
    <3>5. BatchOK(t)
      BY <2>2, <3>4 DEF Ready, BatchOK
    <3>6. Good(t)
      BY <1>s, <2>2, <3>3, <3>4, <3>5 DEF Good, Working, Setting
    <3>7. IdsFrom(ses[w], t)
      BY <2>2, <3>4 DEF IdsFrom, UsesId
    <3> QED
      BY <1>s, <3>2, <3>6, <3>7, AllStill, StillStep
  <2> QED
    BY <2>3, <2>4
<1> QED
  BY <1>1, <1>2

\* The batch of either sweep.
LEMMA LoadInv ==
  ASSUME LeadInv, NEW w \in Workers, NEW B \in SUBSET Emails,
         \A e \in B : rows[e] # None, Load(w, B),
         UNCHANGED <<rows, outside, config, bounds, raced>>
  PROVE  LeadInv'
<1>b. PICK b : b = [e \in Emails |-> IF e \in B THEN rows[e] ELSE None]
  OBVIOUS
<1>t. PICK t : t = [Closed EXCEPT !.pc = "next", !.batch = b]
  OBVIOUS
<1>1. Continue(w, t) /\ TypeOK
  BY <1>b, <1>t DEF Load, LeadInv
<1>2. b \in [Emails -> Row \cup {None}]
  BY <1>b, <1>1 DEF TypeOK
<1>3. t \in Session
  BY <1>t, <1>2, ClosedType DEF Session, Labels_pc
<1>4. t.pc = "next" /\ t.batch = b /\ t.snap = None /\ t.no = 0
  BY <1>t DEF Closed
<1>5. \A e \in Emails : t.batch[e] # None => rows[e] # None /\ t.batch[e] = rows[e]
  BY <1>b, <1>4
<1>6. BatchOK(t)
  BY <1>1, <1>5, LoadedCopy DEF BatchOK, LeadInv
<1>7. Good(t)
  BY <1>3, <1>4, <1>6 DEF Good, Working, Setting
<1>8. IdsFrom(ses[w], t)
  BY <1>4, <1>5 DEF IdsFrom, UsesId
<1> QED
  BY <1>1, <1>7, <1>8, AllStill, StillStep

LEMMA SweepInv ==
  ASSUME LeadInv, NEW w \in Workers, PackSweep(w) \/ SyncSweep(w)
  PROVE  LeadInv'
<1>1. PICK B \in SUBSET Emails : (\A e \in B : rows[e] # None) /\ Load(w, B)
  BY DEF PackSweep, SyncSweep, AwaitingPack, AwaitingSync
<1>2. UNCHANGED <<rows, outside, config, bounds, raced>>
  BY DEF PackSweep, SyncSweep
<1> QED
  BY <1>1, <1>2, LoadInv

\* The sweep turns to its next lead, or ends.
LEMMA NextInv ==
  ASSUME LeadInv, NEW w \in Workers, PackNext(w) \/ SyncNext(w)
  PROVE  LeadInv'
<1>s. /\ Good(ses[w]) /\ ses[w].pc = "next" /\ ses[w].no = 0 /\ TypeOK
      /\ ses[w] \in Session
      /\ UNCHANGED <<rows, outside, config, bounds, raced>>
  BY DEF PackNext, SyncNext, LeadInv, Good
<1>1. CASE Close(w)
  <2>1. Quiet
    BY <1>s, AllStill, StillQuiet
  <2> QED
    BY <1>s, <1>1, <2>1, AllStill, CloseStep
<1>2. CASE ~Close(w)
  <2>1. PICK e \in Emails :
            /\ ses[w].batch[e] # None
            /\ \/ Continue(w, DeliverPack(Work(ses[w], e)))
               \/ Continue(w, SyncLead(Work(ses[w], e), Work(ses[w], e).camp.sync))
    BY <1>2 DEF PackNext, SyncNext, First
  <2>2. PICK s, a : s = Work(ses[w], e) /\ a = s.camp.sync
    OBVIOUS
  <2>3. Ready(s)
    BY <1>s, <2>1, <2>2, WorkReady
  <2>4. /\ s.snap = ses[w].batch[e] /\ s.no = ses[w].no
        /\ s.batch = [ses[w].batch EXCEPT ![e] = None]
    BY <1>s, <2>2 DEF Work, Session
  <2>5. PICK t : t \in {DeliverPack(s), SyncLead(s, a)} /\ Continue(w, t)
    BY <2>1, <2>2
  <2>6. Good(t)
    <3>1. RowOK(s.email)
      BY <2>3 DEF Ready, HasLead, LeadInv
    <3> QED
      BY <1>s, <2>3, <2>5, <3>1, DeliverPackGood, SyncLeadGood
  <2>7. t.no = s.no /\ t.snap = s.snap /\ t.batch = s.batch
    BY <2>3, <2>5, SameCopies DEF Ready
  <2>8. IdsFrom(ses[w], t)
    <3>1. \A f \in Emails : t.batch[f] # None => t.batch[f] = ses[w].batch[f]
      BY <1>s, <2>4, <2>7 DEF Session
    <3> QED
      BY <2>1, <2>4, <2>7, <3>1 DEF IdsFrom, UsesId
  <2> QED
    BY <1>s, <2>5, <2>6, <2>8, AllStill, StillStep
<1> QED
  BY <1>1, <1>2

LEMMA ForcedInv ==
  ASSUME LeadInv, NEW w \in Workers, NEW e \in Emails, Resend(w, e) \/ SyncForce(w, e)
  PROVE  LeadInv'
<1>s. PICK s : s = [Closed EXCEPT !.email = e, !.camp = campaign, !.snap = rows[e]]
  OBVIOUS
<1>1. /\ TypeOK /\ rows[e] # None /\ RowOK(e) /\ rows[e] \in Row
      /\ campaign \in Campaign
  BY DEF Resend, SyncForce, LeadInv, TypeOK
<1>2. Still /\ UNCHANGED config /\ UNCHANGED <<seconds, faults>> /\ StaffStep
  BY DEF Resend, SyncForce, Still, outside
<1>3. s \in Session
  BY <1>s, <1>1, ClosedType DEF Session
<1>4. /\ s.pc = "idle" /\ s.no = 0 /\ s.email = e /\ s.camp = campaign
      /\ s.snap = rows[e] /\ s.batch = NoBatch
  BY <1>s DEF Closed
<1>5. BatchOK(s) /\ s.batch[e] = None /\ \A f \in Emails : s.batch[f] = None
  BY <1>4 DEF BatchOK, NoBatch
<1>6. Copy(e, rows[e]) /\ SameRow(e, rows[e])
  BY <1>1, LoadedCopy
<1>7. HasLead(s)
  BY <1>1, <1>4, <1>5, <1>6 DEF HasLead
<1>8. Ready(s)
  BY <1>3, <1>4, <1>5, <1>7 DEF Ready
<1>9. PICK t : /\ Continue(w, t)
               /\ t \in {DeliverPack(s), SyncLead(s, TRUE), [s EXCEPT !.pc = "viewing"]}
  BY <1>s DEF Resend, SyncForce
<1>10. t.no = s.no /\ t.snap = s.snap /\ t.batch = s.batch /\ Good(t)
  <2>1. CASE t \in {DeliverPack(s), SyncLead(s, TRUE)}
    <3>1. t.no = s.no /\ t.snap = s.snap /\ t.batch = s.batch
      BY <1>3, <2>1 DEF DeliverPack, SyncLead, Session
    <3>2. RowOK(s.email)
      BY <1>1, <1>4
    <3>3. Good(t)
      BY <1>1, <1>8, <2>1, <3>2, DeliverPackGood, SyncLeadGood
    <3> QED
      BY <3>1, <3>3
  <2>2. CASE t = [s EXCEPT !.pc = "viewing"]
    <3>1. t \in Session
      BY <1>3, <2>2 DEF Session, Labels_pc
    <3>2. /\ t.pc = "viewing" /\ t.no = s.no /\ t.email = s.email /\ t.camp = s.camp
          /\ t.snap = s.snap /\ t.batch = s.batch /\ t.lost = s.lost
      BY <1>3, <2>2 DEF Session
    <3>3. t.no = 0 /\ BatchOK(t) /\ HasLead(t)
      BY <1>8, <3>2 DEF Ready, BatchOK, HasLead
    <3> QED
      BY <3>1, <3>2, <3>3 DEF Good, Working, Setting
  <2> QED
    BY <1>9, <2>1, <2>2
<1>11. IdsFrom(ses[w], t)
  BY <1>4, <1>5, <1>10 DEF IdsFrom, UsesId
<1>12. seconds' \subseteq Emails /\ faults' \in 0 .. MaxFaults /\ staff' \in 0 .. MaxStaff
  BY <1>2, BoundsKept
<1> QED
  BY <1>2, <1>9, <1>10, <1>11, <1>12, StillStep

LEMMA GiveUpInv ==
  ASSUME LeadInv, NEW w \in Workers, GiveUp(w)
  PROVE  LeadInv'
<1>1. TypeOK /\ Close(w) /\ UNCHANGED <<rows, outside, config, bounds, raced>>
  BY DEF GiveUp, LeadInv
<1>2. Quiet
  BY <1>1, AllStill, StillQuiet
<1> QED
  BY <1>1, <1>2, AllStill, CloseStep

-----------------------------------------------------------------------------
(* The calls to SendGrid and Freshsales.                                    *)

\* A session that has set n on its lead is good in the next state.
LEMMA SetGood ==
  ASSUME TypeOK, Quiet, NEW s, Good(s), s.pc \in {"mail", "viewing", "push"},
         NEW n \in Row, NEW l \in Setting, NEW t, t = [s EXCEPT !.pc = l, !.new = n],
         Truthful(s.email, n)', n.id = s.snap.id, n.info = s.snap.info,
         s.snap.contact => n.contact,
         n.delivered # s.snap.delivered => n.delivered # {},
         n.crm = "synced" /\ n.pack = "sent" => s.snap.pack = "sent",
         rows[s.email] # None /\ s.email \notin raced => UpToDate(s.email, n)'
  PROVE  Good(t)'
<1>s. s \in Session /\ HasLead(s) /\ BatchOK(s) /\ s.no = 0
  BY DEF Good, Working
<1>1. t \in Session
  BY <1>s DEF Session, Setting, Labels_pc
<1>2. /\ t.pc = l /\ t.new = n /\ t.no = s.no /\ t.email = s.email
      /\ t.camp = s.camp /\ t.snap = s.snap /\ t.batch = s.batch /\ t.lost = s.lost
  BY <1>s DEF Session
<1>3. BatchOK(t) /\ HasLead(t)
  BY <1>s, <1>2 DEF BatchOK, HasLead
<1>4. BatchOK(t)' /\ HasLead(t)'
  BY <1>3, LeadQuiet
<1>5. rows' = rows /\ raced' = raced
  BY DEF Quiet
<1>6. NewOK(t)'
  BY <1>2, <1>5 DEF NewOK
<1> QED
  BY <1>s, <1>1, <1>2, <1>4, <1>6 DEF Good, Working, Setting

LEMMA PushSecondInv ==
  ASSUME LeadInv, NEW w \in Workers, PushSecond(w)
  PROVE  LeadInv'
<1>s. /\ Good(ses[w]) /\ ses[w].pc = "second" /\ ses[w].no = 0 /\ HasLead(ses[w])
      /\ NewOK(ses[w]) /\ ses[w] \in Session /\ ses[w].email \in Emails
  BY DEF PushSecond, LeadInv, Good, Working, Setting, HasLead
<1>t. PICK t : t = [ses[w] EXCEPT !.pc = "record"]
  OBVIOUS
<1>1. Continue(w, t) /\ Still /\ UNCHANGED <<config, staff>>
  BY <1>t DEF PushSecond, Still
<1>2. t \in Session
  BY <1>s, <1>t DEF Session, Labels_pc
<1>3. /\ t.pc = "record" /\ t.new = ses[w].new /\ t.no = ses[w].no
      /\ t.email = ses[w].email /\ t.camp = ses[w].camp /\ t.snap = ses[w].snap
      /\ t.batch = ses[w].batch /\ t.lost = ses[w].lost
  BY <1>s, <1>t DEF Session
<1>4. BatchOK(t) /\ HasLead(t) /\ NewOK(t)
  BY <1>s, <1>3 DEF Good, BatchOK, HasLead, NewOK
<1>5. Good(t)
  BY <1>s, <1>2, <1>3, <1>4 DEF Good, Working, Setting
<1>6. IdsFrom(ses[w], t)
  BY <1>3, IdsFromSnap
<1>7. seconds' \subseteq Emails
  BY <1>s DEF PushSecond, LeadInv, TypeOK
<1>8. faults' \in 0 .. MaxFaults /\ staff' \in 0 .. MaxStaff
  BY <1>1, BoundsKept DEF PushSecond
<1> QED
  BY <1>1, <1>5, <1>6, <1>7, <1>8, StillStep

LEMMA MarkDeliveredRow ==
  ASSUME NEW r \in Row, NEW docs \in SUBSET Labels, docs # {},
         NEW n, n = MarkDelivered(r, docs)
  PROVE  /\ n \in Row /\ n.id = r.id /\ n.info = r.info /\ n.contact = r.contact
         /\ n.delivered = docs /\ n.crm # "synced"
  BY DEF MarkDelivered, Row, CrmStatus, PackStatus

LEMMA SentQuiet ==
  ASSUME TypeOK, NEW i \in Ids, NEW docs \in SUBSET Labels,
         SendCampaignEmail(i, docs), UNCHANGED <<rows, contacts, submits, raced>>
  PROVE  Quiet /\ docs \subseteq mailed'[i]
<1>1. mailed' \in [Ids -> SUBSET Labels] /\ mailed'[i] = mailed[i] \cup docs
  BY DEF SendCampaignEmail, TypeOK
<1>2. \A j \in Ids : mailed[j] \subseteq mailed'[j]
  BY DEF SendCampaignEmail, TypeOK
<1> QED
  BY <1>1, <1>2 DEF Quiet, TypeOK

\* What is recorded after a mail that was accepted.
LEMMA DeliveredGood ==
  ASSUME LeadInv, NEW w \in Workers, ses[w].pc \in {"mail", "viewing"},
         NEW docs \in SUBSET Labels, docs # {},
         SendCampaignEmail(ses[w].snap.id, docs),
         UNCHANGED <<rows, contacts, submits, raced>>,
         NEW l \in Setting, NEW t,
         t = [ses[w] EXCEPT !.pc = l, !.new = MarkDelivered(ses[w].snap, docs)]
  PROVE  Quiet /\ Good(t)' /\ IdsFrom(ses[w], t)
<1>s. /\ Good(ses[w]) /\ HasLead(ses[w]) /\ ses[w] \in Session /\ TypeOK
      /\ ses[w].snap \in Row /\ ses[w].snap.id \in Ids
      /\ Truthful(ses[w].email, ses[w].snap)
  BY DEF LeadInv, Good, Working, HasLead, Copy, Row
<1>n. PICK s, n : s = ses[w] /\ n = MarkDelivered(s.snap, docs)
  OBVIOUS
<1>1. Quiet /\ docs \subseteq mailed'[s.snap.id]
  BY <1>s, <1>n, SentQuiet
<1>2. /\ n \in Row /\ n.id = s.snap.id /\ n.info = s.snap.info
      /\ n.contact = s.snap.contact /\ n.delivered = docs /\ n.crm # "synced"
  BY <1>s, <1>n, MarkDeliveredRow
<1>3. Truthful(s.email, n)'
  BY <1>s, <1>n, <1>1, <1>2 DEF Truthful
<1>4. UpToDate(s.email, n)'
  BY <1>2 DEF UpToDate
<1>5. Good(t)'
  <2>1. /\ Good(s) /\ s.pc \in {"mail", "viewing", "push"} /\ TypeOK
        /\ l \in Setting /\ t = [s EXCEPT !.pc = l, !.new = n]
    BY <1>s, <1>n
  <2>2. /\ s.snap.contact => n.contact
        /\ n.delivered # s.snap.delivered => n.delivered # {}
        /\ n \in Row /\ n.id = s.snap.id /\ n.info = s.snap.info /\ n.crm # "synced"
    BY <1>2
  <2> QED
    BY ONLY <1>1, <1>3, <1>4, <2>1, <2>2, SetGood
<1>6. t.no = ses[w].no /\ t.snap = ses[w].snap /\ t.batch = ses[w].batch
  BY <1>s DEF Session
<1>7. IdsFrom(ses[w], t)
  BY ONLY <1>6, IdsFromSnap
<1> QED
  BY <1>1, <1>5, <1>7

LEMMA MailPackInv ==
  ASSUME LeadInv, NEW w \in Workers, MailPack(w)
  PROVE  LeadInv'
<1> DEFINE docs == Deliverable(ses[w].snap, ses[w].camp)
           failed == [ses[w].snap EXCEPT !.pack = "failed"]
<1>s. /\ Good(ses[w]) /\ ses[w].pc = "mail" /\ HasLead(ses[w]) /\ ses[w] \in Session
      /\ TypeOK /\ ses[w].snap \in Row /\ ses[w].snap.id \in Ids
      /\ Truthful(ses[w].email, ses[w].snap) /\ ses[w].email \in Emails
      /\ RowOK(ses[w].email) /\ Copy(ses[w].email, ses[w].snap)
  BY DEF MailPack, LeadInv, Good, Working, HasLead, Copy, Row
<1>d. docs \in SUBSET Labels /\ docs # {}
  BY <1>s DEF Good, Deliverable, Row
<1>u. /\ UNCHANGED <<rows, contacts, submits, raced>> /\ UNCHANGED config
      /\ UNCHANGED <<seconds, staff>>
      /\ UNCHANGED faults \/ (faults < MaxFaults /\ faults' = faults + 1)
  BY DEF MailPack
<1>b. seconds' \subseteq Emails /\ faults' \in 0 .. MaxFaults /\ staff' \in 0 .. MaxStaff
  BY <1>u, BoundsKept
<1>1. PICK t : /\ Continue(w, t)
               /\ \/ /\ SendCampaignEmail(ses[w].snap.id, docs)
                     /\ t = [ses[w] EXCEPT !.pc = "record",
                                           !.new = MarkDelivered(ses[w].snap, docs)]
                  \/ /\ SendCampaignEmail(ses[w].snap.id, docs) \/ UNCHANGED mailed
                     /\ t = [ses[w] EXCEPT !.pc = "record", !.new = failed]
  BY DEF MailPack
<1>2. Quiet /\ Good(t)' /\ IdsFrom(ses[w], t)
  <2>1. CASE /\ SendCampaignEmail(ses[w].snap.id, docs)
             /\ t = [ses[w] EXCEPT !.pc = "record",
                                   !.new = MarkDelivered(ses[w].snap, docs)]
    <3>1. PICK D : D = docs
      OBVIOUS
    <3>2. "record" \in Setting
      BY DEF Setting
    <3> HIDE DEF docs
    <3> QED
      BY <1>s, <1>d, <1>u, <2>1, <3>1, <3>2, DeliveredGood
  <2>2. CASE /\ SendCampaignEmail(ses[w].snap.id, docs) \/ UNCHANGED mailed
             /\ t = [ses[w] EXCEPT !.pc = "record", !.new = failed]
    <3>1. PICK s, n, D : s = ses[w] /\ n = failed /\ D = docs
      OBVIOUS
    <3>2. /\ n \in Row /\ n.id = s.snap.id /\ n.info = s.snap.info
          /\ n.contact = s.snap.contact /\ n.delivered = s.snap.delivered
          /\ n.crm = s.snap.crm /\ n.pack = "failed"
      BY <1>s, <3>1 DEF Row, PackStatus
    <3>3. Quiet
      <4>1. CASE UNCHANGED mailed
        BY <1>s, <1>u, <4>1, StillQuiet DEF Still
      <4>2. CASE SendCampaignEmail(ses[w].snap.id, D)
        BY <1>s, <1>d, <1>u, <3>1, <4>2, SentQuiet
      <4> QED
        BY <2>2, <3>1, <4>1, <4>2
    <3>4. Truthful(s.email, n)
      BY <1>s, <3>1, <3>2 DEF Truthful
    <3>5. Truthful(s.email, n)'
      BY <1>s, <3>1, <3>2, <3>3, <3>4, TruthfulQuiet
    <3>6. rows[s.email] # None /\ s.email \notin raced => UpToDate(s.email, n)'
      <4>1. ASSUME rows[s.email] # None, s.email \notin raced PROVE s.snap = rows[s.email]
        BY <1>s, <3>1, <4>1 DEF Copy
      <4>2. UNCHANGED contacts
        BY <1>u
      <4> QED
        BY <1>s, <3>1, <3>2, <4>1, <4>2 DEF RowOK, UpToDate
    <3>7. t = [s EXCEPT !.pc = "record", !.new = n] /\ "record" \in Setting
      BY <2>2, <3>1 DEF Setting
    <3>8. Good(t)'
      <4>1. Good(s) /\ s.pc = "mail" /\ TypeOK
        BY <1>s, <3>1
      <4> HIDE DEF failed, docs
      <4> QED
        BY <3>2, <3>3, <3>5, <3>6, <3>7, <4>1, SetGood
    <3>9. t.no = ses[w].no /\ t.snap = ses[w].snap /\ t.batch = ses[w].batch
      BY <1>s, <2>2 DEF Session
    <3>10. IdsFrom(ses[w], t)
      BY ONLY <3>9, IdsFromSnap
    <3> QED
      BY <3>3, <3>8, <3>10
  <2> QED
    BY <1>1, <2>1, <2>2
<1>3. Fresh'
  BY <1>1, <1>2, FreshQuiet DEF Continue
<1> QED
  BY <1>1, <1>2, <1>3, <1>u, <1>b, SessionStep

LEMMA MailViewingInv ==
  ASSUME LeadInv, NEW w \in Workers, MailViewing(w)
  PROVE  LeadInv'
<1> DEFINE docs == AllMaterials(ses[w].camp)
<1>s. /\ Good(ses[w]) /\ ses[w].pc = "viewing" /\ HasLead(ses[w]) /\ ses[w] \in Session
      /\ TypeOK /\ ses[w].snap \in Row /\ ses[w].snap.id \in Ids
      /\ ses[w].camp \in Campaign
  BY DEF MailViewing, LeadInv, Good, Working, HasLead, Copy, Row
<1>d. docs \in SUBSET Labels
  BY <1>s, LeadAssumptions DEF AllMaterials, Campaign
<1>u. /\ UNCHANGED <<rows, contacts, submits, raced>> /\ UNCHANGED config
      /\ UNCHANGED <<seconds, staff>>
      /\ UNCHANGED faults \/ (faults < MaxFaults /\ faults' = faults + 1)
  BY DEF MailViewing
<1>b. seconds' \subseteq Emails /\ faults' \in 0 .. MaxFaults /\ staff' \in 0 .. MaxStaff
  BY <1>u, BoundsKept
<1>1. CASE Close(w)
  <2>1. UNCHANGED mailed \/ SendCampaignEmail(ses[w].snap.id, docs)
    BY DEF MailViewing
  <2>2. PICK D : D = docs
    OBVIOUS
  <2>3. Quiet
    <3>1. CASE UNCHANGED mailed
      BY <1>s, <1>u, <3>1, StillQuiet DEF Still
    <3>2. CASE SendCampaignEmail(ses[w].snap.id, D)
      BY <1>s, <1>d, <1>u, <2>2, <3>2, SentQuiet
    <3> QED
      BY <2>1, <2>2, <3>1, <3>2
  <2> QED
    BY <1>1, <1>u, <1>b, <2>3, CloseStep
<1>2. CASE ~Close(w)
  <2>1. PICK t, D : /\ Continue(w, t)
                    /\ D = docs /\ D # {}
                    /\ SendCampaignEmail(ses[w].snap.id, D)
                    /\ t = [ses[w] EXCEPT !.pc = "record_viewing",
                                          !.new = MarkDelivered(ses[w].snap, D)]
    BY <1>2 DEF MailViewing
  <2>2. "record_viewing" \in Setting /\ D \in SUBSET Labels
    BY <1>d, <2>1 DEF Setting
  <2> HIDE DEF docs
  <2>3. Quiet /\ Good(t)' /\ IdsFrom(ses[w], t)
    BY <1>s, <1>u, <2>1, <2>2, DeliveredGood
  <2>4. Fresh'
    BY <2>1, <2>3, FreshQuiet DEF Continue
  <2> QED
    BY <2>1, <2>3, <2>4, <1>u, <1>b, SessionStep
<1> QED
  BY <1>1, <1>2

LEMMA PushInv ==
  ASSUME LeadInv, NEW w \in Workers, Push(w)
  PROVE  LeadInv'
<1> DEFINE s0 == ses[w]
           done == contacts' = [contacts EXCEPT ![s0.email] = Pushed(s0.snap)]
           failed == [s0.snap EXCEPT !.crm = "failed"]
           after == IF s0.snap.second THEN "second" ELSE "record"
<1>s. /\ Good(ses[w]) /\ ses[w].pc = "push" /\ HasLead(ses[w]) /\ ses[w] \in Session
      /\ TypeOK /\ ses[w].snap \in Row /\ ses[w].email \in Emails
      /\ Copy(ses[w].email, ses[w].snap) /\ Truthful(ses[w].email, ses[w].snap)
  BY DEF Push, LeadInv, Good, Working, HasLead, Copy
<1>u. /\ UNCHANGED <<rows, mailed, submits, raced>> /\ UNCHANGED config
      /\ UNCHANGED <<seconds, staff>>
      /\ UNCHANGED faults \/ (faults < MaxFaults /\ faults' = faults + 1)
  BY DEF Push
<1>b. seconds' \subseteq Emails /\ faults' \in 0 .. MaxFaults /\ staff' \in 0 .. MaxStaff
  BY <1>u, BoundsKept
<1>1. \E t : /\ Continue(w, t)
             /\ \/ done /\ t = [s0 EXCEPT !.pc = after, !.new = MarkSynced(s0.snap)]
                \/ /\ done \/ UNCHANGED contacts
                   /\ t = [s0 EXCEPT !.pc = after, !.new = failed]
  BY DEF Push, Pushed
<1>2. PICK t, l, n :
        /\ Continue(w, t) /\ l = after /\ t = [s0 EXCEPT !.pc = l, !.new = n]
        /\ \/ done /\ n = MarkSynced(s0.snap)
           \/ (done \/ UNCHANGED contacts) /\ n = failed
  BY <1>1
<1>3. l \in Setting
  BY <1>2 DEF Setting
<1>4. done => /\ contacts' \in [Emails -> Contact \cup {None}]
              /\ contacts'[s0.email] = Pushed(s0.snap)
              /\ contacts'[s0.email] # None
              /\ \A e \in Emails \ {s0.email} : contacts'[e] = contacts[e]
  <2>1. Pushed(s0.snap) \in Contact
    BY <1>s DEF Pushed, Contact, Row
  <2> QED
    BY <1>s, <2>1, NoneAssumption DEF TypeOK
<1>5. Quiet
  <2>1. rows[s0.email] # None /\ s0.email \notin raced => s0.snap = rows[s0.email]
    BY <1>s DEF Copy
  <2>2. CASE UNCHANGED contacts
    BY <1>s, <1>u, <2>2, StillQuiet DEF Still
  <2>3. CASE done
    <3> HIDE DEF done, s0
    <3> QED
      BY <1>s, <1>u, <1>4, <2>1, <2>3 DEF Quiet, TypeOK
  <2> QED
    BY <1>2, <2>2, <2>3
<1>p. PICK s : s = ses[w]
  OBVIOUS
<1>6. /\ n \in Row /\ n.id = s.snap.id /\ n.info = s.snap.info
      /\ n.delivered = s.snap.delivered /\ n.pack = s.snap.pack
      /\ n.crm \in {"synced", "failed"}
      /\ n.crm = "synced" => done /\ n.contact = TRUE
      /\ n.crm = "failed" => n.contact = s.snap.contact
  <2>1. CASE done /\ n = MarkSynced(s0.snap)
    BY <1>s, <1>p, <2>1 DEF MarkSynced, Row, CrmStatus
  <2>2. CASE n = failed
    BY <1>s, <1>p, <2>2 DEF Row, CrmStatus
  <2> QED
    BY <1>2, <2>1, <2>2
<1> HIDE DEF done, after, failed
<1>7. Truthful(s.email, n)'
  <2>1. Truthful(s.email, s.snap)'
    BY <1>s, <1>p, <1>5, TruthfulQuiet
  <2>2. n.crm = "synced" => contacts'[s.email] # None
    BY <1>4, <1>6, <1>p
  <2>3. s.snap.contact \in BOOLEAN /\ n.contact \in BOOLEAN
    BY <1>s, <1>p, <1>6 DEF Row
  <2>4. n.contact => contacts'[s.email] # None
    BY <1>6, <2>1, <2>2, <2>3 DEF Truthful
  <2>5. n.crm = "synced" => n.contact
    BY <1>6
  <2> QED
    BY <1>6, <2>1, <2>4, <2>5 DEF Truthful
<1>8. UpToDate(s.email, n)'
  <2>1. n.crm = "synced" => contacts'[s.email] = Pushed(s.snap)
    BY <1>4, <1>6, <1>p
  <2> QED
    BY <1>6, <2>1, PushedFields DEF UpToDate
<1>9. s.snap.contact => n.contact
  <2>1. s.snap.contact \in BOOLEAN /\ n.contact \in BOOLEAN
    BY <1>s, <1>p, <1>6 DEF Row
  <2> QED
    BY <1>6, <2>1
<1>10. Good(t)'
  <2>1. Good(s) /\ s.pc = "push" /\ TypeOK /\ t = [s EXCEPT !.pc = l, !.new = n]
    BY <1>s, <1>p, <1>2
  <2> QED
    BY ONLY <1>3, <1>5, <1>6, <1>7, <1>8, <1>9, <2>1, SetGood
<1>11. IdsFrom(ses[w], t)
  <2>1. t.no = ses[w].no /\ t.snap = ses[w].snap /\ t.batch = ses[w].batch
    BY <1>s, <1>2 DEF Session
  <2> QED
    BY ONLY <2>1, IdsFromSnap
<1>12. Fresh'
  BY <1>2, <1>5, <1>11, FreshQuiet DEF Continue
<1> QED
  BY <1>2, <1>5, <1>10, <1>12, <1>u, <1>b, SessionStep

-----------------------------------------------------------------------------
(* The actions that write a row.                                            *)

LEMMA RacedGrows ==
  ASSUME NEW w \in Workers, NEW e \in Emails, NEW r, WriteRow(w, e, r)
  PROVE  raced \subseteq raced' /\ raced' \subseteq raced \cup {e}
  BY DEF WriteRow

LEMMA CaptureInsertInv ==
  ASSUME LeadInv, NEW w \in Captures, CaptureInsert(w)
  PROVE  LeadInv'
<1>p. PICK s, r : s = ses[w] /\ r = NewLead(s.no, s.req)
  OBVIOUS
<1>w. w \in Workers
  BY DEF Workers
<1>s. /\ Good(s) /\ s \in Session /\ s.pc = "save" /\ s.snap = None
      /\ s.email \in Emails /\ s.req \in Payload /\ s.camp \in Campaign
      /\ s.no # 0 /\ s.batch = NoBatch /\ TypeOK /\ BatchOK(s)
      /\ UNCHANGED <<outside, config, bounds>>
  BY <1>w, <1>p DEF CaptureInsert, LeadInv, Good
<1>1. CASE rows[s.email] # None
  <2>1. PICK t : t = [s EXCEPT !.pc = "recover"]
    OBVIOUS
  <2>2. Continue(w, t) /\ UNCHANGED <<rows, raced>>
    BY <1>1, <1>p, <2>1 DEF CaptureInsert
  <2>3. t \in Session
    BY <1>s, <2>1 DEF Session, Labels_pc
  <2>4. /\ t.pc = "recover" /\ t.no = s.no /\ t.email = s.email /\ t.req = s.req
        /\ t.camp = s.camp /\ t.snap = s.snap /\ t.batch = s.batch /\ t.lost = s.lost
    BY <1>s, <2>1 DEF Session
  <2>5. BatchOK(t)
    BY <1>s, <2>4 DEF BatchOK
  <2>6. Good(t)
    BY <1>s, <1>1, <2>3, <2>4, <2>5 DEF Good, Working, Setting
  <2>7. IdsFrom(ses[w], t)
    BY <1>p, <2>4, IdsFromSnap
  <2> QED
    BY <1>w, <1>s, <2>2, <2>6, <2>7, AllStill, StillStep
<1>2. CASE rows[s.email] = None
  <2>1. PICK t : t = [s EXCEPT !.pc = "saved", !.created = TRUE, !.no = 0,
                               !.req = None, !.snap = r]
    OBVIOUS
  <2>2. Continue(w, t) /\ WriteRow(w, s.email, r)
    BY <1>2, <1>p, <2>1 DEF CaptureInsert
  <2>3. s.no \in Ids /\ s.no <= submits /\ s.no \in Nat
    <3>1. s.no <= submits
      BY <1>w, <1>p, <1>s DEF LeadInv, Fresh
    <3>2. s.no \in 0 .. MaxSubmits
      BY <1>s DEF Session
    <3> QED
      BY <1>s, <3>1, <3>2, LeadAssumptions DEF Ids
  <2>4. /\ r \in Row /\ r.id = s.no /\ r.crm = "pending" /\ r.contact = FALSE
        /\ r.delivered = {} /\ r.pack \in {"not_requested", "pending"}
    <3>1. NextPackStatus(None, s.req) \in {"not_requested", "pending"}
      BY DEF NextPackStatus
    <3> QED
      BY <1>p, <1>s, <2>3, <3>1 DEF NewLead, Row, Payload, CrmStatus, PackStatus
  <2>5. t \in Session
    <3>1. s \in Session /\ r \in Row \cup {None} /\ 0 \in 0 .. MaxSubmits
      BY <1>s, <2>4, LeadAssumptions
    <3> QED
      BY ONLY <2>1, <3>1 DEF Session, Labels_pc
  <2>6. /\ t.pc = "saved" /\ t.no = 0 /\ t.email = s.email /\ t.camp = s.camp
        /\ t.snap = r /\ t.batch = s.batch /\ t.lost = s.lost
    BY <1>s, <2>1 DEF Session
  <2>7. Writes(s.email, r)
    BY <1>w, <1>s, <1>2, <2>2, <2>4, RacedGrows DEF Writes, WriteRow, outside, bounds
  <2>8. Truthful(s.email, r) /\ UpToDate(s.email, r)
    BY <2>4 DEF Truthful, UpToDate
  <2>9. t.batch[s.email] = None
    BY <1>s, <2>6 DEF NoBatch
  <2>10. OwnWrite(w, s.email, r, t)
    BY <1>p, <1>s, <1>2, <2>2, <2>3, <2>4, <2>5, <2>6, <2>7, <2>8, <2>9 DEF OwnWrite
  <2> QED
    BY <1>w, <1>s, <2>10, OwnWriteStep
<1> QED
  BY <1>1, <1>2

LEMMA ApplyPayloadRow ==
  ASSUME NEW q \in Row, NEW p \in Payload, NEW r, r = ApplyPayload(q, p)
  PROVE  /\ r \in Row /\ r.id = q.id /\ r.contact = q.contact
         /\ r.delivered = q.delivered /\ r.crm = "pending"
         /\ r.pack = "sent" => q.pack = "sent"
<1>1. /\ NextPackStatus(q, p) \in PackStatus
      /\ NextPackStatus(q, p) = "sent" => q.pack = "sent"
  BY DEF NextPackStatus, PackStatus
<1> QED
  BY <1>1 DEF ApplyPayload, Row, Payload, CrmStatus

LEMMA CaptureMergeInv ==
  ASSUME LeadInv, NEW w \in Captures, CaptureMerge(w)
  PROVE  LeadInv'
<1>p. PICK s, r, m : /\ s = ses[w] /\ r = ApplyPayload(s.snap, s.req)
                     /\ m = Merge(rows[s.email], s.snap, r)
  OBVIOUS
<1>w. w \in Workers
  BY DEF Workers
<1>s. /\ Good(s) /\ s \in Session /\ s.pc = "save" /\ HasLead(s)
      /\ s.email \in Emails /\ s.req \in Payload /\ s.camp \in Campaign
      /\ Copy(s.email, s.snap) /\ s.snap \in Row /\ TypeOK /\ RowOK(s.email)
      /\ Truthful(s.email, s.snap) /\ s.batch[s.email] = None
      /\ UNCHANGED <<outside, config, bounds>>
  BY <1>w, <1>p DEF CaptureMerge, LeadInv, Good, HasLead, Copy
<1>1. CASE ~Present(w)
  <2>1. Fail(w) /\ UNCHANGED <<rows, raced>>
    BY <1>1 DEF CaptureMerge
  <2> QED
    BY <1>w, <1>p, <1>s, <1>1, <2>1, LostOrPresent, FailStep
<1>2. CASE Present(w)
  <2>1. PICK t : t = [s EXCEPT !.pc = "saved", !.no = 0, !.req = None, !.snap = r]
    OBVIOUS
  <2>2. Continue(w, t) /\ WriteRow(w, s.email, m) /\ SameRow(s.email, s.snap)
    BY <1>2, <1>p, <2>1 DEF CaptureMerge, Present, SameRow
  <2>3. /\ r \in Row /\ r.id = s.snap.id /\ r.contact = s.snap.contact
        /\ r.delivered = s.snap.delivered /\ r.crm = "pending"
        /\ r.pack = "sent" => s.snap.pack = "sent"
    BY <1>p, <1>s, ApplyPayloadRow
  <2>4. Truthful(s.email, r) /\ UpToDate(s.email, r)
    BY <1>s, <2>3 DEF Truthful, UpToDate
  <2>5. /\ m \in Row /\ m.id = rows[s.email].id /\ m.id = r.id
        /\ Truthful(s.email, m)
        /\ rows[s.email].contact => m.contact
        /\ rows[s.email].delivered # {} => m.delivered # {}
        /\ r.contact => m.contact
        /\ r.delivered # {} => m.delivered # {}
        /\ s.email \notin raced => m = r
    <3>1. /\ s.snap.contact => r.contact
          /\ r.delivered # s.snap.delivered => r.delivered # {}
      BY <2>3
    <3>2. r \in Row /\ r.id = s.snap.id
      BY <2>3
    <3>3. m = Merge(rows[s.email], s.snap, r)
      BY <1>p
    <3> QED
      BY ONLY <1>s, <2>2, <2>4, <3>1, <3>2, <3>3, MergeTrue
  <2>6. t \in Session
    <3>1. s \in Session /\ r \in Row \cup {None} /\ 0 \in 0 .. MaxSubmits
      BY <1>s, <2>3, LeadAssumptions
    <3> QED
      BY ONLY <2>1, <3>1 DEF Session, Labels_pc
  <2>7. /\ t.pc = "saved" /\ t.no = 0 /\ t.email = s.email /\ t.camp = s.camp
        /\ t.snap = r /\ t.batch = s.batch /\ t.lost = s.lost
    BY <1>s, <2>1 DEF Session
  <2>8. raced \subseteq raced' /\ raced' \subseteq raced \cup {s.email}
    BY <1>w, <1>s, <2>2, RacedGrows
  <2>9. Writes(s.email, m)
    BY <1>s, <2>2, <2>5, <2>8 DEF Writes, WriteRow, outside, bounds
  <2>10. rows[s.email] # None /\ m.id <= submits
    BY <1>s, <2>2, <2>5 DEF SameRow, RowOK
  <2>11. OwnWrite(w, s.email, m, t)
    BY <1>p, <1>s, <2>2, <2>3, <2>4, <2>5, <2>6, <2>7, <2>8, <2>9, <2>10 DEF OwnWrite
  <2> QED
    BY <1>w, <1>s, <2>11, OwnWriteStep
<1> QED
  BY <1>1, <1>2

LEMMA RecordInv ==
  ASSUME LeadInv, NEW w \in Workers, Record(w)
  PROVE  LeadInv'
<1>p. PICK s, r, m : /\ s = ses[w] /\ r = s.new
                     /\ m = Merge(rows[s.email], s.snap, r)
  OBVIOUS
<1>s. /\ Good(s) /\ s \in Session /\ s.pc \in {"record", "record_viewing"} /\ HasLead(s)
      /\ s.email \in Emails /\ s.camp \in Campaign /\ s.no = 0 /\ NewOK(s)
      /\ Copy(s.email, s.snap) /\ s.snap \in Row /\ TypeOK /\ RowOK(s.email)
      /\ s.batch[s.email] = None
      /\ UNCHANGED <<outside, config, bounds>>
  BY <1>p DEF Record, LeadInv, Good, Working, Setting, HasLead, Copy
<1>1. CASE ~Present(w)
  <2>1. Fail(w) /\ UNCHANGED <<rows, raced>>
    BY <1>1 DEF Record
  <2> QED
    BY <1>p, <1>s, <1>1, <2>1, LostOrPresent, FailStep
<1>2. CASE Present(w)
  <2>1. PICK l, t : /\ l = (IF s.pc = "record" THEN "recorded" ELSE "viewed")
                    /\ t = [s EXCEPT !.pc = l, !.snap = r, !.new = None]
    OBVIOUS
  <2>2. Continue(w, t) /\ WriteRow(w, s.email, m) /\ SameRow(s.email, s.snap)
    BY <1>2, <1>p, <2>1 DEF Record, Present, SameRow
  <2>3. /\ r \in Row /\ r.id = s.snap.id /\ Truthful(s.email, r)
        /\ s.snap.contact => r.contact
        /\ r.delivered # s.snap.delivered => r.delivered # {}
    BY <1>p, <1>s DEF NewOK
  <2>4. rows[s.email] # None /\ s.email \notin raced => UpToDate(s.email, r)
    BY <1>p, <1>s DEF NewOK
  <2>5. /\ m \in Row /\ m.id = rows[s.email].id /\ m.id = r.id
        /\ Truthful(s.email, m)
        /\ rows[s.email].contact => m.contact
        /\ rows[s.email].delivered # {} => m.delivered # {}
        /\ r.contact => m.contact
        /\ r.delivered # {} => m.delivered # {}
        /\ s.email \notin raced => m = r
    <3>1. m = Merge(rows[s.email], s.snap, r)
      BY <1>p
    <3> QED
      BY ONLY <1>s, <2>2, <2>3, <3>1, MergeTrue
  <2>6. t \in Session
    <3>1. s \in Session /\ r \in Row \cup {None} /\ l \in Labels_pc
      BY <1>s, <2>1, <2>3 DEF Labels_pc
    <3>2. t = [s EXCEPT !.pc = l, !.snap = r, !.new = None]
      BY <2>1
    <3> QED
      BY ONLY <3>1, <3>2 DEF Session
  <2>7. /\ t.pc \in {"recorded", "viewed"} /\ t.no = 0 /\ t.email = s.email
        /\ t.camp = s.camp /\ t.snap = r /\ t.batch = s.batch /\ t.lost = s.lost
    BY <1>s, <2>1 DEF Session
  <2>8. raced \subseteq raced' /\ raced' \subseteq raced \cup {s.email}
    BY <1>s, <2>2, RacedGrows
  <2>9. Writes(s.email, m)
    BY <1>s, <2>2, <2>5, <2>8 DEF Writes, WriteRow, outside, bounds
  <2>10. rows[s.email] # None /\ m.id <= submits
    BY <1>s, <2>2, <2>5 DEF SameRow, RowOK
  <2>11. OwnWrite(w, s.email, m, t)
    BY <1>p, <1>s, <2>2, <2>3, <2>4, <2>5, <2>6, <2>7, <2>8, <2>9, <2>10 DEF OwnWrite
  <2> QED
    BY <1>s, <2>11, OwnWriteStep
<1> QED
  BY <1>1, <1>2

-----------------------------------------------------------------------------
(* Deletes, the campaign, restarts.                                         *)

LEMMA RemoveGood ==
  ASSUME TypeOK, NEW E \in SUBSET Emails,
         rows' = [e \in Emails |-> IF e \in E THEN None ELSE rows[e]],
         UNCHANGED <<contacts, mailed, submits, raced>>,
         NEW s, Good(s), NEW l, l = (s.lost \/ \E e \in E : Relies(s, e)),
         NEW t, t = [s EXCEPT !.lost = l]
  PROVE  Good(t)' /\ IdsFrom(s, t)
<1>s. s \in Session /\ s.lost \in BOOLEAN /\ l \in BOOLEAN
  BY DEF Good, Session
<1>1. t \in Session
  BY <1>s DEF Session
<1>2. /\ t.pc = s.pc /\ t.no = s.no /\ t.email = s.email /\ t.req = s.req
      /\ t.camp = s.camp /\ t.snap = s.snap /\ t.new = s.new /\ t.batch = s.batch
      /\ t.lost = l
  BY <1>s DEF Session
<1>3. \A e \in Emails : \/ rows'[e] = rows[e] /\ e \notin E
                        \/ rows'[e] = None /\ e \in E
  OBVIOUS
<1>4. \A e \in Emails : \A r : Copy(e, r) => Copy(e, r)'
  BY <1>3 DEF Copy, SameRow, Truthful
<1>5. \A e \in Emails : \A r : SameRow(e, r) /\ e \notin E => SameRow(e, r)'
  BY <1>3 DEF SameRow
<1>6. s.lost => t.lost
  BY <1>2
<1>7. \A e \in Emails : Relies(s, e) /\ e \in E => t.lost
  BY <1>2
<1>8. BatchOK(t)'
  <2>1. SUFFICES ASSUME NEW e \in Emails, s.batch[e] # None
                 PROVE  Copy(e, s.batch[e])' /\ (t.lost \/ SameRow(e, s.batch[e])')
    BY <1>2 DEF BatchOK
  <2>2. Copy(e, s.batch[e]) /\ (s.lost \/ SameRow(e, s.batch[e])) /\ Relies(s, e)
    BY <2>1 DEF Good, BatchOK, Relies
  <2>3. Copy(e, s.batch[e])'
    BY <1>4, <2>2
  <2> QED
    BY <1>5, <1>6, <1>7, <2>2, <2>3
<1>9. HasLead(s) => HasLead(t)'
  <2>1. SUFFICES ASSUME HasLead(s)
                 PROVE  Copy(s.email, s.snap)' /\ (t.lost \/ SameRow(s.email, s.snap)')
    BY <1>2 DEF HasLead
  <2>2. /\ Copy(s.email, s.snap) /\ (s.lost \/ SameRow(s.email, s.snap))
        /\ s.email \in Emails /\ s.snap # None
    BY <2>1, NoneAssumption DEF HasLead, Copy
  <2>3. Copy(s.email, s.snap)' /\ Relies(s, s.email)
    BY <1>4, <2>2 DEF Relies
  <2> QED
    BY <1>5, <1>6, <1>7, <2>2, <2>3
<1>10. HasLead(s) /\ NewOK(s) => NewOK(t)'
  BY <1>2, <1>3 DEF HasLead, NewOK, Truthful, UpToDate
<1>11. s.pc = "recover" => s.snap = None /\ (t.lost \/ rows'[s.email] # None)
  BY <1>3, <1>6, <1>7 DEF Good, Relies
<1>12. Good(t)'
  BY <1>1, <1>2, <1>6, <1>8, <1>9, <1>10, <1>11 DEF Good, Working, Setting
<1>13. IdsFrom(s, t)
  BY ONLY <1>2, IdsFromSnap
<1> QED
  BY <1>12, <1>13

LEMMA RemoveInv ==
  ASSUME LeadInv, NEW E \in SUBSET Emails, Remove(E)
  PROVE  LeadInv'
<1>1. /\ rows' = [e \in Emails |-> IF e \in E THEN None ELSE rows[e]]
      /\ UNCHANGED <<contacts, mailed, submits, raced, seconds, campaign, settings, faults>>
      /\ StaffStep /\ TypeOK
  BY DEF Remove, outside, config, LeadInv
<1>2. ASSUME NEW w \in Workers PROVE Good(ses[w])' /\ IdsFrom(ses[w], ses'[w])
  <2>1. PICK s, l, t : /\ s = ses[w] /\ l = (s.lost \/ \E e \in E : Relies(s, e))
                       /\ t = [s EXCEPT !.lost = l]
    OBVIOUS
  <2>2. Good(s)
    BY <2>1 DEF LeadInv
  <2>3. ses'[w] = t
    BY <2>1 DEF Remove, Holds, Relies
  <2>4. Good(t)' /\ IdsFrom(s, t)
    BY <1>1, <2>1, <2>2, RemoveGood
  <2> QED
    BY <2>1, <2>3, <2>4
<1>3. ses' \in [Workers -> Session]
  <2>1. ses' = [w \in Workers |-> ses'[w]]
    BY DEF Remove
  <2>2. \A w \in Workers : ses'[w] \in Session
    BY <1>2 DEF Good
  <2> QED
    BY <2>1, <2>2
<1>4. TypeOK'
  <2>1. staff' \in 0 .. MaxStaff
    BY <1>1, BoundsKept
  <2>2. rows' \in [Emails -> Row \cup {None}]
    BY <1>1 DEF TypeOK
  <2> QED
    BY <1>1, <1>3, <2>1, <2>2 DEF TypeOK
<1>5. \A e \in Emails : rows'[e] # None => rows'[e] = rows[e]
  BY <1>1
<1>6. ASSUME NEW e \in Emails PROVE RowOK(e)'
  <2>1. RowOK(e)
    BY DEF LeadInv
  <2> QED
    BY <1>1, <1>5, <2>1 DEF RowOK, Truthful, UpToDate
<1>7. Fresh'
  <2>1. SUFFICES ASSUME NEW w \in Workers, ses'[w].no # 0
        PROVE  /\ ses'[w].no <= submits'
               /\ \A e \in Emails : rows'[e] # None => rows'[e].id # ses'[w].no
               /\ \A v \in Workers : /\ ~UsesId(ses'[v], ses'[w].no)
                                     /\ v # w => ses'[v].no # ses'[w].no
    BY DEF Fresh, UsesId
  <2>2. \A v \in Workers : ses'[v].no # 0 => ses'[v].no = ses[v].no
    BY <1>2 DEF IdsFrom
  <2>3. /\ ses[w].no # 0 /\ ses[w].no <= submits
        /\ \A e \in Emails : rows[e] # None => rows[e].id # ses[w].no
        /\ \A v \in Workers : ~UsesId(ses[v], ses[w].no) /\ (v # w => ses[v].no # ses[w].no)
    BY <2>1, <2>2 DEF LeadInv, Fresh
  <2>4. ses[w].no \in Ids
    BY <1>1, <2>3, LeadAssumptions DEF TypeOK, Session, Ids
  <2>5. \A v \in Workers : ~UsesId(ses'[v], ses[w].no)
    BY <1>2, <2>3, <2>4 DEF IdsFrom
  <2> QED
    BY <1>1, <1>5, <2>1, <2>2, <2>3, <2>5
<1> QED
  BY <1>2, <1>4, <1>6, <1>7 DEF LeadInv

LEMMA UpdateCampaignInv ==
  ASSUME LeadInv, NEW c \in Campaigns, UpdateCampaign(c)
  PROVE  LeadInv'
<1>1. /\ UNCHANGED <<rows, contacts, seconds, mailed, settings, ses, submits, faults, raced>>
      /\ campaign' = c /\ StaffStep /\ TypeOK
  BY DEF UpdateCampaign, outside, LeadInv
<1>2. TypeOK'
  BY <1>1, BoundsKept, LeadAssumptions DEF TypeOK
<1>3. Quiet
  BY <1>1, StillQuiet DEF Still
<1>4. \A e \in Emails : RowOK(e)'
  BY <1>1, <1>3, RowQuiet DEF LeadInv
<1>5. ASSUME NEW w \in Workers PROVE Good(ses[w])'
  <2>1. \A s : Good(s) => Good(s)'
    BY <1>1, <1>3, GoodQuiet
  <2>2. Good(ses[w]) /\ ses'[w] = ses[w]
    BY <1>1 DEF LeadInv
  <2> QED
    BY <2>1, <2>2
<1>6. Fresh'
  BY <1>1 DEF LeadInv, Fresh, UsesId
<1> QED
  BY <1>2, <1>4, <1>5, <1>6 DEF LeadInv

LEMMA RestartInv ==
  ASSUME LeadInv, NEW c \in SettingsChoices, Restart(c)
  PROVE  LeadInv'
<1>1. /\ UNCHANGED <<rows, contacts, seconds, mailed, campaign, submits, staff, raced>>
      /\ settings' = c /\ faults' \in 0 .. MaxFaults /\ TypeOK
      /\ ses' = [w \in Workers |-> Closed]
  BY BoundsKept DEF Restart, outside, LeadInv
<1>2. TypeOK'
  BY <1>1, ClosedType, LeadAssumptions DEF TypeOK
<1>3. Quiet
  BY <1>1, StillQuiet DEF Still
<1>4. \A e \in Emails : RowOK(e)'
  BY <1>1, <1>3, RowQuiet DEF LeadInv
<1>5. ASSUME NEW w \in Workers PROVE Good(ses[w])'
  <2>1. Good(Closed)'
    BY <1>1, <1>3, ClosedGood, GoodQuiet
  <2>2. ses'[w] = Closed
    BY <1>1
  <2> QED
    BY <2>1, <2>2
<1>6. Fresh'
  BY <1>1 DEF Fresh, Closed
<1> QED
  BY <1>2, <1>4, <1>5, <1>6 DEF LeadInv

-----------------------------------------------------------------------------
(* The theorems.                                                            *)

LEMMA LeadInvInit == Init => LeadInv
<1> SUFFICES ASSUME Init PROVE LeadInv
  OBVIOUS
<1>1. TypeOK
  BY ClosedType, LeadAssumptions DEF Init, TypeOK
<1>2. Fresh
  BY DEF Init, Fresh, Closed
<1>3. \A e \in Emails : RowOK(e)
  BY DEF Init, RowOK
<1>4. \A w \in Workers : Good(ses[w])
  BY ClosedGood DEF Init
<1> QED
  BY <1>1, <1>2, <1>3, <1>4 DEF LeadInv

LEMMA LeadInvNext == LeadInv /\ [Next]_vars => LeadInv'
<1> SUFFICES ASSUME LeadInv, [Next]_vars PROVE LeadInv'
  OBVIOUS
<1>w. Captures \subseteq Workers /\ Packers \subseteq Workers /\ Syncers \subseteq Workers
  BY DEF Workers
<1>1. ASSUME NEW w \in Captures, NEW e \in Emails, NEW p \in Payloads,
             CaptureStart(w, e, p)
      PROVE  LeadInv'
  BY <1>1, CaptureStartInv
<1>2. ASSUME NEW w \in Captures, CaptureStep(w) PROVE LeadInv'
  BY <1>2, CaptureInsertInv, CaptureRecoverInv, CaptureMergeInv, CaptureSavedInv
  DEF CaptureStep
<1>3. ASSUME NEW w \in Workers, CommonStep(w) PROVE LeadInv'
  BY <1>3, MailPackInv, MailViewingInv, RecordInv, RecordedInv, GiveUpInv DEF CommonStep
<1>4. ASSUME NEW w \in Packers, PackSweep(w) \/ PackNext(w) PROVE LeadInv'
  BY <1>w, <1>4, SweepInv, NextInv
<1>5. ASSUME NEW w \in Packers, NEW e \in Emails, Resend(w, e) PROVE LeadInv'
  BY <1>w, <1>5, ForcedInv
<1>6. ASSUME NEW w \in Syncers, SyncSweep(w) \/ SyncNext(w) \/ Push(w) \/ PushSecond(w)
      PROVE  LeadInv'
  BY <1>w, <1>6, SweepInv, NextInv, PushInv, PushSecondInv
<1>7. ASSUME NEW w \in Syncers, NEW e \in Emails, SyncForce(w, e) PROVE LeadInv'
  BY <1>w, <1>7, ForcedInv
<1>8. ASSUME Staff PROVE LeadInv'
  <2>1. ASSUME NEW e \in Emails, DeleteLead(e) PROVE LeadInv'
    <3>1. {e} \in SUBSET Emails /\ Remove({e})
      BY <2>1 DEF DeleteLead
    <3> QED
      BY <3>1, RemoveInv
  <2>2. ASSUME NEW f, BulkDelete(f) PROVE LeadInv'
    <3>1. PICK E \in SUBSET Emails : Remove(E)
      BY <2>2 DEF BulkDelete
    <3> QED
      BY <3>1, RemoveInv
  <2>3. ASSUME NEW c \in Campaigns, UpdateCampaign(c) PROVE LeadInv'
    BY <2>3, UpdateCampaignInv
  <2> QED
    BY <1>8, <2>1, <2>2, <2>3 DEF Staff
<1>9. ASSUME NEW c \in SettingsChoices, Restart(c) PROVE LeadInv'
  BY <1>9, RestartInv
<1>10. CASE UNCHANGED vars
  <2>1. UNCHANGED <<rows, contacts, seconds, mailed, campaign, settings, ses,
                    submits, faults, staff, raced>>
    BY <1>10 DEF vars, outside, config, bounds
  <2>2. TypeOK /\ TypeOK'
    BY <2>1 DEF LeadInv, TypeOK
  <2>3. Quiet
    BY <2>1, <2>2, StillQuiet DEF Still
  <2>4. \A e \in Emails : RowOK(e)'
    BY <2>2, <2>3, RowQuiet DEF LeadInv
  <2>5. ASSUME NEW w \in Workers PROVE Good(ses[w])'
    <3>1. \A s : Good(s) => Good(s)'
      BY <2>2, <2>3, GoodQuiet
    <3>2. Good(ses[w]) /\ ses'[w] = ses[w]
      BY <2>1 DEF LeadInv
    <3> QED
      BY <3>1, <3>2
  <2>6. Fresh'
    BY <2>1 DEF LeadInv, Fresh, UsesId
  <2> QED
    BY <2>2, <2>4, <2>5, <2>6 DEF LeadInv
<1> QED
  BY <1>1, <1>2, <1>3, <1>4, <1>5, <1>6, <1>7, <1>8, <1>9, <1>10 DEF Next

LEMMA LeadInvariant == Spec => []LeadInv
  BY LeadInvInit, LeadInvNext, PTL DEF Spec

\* Every variable keeps its type, the copies that sessions hold included.
THEOREM TypeCorrect == Spec => []TypeOK
<1>1. LeadInv => TypeOK
  BY DEF LeadInv
<1> QED
  BY <1>1, LeadInvariant, PTL

\* The status columns tell the truth (lead_crm_sync's and campaign_mailer's
\* updates), however captures, sweeps, deletes and restarts interleave.
THEOREM StatusTrue == Spec => []StatusIsTrue
<1>1. LeadInv => StatusIsTrue
  BY DEF LeadInv, RowOK, Truthful, StatusIsTrue
<1> QED
  BY <1>1, LeadInvariant, PTL

\* A session ends in an unhandled error only if a lead it had loaded was
\* deleted: create_or_update's recovery from the insert race never fails.
THEOREM OnlyDeletesFail == Spec => []FailsOnlyOnDelete
<1>1. LeadInv => FailsOnlyOnDelete
  BY DEF LeadInv, Good, FailsOnlyOnDelete
<1> QED
  BY <1>1, LeadInvariant, PTL

-----------------------------------------------------------------------------
(* The second participant.                                                  *)

\* If r says synced, its second participant is a contact or a call has failed.
SecondOK(e, r) == r.crm = "synced" /\ r.second => e \in seconds \/ faults > 0

\* What a session is about to record says no more than that either.
SecondNew(s) ==
    /\ s.pc \in {"record", "record_viewing"}
    /\ rows[s.email] # None /\ s.email \notin raced
    => SecondOK(s.email, s.new)

SecondInv ==
    /\ \A e \in Emails \ raced : rows[e] # None => SecondOK(e, rows[e])
    /\ \A w \in Workers : SecondNew(ses[w])

\* The contacts of second participants and the failed calls are never undone.
SecondGrows == seconds \subseteq seconds' /\ (faults > 0 => faults' > 0)

LEMMA SecondKept ==
  ASSUME SecondGrows, UNCHANGED <<rows, raced>>
  PROVE  /\ \A e, r : SecondOK(e, r) => SecondOK(e, r)'
         /\ \A s : SecondNew(s) => SecondNew(s)'
<1>1. ASSUME NEW e, NEW r, SecondOK(e, r) PROVE SecondOK(e, r)'
  BY <1>1 DEF SecondOK, SecondGrows
<1>2. ASSUME NEW s, SecondNew(s) PROVE SecondNew(s)'
  BY <1>1, <1>2 DEF SecondNew
<1> QED
  BY <1>1, <1>2

LEMMA SecondSame ==
  ASSUME UNCHANGED <<outside, faults>>
  PROVE  SecondGrows
  BY DEF SecondGrows, outside

\* A step of one session that writes no row.
LEMMA SecondStep ==
  ASSUME TypeOK, SecondInv, SecondGrows, UNCHANGED <<rows, raced>>,
         NEW w \in Workers, NEW t, Continue(w, t),
         SecondNew(t) \/ SecondNew(t)'
  PROVE  SecondInv'
<1>1. ses' = [ses EXCEPT ![w] = t] /\ ses \in [Workers -> Session]
  BY DEF Continue, TypeOK
<1>2. ASSUME NEW e \in Emails \ raced, rows[e] # None PROVE SecondOK(e, rows[e])'
  BY <1>2, SecondKept DEF SecondInv
<1>3. ASSUME NEW v \in Workers PROVE SecondNew(ses[v])'
  <2>1. CASE v = w
    <3>1. SecondNew(t)'
      BY SecondKept
    <3>2. ses'[v] = t
      BY <1>1, <2>1
    <3> QED
      BY <3>1, <3>2 DEF SecondNew, SecondOK
  <2>2. CASE v # w
    <3>1. ses'[v] = ses[v] /\ SecondNew(ses[v])
      BY <1>1, <2>2 DEF SecondInv
    <3>2. PICK s : s = ses[v]
      OBVIOUS
    <3>3. SecondNew(s)'
      BY <3>1, <3>2, SecondKept
    <3> QED
      BY <3>1, <3>2, <3>3 DEF SecondNew, SecondOK
  <2> QED
    BY <2>1, <2>2
<1> QED
  BY <1>2, <1>3 DEF SecondInv

\* A session that is elsewhere, a failed one and a closed one record nothing.
LEMMA SecondElsewhere ==
  ASSUME NEW t, t.pc \notin {"record", "record_viewing"}
  PROVE  SecondNew(t) /\ SecondNew(t)'
  BY DEF SecondNew

LEMMA SecondClosed ==
  ASSUME TypeOK, SecondInv, SecondGrows, UNCHANGED <<rows, raced>>,
         NEW w \in Workers, Close(w) \/ Fail(w)
  PROVE  SecondInv'
<1>1. Closed.pc = "idle"
      /\ [Closed EXCEPT !.pc = "error", !.lost = ses[w].lost].pc = "error"
  BY DEF Closed
<1>2. PICK t : Continue(w, t) /\ t.pc \in {"idle", "error"}
  BY <1>1 DEF Close, Fail
<1> QED
  BY <1>2, SecondElsewhere, SecondStep

\* deliver_pack and sync_lead leave the CRM status alone or say skipped.
LEMMA SecondTurn ==
  ASSUME SecondInv, NEW s, s \in Session, s.email \in Emails, s.snap \in Row,
         rows[s.email] # None /\ s.email \notin raced => s.snap = rows[s.email]
  PROVE  /\ SecondNew(DeliverPack(s))
         /\ \A a : SecondNew(SyncLead(s, a))
<1>1. rows[s.email] # None /\ s.email \notin raced => SecondOK(s.email, s.snap)
  BY DEF SecondInv
<1>2. SecondNew(DeliverPack(s))
  <2>1. PICK u : u = Undeliverable(s.snap, s.camp)
    OBVIOUS
  <2>2. u.crm = s.snap.crm /\ u.second = s.snap.second
    BY <2>1 DEF Undeliverable, Row
  <2>3. CASE DeliverPack(s) = [s EXCEPT !.pc = "mail"]
    <3>1. DeliverPack(s).pc = "mail"
      BY <2>3 DEF Session
    <3> QED
      BY <3>1, SecondElsewhere
  <2>4. CASE DeliverPack(s) = [s EXCEPT !.pc = "record", !.new = u]
    <3>1. DeliverPack(s).email = s.email /\ DeliverPack(s).new = u
      BY <2>4 DEF Session
    <3> QED
      BY <1>1, <2>2, <3>1 DEF SecondNew, SecondOK
  <2> QED
    BY <2>1, <2>3, <2>4 DEF DeliverPack
<1>3. ASSUME NEW a PROVE SecondNew(SyncLead(s, a))
  <2>1. PICK u : u = [s.snap EXCEPT !.crm = "skipped"]
    OBVIOUS
  <2>2. u.crm # "synced"
    BY <2>1 DEF Row
  <2>3. CASE SyncLead(s, a) = [s EXCEPT !.pc = "push"]
    <3>1. SyncLead(s, a).pc = "push"
      BY <2>3 DEF Session
    <3> QED
      BY <3>1, SecondElsewhere
  <2>4. CASE SyncLead(s, a) = [s EXCEPT !.pc = "record", !.new = u]
    <3>1. SyncLead(s, a).email = s.email /\ SyncLead(s, a).new = u
      BY <2>4 DEF Session
    <3> QED
      BY <2>2, <3>1 DEF SecondNew, SecondOK
  <2> QED
    BY <2>1, <2>3, <2>4 DEF SyncLead
<1> QED
  BY <1>2, <1>3

\* A write of e's row: whoever else is about to record e's lead is raced.
LEMMA SecondWrite ==
  ASSUME LeadInv, SecondInv, UNCHANGED <<outside, bounds>>,
         NEW w \in Workers, NEW e \in Emails, NEW r, WriteRow(w, e, r),
         NEW t, Continue(w, t), t.pc \notin {"record", "record_viewing"},
         e \notin raced => SecondOK(e, r)
  PROVE  SecondInv'
<1>1. /\ ses' = [ses EXCEPT ![w] = t] /\ ses \in [Workers -> Session]
      /\ rows' = [rows EXCEPT ![e] = r] /\ rows \in [Emails -> Row \cup {None}]
      /\ raced \subseteq raced' /\ raced' \subseteq raced \cup {e}
      /\ UNCHANGED <<seconds, faults>>
  BY RacedGrows DEF Continue, WriteRow, LeadInv, TypeOK, outside, bounds
<1>2. ASSUME NEW f \in Emails \ raced', rows'[f] # None PROVE SecondOK(f, rows[f])'
  <2>1. CASE f = e
    BY <1>1, <2>1 DEF SecondOK
  <2>2. CASE f # e
    BY <1>1, <1>2, <2>2 DEF SecondInv, SecondOK
  <2> QED
    BY <2>1, <2>2
<1>3. ASSUME NEW v \in Workers PROVE SecondNew(ses[v])'
  <2>1. CASE v = w
    BY <1>1, <2>1 DEF SecondNew
  <2>2. CASE v # w
    <3>1. ses'[v] = ses[v] /\ SecondNew(ses[v]) /\ Good(ses[v])
      BY <1>1, <2>2 DEF SecondInv, LeadInv
    <3>2. SUFFICES ASSUME ses[v].pc \in {"record", "record_viewing"},
                          rows'[ses[v].email] # None, ses[v].email \notin raced'
                   PROVE  SecondOK(ses[v].email, ses[v].new)'
      BY <3>1 DEF SecondNew, SecondOK
    <3>3. ses[v].email \in Emails /\ ses[v].snap \in Row
      BY <3>1, <3>2 DEF Good, Working, HasLead, Copy
    <3>4. ses[v].email # e
      <4>1. ASSUME ses[v].email = e PROVE FALSE
        <5>1. Holds(v, e)
          BY <3>3, <4>1, NoneAssumption DEF Holds
        <5> QED
          BY <2>2, <3>2, <4>1, <5>1 DEF WriteRow
      <4> QED
        BY <4>1
    <3>5. SecondOK(ses[v].email, ses[v].new)
      BY <1>1, <3>1, <3>2, <3>3, <3>4 DEF SecondNew
    <3> QED
      BY <1>1, <3>1, <3>5 DEF SecondOK
  <2> QED
    BY <2>1, <2>2
<1> QED
  BY <1>2, <1>3 DEF SecondInv

LEMMA SecondCapture ==
  ASSUME LeadInv, SecondInv, NEW w \in Captures, CaptureStep(w)
  PROVE  SecondInv'
<1>p. PICK s : s = ses[w]
  OBVIOUS
<1>s. w \in Workers /\ TypeOK /\ s \in Session /\ Good(s)
  BY <1>p DEF Workers, LeadInv, TypeOK
<1>1. CASE CaptureInsert(w)
  <2>1. /\ s.email \in Emails /\ s.pc = "save" /\ s.snap = None
        /\ UNCHANGED <<outside, config, bounds>>
    BY <1>p, <1>s, <1>1 DEF CaptureInsert, Good
  <2>2. SecondGrows
    BY <2>1, SecondSame DEF bounds
  <2>3. CASE rows[s.email] = None
    <3>1. PICK r, t : /\ r = NewLead(s.no, s.req)
                      /\ t = [s EXCEPT !.pc = "saved", !.created = TRUE, !.no = 0,
                                       !.req = None, !.snap = r]
      OBVIOUS
    <3>2. WriteRow(w, s.email, r) /\ Continue(w, t)
      BY <1>p, <1>1, <2>3, <3>1 DEF CaptureInsert
    <3>3. t.pc = "saved"
      BY <1>s, <3>1 DEF Session
    <3>4. SecondOK(s.email, r)
      BY <3>1 DEF SecondOK, NewLead
    <3> QED
      BY <1>s, <2>1, <3>2, <3>3, <3>4, SecondWrite
  <2>4. CASE rows[s.email] # None
    <3>1. PICK t : t = [s EXCEPT !.pc = "recover"]
      OBVIOUS
    <3>2. Continue(w, t) /\ UNCHANGED <<rows, raced>>
      BY <1>p, <1>1, <2>4, <3>1 DEF CaptureInsert
    <3>3. t.pc = "recover"
      BY <1>s, <3>1 DEF Session
    <3> QED
      BY <1>s, <2>2, <3>2, <3>3, SecondElsewhere, SecondStep
  <2> QED
    BY <2>3, <2>4
<1>2. CASE CaptureRecover(w)
  <2>1. SecondGrows /\ UNCHANGED <<rows, raced>>
    BY <1>2, SecondSame DEF CaptureRecover, bounds
  <2>2. CASE Fail(w)
    BY <1>s, <2>1, <2>2, SecondClosed
  <2>3. CASE ~Fail(w)
    <3>1. PICK t : t = [s EXCEPT !.pc = "save", !.snap = rows[s.email],
                                 !.camp = campaign]
      OBVIOUS
    <3>2. Continue(w, t)
      BY <1>p, <1>2, <2>3, <3>1 DEF CaptureRecover
    <3>3. t.pc = "save"
      BY <1>s, <3>1 DEF Session
    <3> QED
      BY <1>s, <2>1, <3>2, <3>3, SecondElsewhere, SecondStep
  <2> QED
    BY <2>2, <2>3
<1>3. CASE CaptureMerge(w)
  <2>1. /\ s.email \in Emails /\ s.snap \in Row /\ Copy(s.email, s.snap)
        /\ UNCHANGED <<outside, config, bounds>>
    BY <1>p, <1>s, <1>3 DEF CaptureMerge, Good, HasLead, Copy
  <2>2. SecondGrows
    BY <2>1, SecondSame DEF bounds
  <2>3. CASE Present(w)
    <3>1. PICK r, m, t : /\ r = ApplyPayload(s.snap, s.req)
                         /\ m = Merge(rows[s.email], s.snap, r)
                         /\ t = [s EXCEPT !.pc = "saved", !.no = 0, !.req = None,
                                          !.snap = r]
      OBVIOUS
    <3>2. WriteRow(w, s.email, m) /\ Continue(w, t)
      BY <1>p, <1>3, <2>3, <3>1 DEF CaptureMerge
    <3>3. t.pc = "saved"
      BY <1>s, <3>1 DEF Session
    <3>4. s.email \notin raced => SecondOK(s.email, m)
      <4>1. SUFFICES ASSUME s.email \notin raced PROVE m.crm # "synced"
        BY DEF SecondOK
      <4>2. rows[s.email] # None
        BY <1>p, <2>3 DEF Present
      <4>3. rows[s.email] = s.snap /\ r.crm = "pending"
        BY <2>1, <3>1, <4>1, <4>2 DEF Copy, ApplyPayload, Row
      <4> QED
        BY <2>1, <3>1, <4>3 DEF Merge, Row
    <3> QED
      BY <1>s, <2>1, <3>2, <3>3, <3>4, SecondWrite
  <2>4. CASE ~Present(w)
    BY <1>s, <1>3, <2>2, <2>4, SecondClosed DEF CaptureMerge
  <2> QED
    BY <2>3, <2>4
<1>4. CASE CaptureSaved(w)
  <2>1. SecondGrows /\ UNCHANGED <<rows, raced>> /\ s.pc = "saved"
    BY <1>p, <1>4, SecondSame DEF CaptureSaved, bounds
  <2>2. CASE Fail(w)
    BY <1>s, <2>1, <2>2, SecondClosed
  <2>3. CASE ~Fail(w)
    <3>1. PICK t : t = [s EXCEPT !.snap = rows[s.email]]
      OBVIOUS
    <3>2. Continue(w, IF t.snap.pack = "pending" THEN DeliverPack(t) ELSE AfterCapture(t))
          /\ Present(w)
      BY <1>p, <1>4, <2>3, <3>1 DEF CaptureSaved
    <3>3. s.email \in Emails /\ rows[s.email] \in Row
      BY <1>p, <1>s, <2>1, <3>2 DEF Good, Working, HasLead, Present, TypeOK
    <3>4. t \in Session /\ t.email = s.email /\ t.snap = rows[s.email] /\ t.pc = "saved"
      BY <1>s, <2>1, <3>1, <3>3 DEF Session
    <3>5. SecondNew(DeliverPack(t))
      BY <3>3, <3>4, SecondTurn
    <3>6. SecondNew(AfterCapture(t))
      BY <3>4 DEF SecondNew, AfterCapture, Closed, Session
    <3>7. PICK u : Continue(w, u) /\ SecondNew(u)
      BY <3>2, <3>5, <3>6
    <3> QED
      BY <1>s, <2>1, <3>7, SecondStep
  <2> QED
    BY <2>2, <2>3
<1> QED
  BY <1>1, <1>2, <1>3, <1>4 DEF CaptureStep

LEMMA SecondMails ==
  ASSUME LeadInv, SecondInv, NEW w \in Workers, MailPack(w) \/ MailViewing(w)
  PROVE  SecondInv'
<1>p. PICK s : s = ses[w]
  OBVIOUS
<1>a. TypeOK /\ s \in Session /\ Good(s) /\ faults \in Nat
  BY <1>p, LeadAssumptions DEF LeadInv, TypeOK
<1>b. s.pc \in {"mail", "viewing"} /\ UNCHANGED <<rows, raced, seconds>>
  BY <1>p DEF MailPack, MailViewing
<1>s. /\ TypeOK /\ s \in Session /\ s.email \in Emails /\ s.snap \in Row
      /\ UNCHANGED <<rows, raced, seconds>> /\ faults \in Nat
  BY <1>a, <1>b DEF Good, Working, HasLead, Copy
<1>1. SecondGrows
  BY <1>s DEF MailPack, MailViewing, SecondGrows
<1>2. CASE Close(w)
  BY <1>s, <1>1, <1>2, SecondClosed
<1>3. ASSUME NEW l \in {"record", "record_viewing"}, NEW docs,
             Continue(w, [s EXCEPT !.pc = l, !.new = MarkDelivered(s.snap, docs)])
      PROVE  SecondInv'
  <2>1. PICK n, t : /\ n = MarkDelivered(s.snap, docs)
                    /\ t = [s EXCEPT !.pc = l, !.new = n]
    OBVIOUS
  <2>2. n.crm # "synced" /\ t.new = n
    BY <1>s, <2>1 DEF MarkDelivered, Row, Session
  <2>3. SecondNew(t)
    BY <2>2 DEF SecondNew, SecondOK
  <2> QED
    BY <1>s, <1>1, <1>3, <2>1, <2>3, SecondStep
<1>4. ASSUME NEW t, Continue(w, t), faults' > 0
      PROVE  SecondInv'
  <2>1. SecondNew(t)'
    BY <1>4 DEF SecondNew, SecondOK
  <2> QED
    BY <1>s, <1>1, <1>4, <2>1, SecondStep
<1>5. CASE MailPack(w)
  <2>1. CASE Continue(w, [s EXCEPT !.pc = "record",
                                   !.new = [s.snap EXCEPT !.pack = "failed"]])
             /\ faults' = faults + 1
    BY <1>s, <1>4, <2>1
  <2>2. CASE Continue(w, [s EXCEPT !.pc = "record",
                    !.new = MarkDelivered(s.snap, Deliverable(s.snap, s.camp))])
    BY <1>3, <2>2
  <2> QED
    BY <1>p, <1>5, <2>1, <2>2 DEF MailPack
<1>6. CASE MailViewing(w)
  <2>1. CASE Continue(w, [s EXCEPT !.pc = "record_viewing",
                    !.new = MarkDelivered(s.snap, AllMaterials(s.camp))])
    BY <1>3, <2>1
  <2> QED
    BY <1>p, <1>2, <1>6, <2>1 DEF MailViewing
<1> QED
  BY <1>5, <1>6

LEMMA SecondRecord ==
  ASSUME LeadInv, SecondInv, NEW w \in Workers, Record(w)
  PROVE  SecondInv'
<1>p. PICK s, m : s = ses[w] /\ m = Merge(rows[s.email], s.snap, s.new)
  OBVIOUS
<1>s. /\ TypeOK /\ s \in Session /\ s.pc \in {"record", "record_viewing"}
      /\ HasLead(s) /\ NewOK(s) /\ SecondNew(s)
      /\ UNCHANGED <<outside, bounds>>
  BY <1>p DEF Record, LeadInv, TypeOK, Good, Working, Setting, SecondInv
<1>1. SecondGrows
  BY <1>s, SecondSame DEF bounds
<1>2. CASE ~Present(w)
  BY <1>s, <1>1, <1>2, SecondClosed DEF Record
<1>3. CASE Present(w)
  <2>1. PICK l, t : /\ l = (IF s.pc = "record" THEN "recorded" ELSE "viewed")
                    /\ t = [s EXCEPT !.pc = l, !.snap = s.new, !.new = None]
    OBVIOUS
  <2>2. Continue(w, t) /\ WriteRow(w, s.email, m) /\ rows[s.email] # None
    BY <1>p, <1>3, <2>1 DEF Record, Present
  <2>3. t.pc \notin {"record", "record_viewing"}
    BY <1>s, <2>1 DEF Session
  <2>4. s.email \notin raced => SecondOK(s.email, m)
    <3>1. SUFFICES ASSUME s.email \notin raced PROVE SecondOK(s.email, m)
      OBVIOUS
    <3>2. /\ rows[s.email] = s.snap /\ s.snap \in Row /\ s.new \in Row
          /\ SecondOK(s.email, s.new)
      BY <1>s, <2>2, <3>1 DEF HasLead, Copy, NewOK, SecondNew
    <3>3. m.crm = s.new.crm /\ m.second = s.new.second
      BY <1>p, <3>2 DEF Merge, Row
    <3> QED
      BY <3>2, <3>3 DEF SecondOK
  <2> QED
    BY <1>s, <2>2, <2>3, <2>4, SecondWrite DEF HasLead
<1> QED
  BY <1>2, <1>3

LEMMA SecondRecorded ==
  ASSUME LeadInv, SecondInv, NEW w \in Workers, Recorded(w)
  PROVE  SecondInv'
<1>p. PICK s, t : s = ses[w] /\ t = [s EXCEPT !.snap = rows[s.email]]
  OBVIOUS
<1>s. /\ TypeOK /\ s \in Session /\ s.pc \in {"recorded", "viewed"}
      /\ UNCHANGED <<rows, raced>> /\ SecondGrows
  BY <1>p, SecondSame DEF Recorded, LeadInv, TypeOK, bounds
<1>1. CASE Fail(w) \/ Close(w)
  BY <1>s, <1>1, SecondClosed
<1>2. t.pc = s.pc /\ [t EXCEPT !.pc = "viewing"].pc = "viewing"
      /\ [t EXCEPT !.pc = "next", !.email = None, !.snap = None].pc = "next"
  BY <1>p, <1>s DEF Session
<1>3. CASE Continue(w, [t EXCEPT !.pc = "viewing"])
  BY <1>s, <1>2, <1>3, SecondElsewhere, SecondStep
<1>4. CASE Continue(w, [t EXCEPT !.pc = "next", !.email = None, !.snap = None])
  BY <1>s, <1>2, <1>4, SecondElsewhere, SecondStep
<1> QED
  BY <1>p, <1>1, <1>2, <1>3, <1>4 DEF Recorded, AfterCapture, Close

LEMMA SecondSweep ==
  ASSUME LeadInv, SecondInv, NEW w \in Workers,
         PackSweep(w) \/ SyncSweep(w) \/ PackNext(w) \/ SyncNext(w)
  PROVE  SecondInv'
<1>p. PICK s : s = ses[w]
  OBVIOUS
<1>s. /\ TypeOK /\ s \in Session /\ BatchOK(s) /\ UNCHANGED <<rows, raced>> /\ SecondGrows
      /\ campaign \in Campaign
  BY <1>p, SecondSame
  DEF PackSweep, SyncSweep, PackNext, SyncNext, LeadInv, TypeOK, Good, bounds
<1>1. ASSUME NEW B, Load(w, B) PROVE SecondInv'
  <2>1. PICK b, t : t = [Closed EXCEPT !.pc = "next", !.batch = b] /\ Continue(w, t)
    BY <1>1 DEF Load
  <2>2. t.pc = "next"
    BY <2>1 DEF Closed
  <2> QED
    BY <1>s, <2>1, <2>2, SecondElsewhere, SecondStep
<1>2. CASE Close(w)
  BY <1>s, <1>2, SecondClosed
<1>3. ASSUME NEW e \in Emails, First(s.batch, e)
      PROVE  /\ SecondNew(DeliverPack(Work(s, e)))
             /\ \A a : SecondNew(SyncLead(Work(s, e), a))
  <2>1. PICK t : t = Work(s, e)
    OBVIOUS
  <2>2. Copy(e, s.batch[e]) /\ s.batch[e] \in Row
    BY <1>s, <1>3 DEF First, BatchOK, Copy
  <2>3. t.email = e /\ t.snap = s.batch[e]
    BY <1>s, <2>1 DEF Work, Session
  <2>4. t \in Session
    BY <1>s, <1>3, <2>1, <2>2 DEF Work, Session
  <2>5. rows[e] # None /\ e \notin raced => t.snap = rows[e]
    BY <2>2, <2>3 DEF Copy
  <2> QED
    BY <2>1, <2>2, <2>3, <2>4, <2>5, SecondTurn
<1>4. CASE PackNext(w)
  <2>1. SUFFICES ASSUME NEW e \in Emails, First(s.batch, e),
                        Continue(w, DeliverPack(Work(s, e)))
                 PROVE  SecondInv'
    BY <1>p, <1>2, <1>4 DEF PackNext
  <2> QED
    BY <1>s, <1>3, <2>1, SecondStep
<1>5. CASE SyncNext(w)
  <2>1. SUFFICES ASSUME NEW e \in Emails, First(s.batch, e),
                        Continue(w, SyncLead(Work(s, e), Work(s, e).camp.sync))
                 PROVE  SecondInv'
    BY <1>p, <1>2, <1>5 DEF SyncNext
  <2> QED
    BY <1>s, <1>3, <2>1, SecondStep
<1> QED
  BY <1>1, <1>4, <1>5 DEF PackSweep, SyncSweep

LEMMA SecondForced ==
  ASSUME LeadInv, SecondInv, NEW w \in Workers, NEW e \in Emails,
         Resend(w, e) \/ SyncForce(w, e)
  PROVE  SecondInv'
<1>p. PICK s : s = [Closed EXCEPT !.email = e, !.camp = campaign, !.snap = rows[e]]
  OBVIOUS
<1>s. /\ TypeOK /\ rows[e] \in Row /\ UNCHANGED <<rows, raced>> /\ SecondGrows
      /\ campaign \in Campaign
  BY SecondSame DEF Resend, SyncForce, LeadInv, TypeOK
<1>1. s \in Session /\ s.email = e /\ s.snap = rows[e]
  BY <1>p, <1>s, ClosedType DEF Session
<1>2. SecondNew(DeliverPack(s)) /\ \A a : SecondNew(SyncLead(s, a))
  BY <1>s, <1>1, SecondTurn
<1>3. [s EXCEPT !.pc = "viewing"].pc = "viewing"
  BY <1>1 DEF Session
<1>4. SecondNew([s EXCEPT !.pc = "viewing"])
  BY <1>3, SecondElsewhere
<1>5. PICK t : Continue(w, t) /\ SecondNew(t)
  BY <1>p, <1>2, <1>4 DEF Resend, SyncForce
<1> QED
  BY <1>s, <1>5, SecondStep

LEMMA SecondPush ==
  ASSUME LeadInv, SecondInv, NEW w \in Workers, Push(w) \/ PushSecond(w)
  PROVE  SecondInv'
<1>p. PICK s : s = ses[w]
  OBVIOUS
<1>a. TypeOK /\ s \in Session /\ Good(s) /\ faults \in Nat
  BY <1>p, LeadAssumptions DEF LeadInv, TypeOK
<1>b. s.pc \in {"push", "second"} /\ UNCHANGED <<rows, raced>>
  BY <1>p DEF Push, PushSecond
<1>s. /\ TypeOK /\ s \in Session /\ s.email \in Emails /\ s.snap \in Row
      /\ UNCHANGED <<rows, raced>> /\ faults \in Nat
  BY <1>a, <1>b DEF Good, Working, HasLead, Copy
<1>1. SecondGrows
  BY <1>s DEF Push, PushSecond, SecondGrows
<1>2. CASE Push(w)
  <2>1. PICK l, n, t : /\ l = (IF s.snap.second THEN "second" ELSE "record")
                       /\ \/ n = MarkSynced(s.snap)
                          \/ n = [s.snap EXCEPT !.crm = "failed"]
                       /\ t = [s EXCEPT !.pc = l, !.new = n]
                       /\ Continue(w, t)
    BY <1>p, <1>2 DEF Push
  <2>2. t.pc = l /\ t.new = n /\ n.second = s.snap.second
    BY <1>s, <2>1 DEF Session, Row, MarkSynced
  <2>3. SecondNew(t)
    BY <2>1, <2>2 DEF SecondNew, SecondOK
  <2> QED
    BY <1>s, <1>1, <2>1, <2>3, SecondStep
<1>3. CASE PushSecond(w)
  <2>1. PICK t : t = [s EXCEPT !.pc = "record"]
    OBVIOUS
  <2>2. Continue(w, t) /\ t.email = s.email
    BY <1>p, <1>s, <1>3, <2>1 DEF PushSecond, Session
  <2>3. s.email \in seconds' \/ faults' > 0
    BY <1>p, <1>s, <1>3 DEF PushSecond
  <2>4. SecondNew(t)'
    BY <2>2, <2>3 DEF SecondNew, SecondOK
  <2> QED
    BY <1>s, <1>1, <2>2, <2>4, SecondStep
<1> QED
  BY <1>2, <1>3

LEMMA SecondStaff ==
  ASSUME LeadInv, SecondInv, Staff
  PROVE  SecondInv'
<1>s. TypeOK /\ ses \in [Workers -> Session]
  BY DEF LeadInv, TypeOK
<1>1. ASSUME NEW E, Remove(E) PROVE SecondInv'
  <2>1. /\ \A e \in Emails : rows'[e] # None => rows'[e] = rows[e]
        /\ UNCHANGED <<seconds, faults, raced>>
    BY <1>1 DEF Remove, outside
  <2>2. ASSUME NEW w \in Workers PROVE SecondNew(ses[w])'
    <3>1. /\ ses'[w].pc = ses[w].pc /\ ses'[w].email = ses[w].email
          /\ ses'[w].new = ses[w].new
      BY <1>s, <1>1 DEF Remove, Session
    <3>2. ses[w].pc \in {"record", "record_viewing"} => ses[w].email \in Emails
      BY DEF LeadInv, Good, Working, HasLead
    <3>3. SecondNew(ses[w])
      BY DEF SecondInv
    <3> QED
      BY <2>1, <3>1, <3>2, <3>3 DEF SecondNew, SecondOK
  <2> QED
    BY <2>1, <2>2 DEF SecondInv, SecondOK
<1>2. ASSUME NEW c \in Campaigns, UpdateCampaign(c) PROVE SecondInv'
  BY <1>2 DEF UpdateCampaign, outside, SecondInv, SecondNew, SecondOK
<1> QED
  BY <1>1, <1>2 DEF Staff, DeleteLead, BulkDelete

LEMMA SecondNext == LeadInv /\ SecondInv /\ [Next]_vars => SecondInv'
<1> SUFFICES ASSUME LeadInv, SecondInv, [Next]_vars PROVE SecondInv'
  OBVIOUS
<1>w. Captures \subseteq Workers /\ Packers \subseteq Workers /\ Syncers \subseteq Workers
  BY DEF Workers
<1>t. TypeOK
  BY DEF LeadInv
<1>1. ASSUME NEW w \in Captures, NEW e \in Emails, NEW p \in Payloads,
             CaptureStart(w, e, p)
      PROVE  SecondInv'
  <2>1. PICK t : /\ t = [Closed EXCEPT !.pc = "save", !.no = submits + 1, !.email = e,
                               !.req = p, !.camp = campaign, !.snap = rows[e]]
                 /\ Continue(w, t)
    BY <1>1 DEF CaptureStart
  <2>2. SecondGrows /\ UNCHANGED <<rows, raced>>
    BY <1>1, SecondSame DEF CaptureStart
  <2>3. t.pc = "save"
    BY <2>1 DEF Closed
  <2> QED
    BY <1>w, <1>t, <2>1, <2>2, <2>3, SecondElsewhere, SecondStep
<1>2. ASSUME NEW w \in Captures, CaptureStep(w) PROVE SecondInv'
  BY <1>2, SecondCapture
<1>3. ASSUME NEW w \in Workers, CommonStep(w) PROVE SecondInv'
  <2>1. CASE GiveUp(w)
    BY <1>t, <2>1, SecondSame, SecondClosed DEF GiveUp, bounds
  <2> QED
    BY <1>3, <2>1, SecondMails, SecondRecord, SecondRecorded DEF CommonStep
<1>4. ASSUME NEW w \in Packers, PackSweep(w) \/ PackNext(w) PROVE SecondInv'
  BY <1>w, <1>4, SecondSweep
<1>5. ASSUME NEW w \in Packers, NEW e \in Emails, Resend(w, e) PROVE SecondInv'
  BY <1>w, <1>5, SecondForced
<1>6. ASSUME NEW w \in Syncers, SyncSweep(w) \/ SyncNext(w) \/ Push(w) \/ PushSecond(w)
      PROVE  SecondInv'
  BY <1>w, <1>6, SecondSweep, SecondPush
<1>7. ASSUME NEW w \in Syncers, NEW e \in Emails, SyncForce(w, e) PROVE SecondInv'
  BY <1>w, <1>7, SecondForced
<1>8. ASSUME Staff PROVE SecondInv'
  BY <1>8, SecondStaff
<1>9. ASSUME NEW c \in SettingsChoices, Restart(c) PROVE SecondInv'
  <2>1. faults' > 0 /\ UNCHANGED <<rows, raced>> /\ ses' = [w \in Workers |-> Closed]
    BY <1>t, <1>9, LeadAssumptions DEF Restart, TypeOK
  <2> QED
    BY <2>1 DEF SecondInv, SecondNew, SecondOK
<1>10. CASE UNCHANGED vars
  <2>1. UNCHANGED <<rows, raced, ses, seconds, faults>>
    BY <1>10 DEF vars, outside, bounds
  <2> QED
    BY <2>1 DEF SecondInv, SecondNew, SecondOK
<1> QED
  BY <1>1, <1>2, <1>3, <1>4, <1>5, <1>6, <1>7, <1>8, <1>9, <1>10 DEF Next

LEMMA SecondInit == Init => SecondInv
  BY DEF Init, SecondInv, SecondNew, Closed

\* A synced lead is current in the CRM (sync_lead's upsert) unless its row was
\* written under a copy, and so is its second participant unless a call failed.
THEOREM SyncedCurrent == Spec => []SyncedIsCurrentUnlessRaced
<1>1. LeadInv /\ SecondInv => SyncedIsCurrentUnlessRaced
  BY DEF LeadInv, RowOK, UpToDate, SecondInv, SecondOK, SyncedIsCurrentUnlessRaced
<1> QED
  BY <1>1, LeadInvInit, SecondInit, LeadInvNext, SecondNext, PTL DEF Spec

-----------------------------------------------------------------------------
(* The refinement of LeadPromise.                                           *)

\* No mail was sent under a number that is not a row's yet.
Unmailed ==
    /\ \A i \in Ids : i > submits => mailed[i] = {}
    /\ \A w \in Workers : ses[w].no # 0 => mailed[ses[w].no] = {}

\* A session goes on with its number or without one.
KeepsNumber(w) == \E t : Continue(w, t) /\ t.no \in {0, ses[w].no}

LEMMA NumberKept ==
  ASSUME NEW w, NEW t, Continue(w, t), t.no \in {0, ses[w].no}
  PROVE  KeepsNumber(w)
  BY DEF KeepsNumber

LEMMA TurnNumbers ==
  ASSUME NEW s \in Session
  PROVE  /\ DeliverPack(s).no = s.no
         /\ \A a : SyncLead(s, a).no = s.no
         /\ AfterCapture(s).no \in {0, s.no}
         /\ \A x : [s EXCEPT !.snap = x].no = s.no
<1>1. DeliverPack(s).no = s.no
  BY DEF DeliverPack, Session
<1>2. \A a : SyncLead(s, a).no = s.no
  BY DEF SyncLead, Session
<1>3. AfterCapture(s).no \in {0, s.no}
  BY DEF AfterCapture, Closed, Session
<1> QED
  BY <1>1, <1>2, <1>3 DEF Session

LEMMA EndNumbers ==
  ASSUME NEW w \in Workers, Close(w) \/ Fail(w)
  PROVE  KeepsNumber(w)
<1>1. Closed.no = 0 /\ [Closed EXCEPT !.pc = "error", !.lost = ses[w].lost].no = 0
  BY DEF Closed
<1> QED
  BY <1>1 DEF Close, Fail, KeepsNumber

LEMMA CaptureNumbers ==
  ASSUME LeadInv, NEW w \in Captures, CaptureStep(w)
  PROVE  KeepsNumber(w)
<1>p. PICK s : s = ses[w]
  OBVIOUS
<1>s. w \in Workers /\ s \in Session /\ rows \in [Emails -> Row \cup {None}]
      /\ Good(s)
  BY <1>p DEF Workers, LeadInv, TypeOK
<1>1. CASE CaptureInsert(w)
  <2>1. PICK r, t, u : /\ t = [s EXCEPT !.pc = "saved", !.created = TRUE, !.no = 0,
                                        !.req = None, !.snap = r]
                       /\ u = [s EXCEPT !.pc = "recover"]
                       /\ Continue(w, t) \/ Continue(w, u)
    BY <1>p, <1>1 DEF CaptureInsert
  <2>2. t.no = 0 /\ u.no = s.no
    BY <1>s, <2>1 DEF Session
  <2> QED
    BY <1>p, <2>1, <2>2 DEF KeepsNumber
<1>2. CASE CaptureRecover(w)
  <2>1. PICK t : /\ t = [s EXCEPT !.pc = "save", !.snap = rows[s.email], !.camp = campaign]
                 /\ Fail(w) \/ Continue(w, t)
    BY <1>p, <1>2 DEF CaptureRecover
  <2>2. t.no = s.no
    BY <1>s, <2>1 DEF Session
  <2> QED
    BY <1>p, <1>s, <2>1, <2>2, EndNumbers DEF KeepsNumber
<1>3. CASE CaptureMerge(w)
  <2>1. PICK r, t : /\ t = [s EXCEPT !.pc = "saved", !.no = 0, !.req = None, !.snap = r]
                    /\ Fail(w) \/ Continue(w, t)
    BY <1>p, <1>3 DEF CaptureMerge
  <2>2. t.no = 0
    BY <1>s, <2>1 DEF Session
  <2> QED
    BY <1>p, <1>s, <2>1, <2>2, EndNumbers DEF KeepsNumber
<1>4. CASE CaptureSaved(w)
  <2>1. PICK t : t = [s EXCEPT !.snap = rows[s.email]]
    OBVIOUS
  <2>2. CASE Fail(w)
    BY <1>s, <2>2, EndNumbers
  <2>3. CASE ~Fail(w)
    <3>1. Present(w) /\ s.pc = "saved"
          /\ Continue(w, IF t.snap.pack = "pending" THEN DeliverPack(t) ELSE AfterCapture(t))
      BY <1>p, <1>4, <2>1, <2>3 DEF CaptureSaved
    <3>2. s.email \in Emails
      BY <1>s, <3>1 DEF Good, Working, HasLead
    <3>3. t \in Session /\ t.no = s.no
      BY <1>s, <2>1, <3>2 DEF Session
    <3> QED
      BY <1>p, <3>1, <3>3, TurnNumbers DEF KeepsNumber
  <2> QED
    BY <2>2, <2>3
<1> QED
  BY <1>1, <1>2, <1>3, <1>4 DEF CaptureStep

LEMMA CommonNumbers ==
  ASSUME LeadInv, NEW w \in Workers, CommonStep(w)
  PROVE  KeepsNumber(w)
<1>p. PICK s : s = ses[w]
  OBVIOUS
<1>s. s \in Session /\ rows \in [Emails -> Row \cup {None}] /\ Good(s)
  BY <1>p DEF LeadInv, TypeOK
<1>1. CASE MailPack(w) \/ MailViewing(w)
  <2>1. CASE Close(w)
    BY <2>1, EndNumbers
  <2>2. CASE ~Close(w)
    <3>1. PICK l, n, t : t = [s EXCEPT !.pc = l, !.new = n] /\ Continue(w, t)
      BY <1>p, <1>1, <2>2 DEF MailPack, MailViewing
    <3>2. t.no = s.no
      BY <1>s, <3>1 DEF Session
    <3> QED
      BY <1>p, <3>1, <3>2, NumberKept
  <2> QED
    BY <2>1, <2>2
<1>2. CASE Record(w)
  <2>1. CASE Fail(w)
    BY <2>1, EndNumbers
  <2>2. CASE ~Fail(w)
    <3>1. PICK l, n, t : t = [s EXCEPT !.pc = l, !.snap = n, !.new = None] /\ Continue(w, t)
      BY <1>p, <1>2, <2>2 DEF Record
    <3>2. t.no = s.no
      BY <1>s, <3>1 DEF Session
    <3> QED
      BY <1>p, <3>1, <3>2, NumberKept
  <2> QED
    BY <2>1, <2>2
<1>3. CASE Recorded(w)
  <2>1. PICK t : t = [s EXCEPT !.snap = rows[s.email]]
    OBVIOUS
  <2>2. CASE Fail(w) \/ Close(w)
    BY <2>2, EndNumbers
  <2>3. CASE ~Fail(w) /\ ~Close(w)
    <3>1. /\ s.pc \in {"recorded", "viewed"}
          /\ \/ Continue(w, AfterCapture(t))
             \/ Continue(w, [t EXCEPT !.pc = "next", !.email = None, !.snap = None])
      BY <1>p, <1>3, <2>1, <2>3 DEF Recorded, Close
    <3>2. s.email \in Emails
      BY <1>s, <3>1 DEF Good, Working, HasLead
    <3>3. t \in Session /\ t.no = s.no
      BY <1>s, <2>1, <3>2 DEF Session
    <3>4. [t EXCEPT !.pc = "next", !.email = None, !.snap = None].no = s.no
      BY <3>3 DEF Session
    <3>5. AfterCapture(t).no \in {0, s.no}
      BY <3>3, TurnNumbers
    <3> QED
      BY <1>p, <3>1, <3>4, <3>5, NumberKept
  <2> QED
    BY <2>2, <2>3
<1>4. CASE GiveUp(w)
  BY <1>4, EndNumbers DEF GiveUp
<1> QED
  BY <1>1, <1>2, <1>3, <1>4 DEF CommonStep

LEMMA SweepNumbers ==
  ASSUME LeadInv, NEW w \in Workers,
         \/ PackSweep(w) \/ SyncSweep(w) \/ PackNext(w) \/ SyncNext(w)
         \/ Push(w) \/ PushSecond(w)
         \/ \E e \in Emails : Resend(w, e) \/ SyncForce(w, e)
  PROVE  KeepsNumber(w)
<1>p. PICK s : s = ses[w]
  OBVIOUS
<1>s. s \in Session /\ rows \in [Emails -> Row \cup {None}] /\ campaign \in Campaign
  BY <1>p DEF LeadInv, TypeOK
<1>1. CASE PackSweep(w) \/ SyncSweep(w)
  <2>1. PICK b : Continue(w, [Closed EXCEPT !.pc = "next", !.batch = b])
    BY <1>1 DEF PackSweep, SyncSweep, Load
  <2>2. [Closed EXCEPT !.pc = "next", !.batch = b].no = 0
    BY DEF Closed
  <2> QED
    BY <2>1, <2>2 DEF KeepsNumber
<1>2. CASE PackNext(w) \/ SyncNext(w)
  <2>1. CASE Close(w)
    BY <2>1, EndNumbers
  <2>2. CASE ~Close(w)
    <3>1. PICK e \in Emails : \E a : \/ Continue(w, DeliverPack(Work(s, e)))
                                   \/ Continue(w, SyncLead(Work(s, e), a))
      BY <1>p, <1>2, <2>2 DEF PackNext, SyncNext
    <3>2. PICK t : t = Work(s, e)
      OBVIOUS
    <3>3. t \in Session /\ t.no = s.no
      BY <1>s, <3>2 DEF Work, Session
    <3> QED
      BY <1>p, <3>1, <3>2, <3>3, TurnNumbers DEF KeepsNumber
  <2> QED
    BY <2>1, <2>2
<1>3. CASE Push(w) \/ PushSecond(w)
  <2>1. PICK l, n, t : /\ \/ t = [s EXCEPT !.pc = l, !.new = n]
                          \/ t = [s EXCEPT !.pc = "record"]
                       /\ Continue(w, t)
    BY <1>p, <1>3 DEF Push, PushSecond
  <2>2. t.no = s.no
    BY <1>s, <2>1 DEF Session
  <2> QED
    BY <1>p, <2>1, <2>2, NumberKept
<1>4. ASSUME NEW e \in Emails, Resend(w, e) \/ SyncForce(w, e) PROVE KeepsNumber(w)
  <2>1. PICK t : t = [Closed EXCEPT !.email = e, !.camp = campaign, !.snap = rows[e]]
    OBVIOUS
  <2>2. \/ Continue(w, [t EXCEPT !.pc = "viewing"])
        \/ Continue(w, DeliverPack(t))
        \/ Continue(w, SyncLead(t, TRUE))
    BY <1>4, <2>1 DEF Resend, SyncForce
  <2>3. t \in Session /\ t.no = 0
    BY <1>s, <2>1, ClosedType DEF Session, Closed
  <2>4. [t EXCEPT !.pc = "viewing"].no = 0
    BY <2>3 DEF Session
  <2>5. DeliverPack(t).no = 0 /\ SyncLead(t, TRUE).no = 0
    BY <2>3, TurnNumbers
  <2> QED
    BY <2>2, <2>4, <2>5, NumberKept
<1> QED
  BY <1>1, <1>2, <1>3, <1>4

\* What a step does to the numbers and to the mails: one worker's lead at most
\* gets a mail, and only a new submission takes a new number.
LEMMA NumberStep ==
  ASSUME LeadInv, [Next]_vars
  PROVE  /\ submits' \in {submits, submits + 1}
         /\ \A v \in Workers : \/ ses'[v].no \in {0, ses[v].no}
                               \/ /\ ses'[v].no = submits + 1
                                  /\ submits' = submits + 1
         /\ \/ UNCHANGED mailed
            \/ \E w \in Workers : /\ ses[w].pc \in {"mail", "viewing"}
                                  /\ \E docs : SendCampaignEmail(ses[w].snap.id, docs)
<1> USE DEF Workers
<1>s. ses \in [Workers -> Session]
  BY DEF LeadInv, TypeOK
<1>k. ASSUME NEW w \in Workers, KeepsNumber(w)
      PROVE  \A v \in Workers : ses'[v].no \in {0, ses[v].no}
  BY <1>s, <1>k DEF KeepsNumber, Continue
<1>1. ASSUME NEW w \in Captures, NEW e \in Emails, NEW p \in Payloads,
             CaptureStart(w, e, p)
      PROVE  /\ submits' = submits + 1 /\ UNCHANGED mailed
             /\ \A v \in Workers : ses'[v].no \in {ses[v].no, submits + 1}
  <2>1. PICK t : /\ t = [Closed EXCEPT !.pc = "save", !.no = submits + 1, !.email = e,
                               !.req = p, !.camp = campaign, !.snap = rows[e]]
                 /\ Continue(w, t)
    BY <1>1 DEF CaptureStart
  <2>2. t.no = submits + 1
    BY <2>1 DEF Closed
  <2> QED
    BY <1>s, <1>1, <2>1, <2>2 DEF CaptureStart, Continue, outside
<1>2. ASSUME NEW w \in Captures, CaptureStep(w)
      PROVE  UNCHANGED <<submits, mailed>> /\ KeepsNumber(w)
  BY <1>2, CaptureNumbers
  DEF CaptureStep, CaptureInsert, CaptureRecover, CaptureMerge, CaptureSaved, outside, bounds
<1>3. ASSUME NEW w \in Workers, CommonStep(w)
      PROVE  /\ UNCHANGED submits /\ KeepsNumber(w)
             /\ \/ UNCHANGED mailed
                \/ /\ ses[w].pc \in {"mail", "viewing"}
                   /\ \E docs : SendCampaignEmail(ses[w].snap.id, docs)
  <2>1. CASE MailPack(w) \/ MailViewing(w)
    BY <1>3, <2>1, CommonNumbers DEF MailPack, MailViewing
  <2>2. CASE Record(w) \/ Recorded(w) \/ GiveUp(w)
    BY <1>3, <2>2, CommonNumbers DEF Record, Recorded, GiveUp, outside, bounds
  <2> QED
    BY <1>3, <2>1, <2>2 DEF CommonStep
<1>4. ASSUME NEW w \in Workers,
             \/ PackSweep(w) \/ SyncSweep(w) \/ PackNext(w) \/ SyncNext(w)
             \/ Push(w) \/ PushSecond(w)
             \/ \E e \in Emails : Resend(w, e) \/ SyncForce(w, e)
      PROVE  UNCHANGED <<submits, mailed>> /\ KeepsNumber(w)
  <2>1. UNCHANGED <<submits, mailed>>
    BY <1>4 DEF PackSweep, SyncSweep, PackNext, SyncNext, Push, PushSecond, Resend,
                SyncForce, outside, bounds
  <2> QED
    BY <1>4, <2>1, SweepNumbers
<1>5. ASSUME Staff
      PROVE  UNCHANGED <<submits, mailed>> /\ \A v \in Workers : ses'[v].no = ses[v].no
  <2>1. ASSUME NEW E, Remove(E)
        PROVE  UNCHANGED <<submits, mailed>> /\ \A v \in Workers : ses'[v].no = ses[v].no
    BY <1>s, <2>1 DEF Remove, outside, Session
  <2> QED
    BY <1>5, <2>1 DEF Staff, DeleteLead, BulkDelete, UpdateCampaign, outside
<1>6. ASSUME NEW c \in SettingsChoices, Restart(c)
      PROVE  UNCHANGED <<submits, mailed>> /\ \A v \in Workers : ses'[v].no = 0
  BY <1>6 DEF Restart, Closed, outside
<1>7. CASE UNCHANGED vars
  BY <1>7 DEF vars, outside, bounds
<1>8. CASE Next
  <2>1. CASE \E w \in Captures, e \in Emails, p \in Payloads : CaptureStart(w, e, p)
    BY <1>1, <2>1
  <2>2. CASE \E w \in Captures : CaptureStep(w)
    BY <1>2, <1>k, <2>2
  <2>3. CASE \E w \in Workers : CommonStep(w)
    <3>1. PICK w \in Workers : CommonStep(w)
      BY <2>3
    <3>2. \A v \in Workers : ses'[v].no \in {0, ses[v].no}
      BY <1>3, <1>k, <3>1
    <3> QED
      BY <1>3, <3>1, <3>2
  <2>4. CASE \E w \in Packers : PackSweep(w) \/ PackNext(w)
    BY <1>4, <1>k, <2>4
  <2>5. CASE \E w \in Packers, e \in Emails : Resend(w, e)
    BY <1>4, <1>k, <2>5
  <2>6. CASE \E w \in Syncers : SyncSweep(w) \/ SyncNext(w) \/ Push(w) \/ PushSecond(w)
    BY <1>4, <1>k, <2>6
  <2>7. CASE \E w \in Syncers, e \in Emails : SyncForce(w, e)
    BY <1>4, <1>k, <2>7
  <2>8. CASE Staff \/ \E c \in SettingsChoices : Restart(c)
    BY <1>5, <1>6, <2>8
  <2> QED
    BY <1>8, <2>1, <2>2, <2>3, <2>4, <2>5, <2>6, <2>7, <2>8 DEF Next
<1> QED
  BY <1>7, <1>8

LEMMA UnmailedNext == LeadInv /\ Unmailed /\ [Next]_vars => Unmailed'
<1> SUFFICES ASSUME LeadInv, Unmailed, [Next]_vars PROVE Unmailed'
  OBVIOUS
<1>t. /\ submits \in Nat /\ submits' \in 0 .. MaxSubmits /\ MaxSubmits \in Nat
      /\ mailed \in [Ids -> SUBSET Labels]
      /\ \A w \in Workers : ses[w].no \in Nat /\ ses'[w].no \in Nat
                            /\ ses'[w].no <= MaxSubmits
  <2>1. LeadInv'
    BY LeadInvNext
  <2> QED
    BY <2>1, LeadAssumptions DEF LeadInv, TypeOK, Session
<1>n. /\ submits' \in {submits, submits + 1}
      /\ \A v \in Workers : \/ ses'[v].no \in {0, ses[v].no}
                            \/ /\ ses'[v].no = submits + 1
                               /\ submits' = submits + 1
      /\ \/ UNCHANGED mailed
         \/ \E w \in Workers : /\ ses[w].pc \in {"mail", "viewing"}
                               /\ \E docs : SendCampaignEmail(ses[w].snap.id, docs)
  BY NumberStep
<1>1. \A i \in Ids : i > submits' => mailed[i] = {}
  BY <1>t, <1>n DEF Unmailed, Ids
<1>2. \A v \in Workers : ses'[v].no # 0 => ses'[v].no \in Ids /\ mailed[ses'[v].no] = {}
  BY <1>t, <1>n DEF Unmailed, Ids
<1>3. CASE UNCHANGED mailed
  BY <1>1, <1>2, <1>3 DEF Unmailed
<1>4. ASSUME NEW w \in Workers, NEW docs, ses[w].pc \in {"mail", "viewing"},
             SendCampaignEmail(ses[w].snap.id, docs)
      PROVE  Unmailed'
  <2>1. ses[w].snap \in Row /\ ses[w].snap.id <= submits /\ ses[w].snap # None
    BY <1>4, NoneAssumption DEF LeadInv, Good, Working, HasLead, Copy
  <2>2. PICK n : n = ses[w].snap.id /\ n \in Ids /\ n \in Nat
    BY <2>1 DEF Row, Ids
  <2>3. \A i \in Ids : i # n => mailed'[i] = mailed[i]
    BY <1>t, <1>4, <2>2 DEF SendCampaignEmail
  <2>4. ASSUME NEW v \in Workers, ses'[v].no # 0 PROVE ses'[v].no # n
    <3>1. CASE ses'[v].no = ses[v].no
      BY <2>1, <2>2, <2>4, <3>1 DEF LeadInv, Fresh, UsesId
    <3>2. CASE ses'[v].no = submits + 1
      BY <1>t, <2>1, <2>2, <3>2
    <3> QED
      BY <1>n, <2>4, <3>1, <3>2
  <2>5. \A i \in Ids : i > submits' => i # n
    BY <1>t, <1>n, <2>1, <2>2 DEF Ids
  <2> QED
    BY <1>1, <1>2, <2>3, <2>4, <2>5 DEF Unmailed
<1> QED
  BY <1>n, <1>3, <1>4

LEMMA UnmailedInit == Init => Unmailed
  BY DEF Init, Unmailed, Closed

PromiseStep == Promise!Next \/ UNCHANGED Promise!promise

LEMMA PromiseRests ==
  ASSUME UNCHANGED <<rows, contacts, mailed>>
  PROVE  PromiseStep
  BY DEF PromiseStep, Promise!promise, Said, SaidOf, Known, Posted

LEMMA SaidOfRow ==
  ASSUME NEW r \in Row
  PROVE  /\ SaidOf(r) \in Promise!Lead /\ SaidOf(r) # None
         /\ SaidOf(r).id = r.id /\ r.id \in Ids
         /\ SaidOf(r).synced = r.contact
         /\ SaidOf(r).delivered = (r.delivered # {})
<1>1. SaidOf(r) \in [id: Ids, synced: BOOLEAN, delivered: BOOLEAN]
  BY DEF SaidOf, Row
<1> QED
  BY <1>1, NoneAssumption DEF SaidOf, Row, Promise!Lead

\* Any UPDATE of a row by a session is a note.
LEMMA PromiseNotes ==
  ASSUME TypeOK, NEW e \in Emails, rows[e] # None, NEW m \in Row, m.id = rows[e].id,
         Truthful(e, m), rows[e].contact => m.contact,
         rows[e].delivered # {} => m.delivered # {},
         rows' = [rows EXCEPT ![e] = m], UNCHANGED <<contacts, mailed>>
  PROVE  PromiseStep
<1>1. PICK l : l = SaidOf(m)
  OBVIOUS
<1>2. rows \in [Emails -> Row \cup {None}] /\ rows[e] \in Row
  BY DEF TypeOK
<1>3. Said[e] = SaidOf(rows[e]) /\ Said[e] # None
  BY <1>2, SaidOfRow DEF Said
<1>4. /\ l \in Promise!Lead /\ l.id = m.id /\ m.id \in Ids /\ l.synced = m.contact
      /\ l.delivered = (m.delivered # {})
  BY <1>1, SaidOfRow
<1>5. /\ Said[e].id = m.id /\ (Said[e].synced => l.synced)
      /\ (Said[e].delivered => l.delivered)
  <2>1. /\ Said[e].id = rows[e].id /\ Said[e].synced = rows[e].contact
        /\ Said[e].delivered = (rows[e].delivered # {})
    BY <1>2, <1>3, SaidOfRow
  <2> QED
    BY <1>4, <2>1
<1>6. /\ l.synced => e \in Known
      /\ l.delivered => l.id \in Posted
  BY <1>4 DEF Truthful, Known, Posted
<1>7. Said' = [Said EXCEPT ![e] = l]
  <2>1. m # None
    BY NoneAssumption
  <2> QED
    BY <1>1, <1>2, <2>1 DEF Said
<1>8. UNCHANGED <<Known, Posted>>
  BY DEF Known, Posted
<1>9. Promise!Note(e, l)
  BY <1>3, <1>4, <1>5, <1>6, <1>7, <1>8 DEF Promise!Note
<1> QED
  BY <1>4, <1>9 DEF PromiseStep, Promise!Next

LEMMA PromiseCaptures ==
  ASSUME LeadInv, Unmailed, NEW w \in Captures, CaptureStep(w)
  PROVE  PromiseStep
<1>p. PICK s : s = ses[w]
  OBVIOUS
<1>s. w \in Workers /\ TypeOK /\ s \in Session /\ Good(s)
  BY <1>p DEF Workers, LeadInv, TypeOK
<1>u. UNCHANGED <<contacts, mailed>>
  BY DEF CaptureStep, CaptureInsert, CaptureRecover, CaptureMerge, CaptureSaved, outside
<1>1. CASE UNCHANGED rows
  BY <1>1, <1>u, PromiseRests
<1>2. CASE CaptureInsert(w) /\ rows[s.email] = None
  <2>1. PICK r : r = NewLead(s.no, s.req)
    OBVIOUS
  <2>2. /\ s.email \in Emails /\ s.no # 0 /\ s.req \in Payload
        /\ rows' = [rows EXCEPT ![s.email] = r] /\ s.snap = None
    BY <1>p, <1>s, <1>2, <2>1 DEF CaptureInsert, Good, WriteRow
  <2>3. s.no \in Ids
    BY <1>s, <2>2, LeadAssumptions DEF Session, Ids
  <2>4. SaidOf(r) = [id |-> s.no, synced |-> FALSE, delivered |-> FALSE]
    BY <2>1 DEF SaidOf, NewLead
  <2>5. Said[s.email] = None
    BY <1>2, <2>2 DEF Said
  <2>6. s.no \notin Posted
    BY <1>p, <1>s, <2>2, <2>3 DEF Unmailed, Posted
  <2>7. ASSUME NEW f \in Emails, Said[f] # None PROVE Said[f].id # s.no
    <3>1. rows[f] # None /\ rows[f] \in Row /\ Said[f] = SaidOf(rows[f])
      BY <1>s, <2>7 DEF Said, TypeOK
    <3>2. Said[f].id = rows[f].id
      BY <3>1, SaidOfRow
    <3> QED
      BY <1>p, <1>s, <2>2, <3>1, <3>2 DEF LeadInv, Fresh
  <2>8. Said' = [Said EXCEPT ![s.email] = [id |-> s.no, synced |-> FALSE,
                                           delivered |-> FALSE]]
    <3>1. r # None
      <4>1. r \in Row
        BY <2>1, <2>2, <2>3 DEF NewLead, NextPackStatus, Row, Payload, CrmStatus, PackStatus
      <4> QED
        BY <4>1, NoneAssumption
    <3>2. rows \in [Emails -> Row \cup {None}]
      BY <1>s DEF TypeOK
    <3> QED
      BY <2>2, <2>4, <3>1, <3>2 DEF Said
  <2>9. UNCHANGED <<Known, Posted>>
    BY <1>u DEF Known, Posted
  <2>10. Promise!Capture(s.email, s.no)
    BY <2>5, <2>6, <2>7, <2>8, <2>9 DEF Promise!Capture
  <2> QED
    BY <2>2, <2>3, <2>10 DEF PromiseStep, Promise!Next
<1>3. CASE CaptureMerge(w) /\ Present(w)
  <2>1. PICK r, m : r = ApplyPayload(s.snap, s.req) /\ m = Merge(rows[s.email], s.snap, r)
    OBVIOUS
  <2>2. /\ s.email \in Emails /\ s.req \in Payload /\ Copy(s.email, s.snap)
        /\ s.snap \in Row /\ SameRow(s.email, s.snap) /\ RowOK(s.email)
        /\ rows[s.email] # None
        /\ rows' = [rows EXCEPT ![s.email] = m]
    BY <1>p, <1>s, <1>3, <2>1
    DEF CaptureMerge, Good, HasLead, Copy, Present, SameRow, WriteRow, LeadInv
  <2>3. /\ r \in Row /\ r.id = s.snap.id /\ r.contact = s.snap.contact
        /\ r.delivered = s.snap.delivered /\ r.crm = "pending"
        /\ r.pack = "sent" => s.snap.pack = "sent"
    BY <2>1, <2>2, ApplyPayloadRow DEF Copy
  <2>4. Truthful(s.email, r)
    BY <2>2, <2>3 DEF Copy, Truthful
  <2>5. m = Merge(rows[s.email], s.snap, r)
    BY <2>1
  <2>6. /\ m \in Row /\ m.id = rows[s.email].id /\ Truthful(s.email, m)
        /\ rows[s.email].contact => m.contact
        /\ rows[s.email].delivered # {} => m.delivered # {}
    BY ONLY <1>s, <2>2, <2>3, <2>4, <2>5, MergeTrue
  <2> QED
    BY <1>s, <1>u, <2>2, <2>6, PromiseNotes
<1>4. \/ UNCHANGED rows
      \/ CaptureInsert(w) /\ rows[s.email] = None
      \/ CaptureMerge(w) /\ Present(w)
  BY <1>p DEF CaptureStep, CaptureInsert, CaptureRecover, CaptureMerge, CaptureSaved
<1> QED
  BY <1>1, <1>2, <1>3, <1>4

LEMMA PromiseRecords ==
  ASSUME LeadInv, NEW w \in Workers, Record(w)
  PROVE  PromiseStep
<1>p. PICK s, m : s = ses[w] /\ m = Merge(rows[s.email], s.snap, s.new)
  OBVIOUS
<1>s. /\ TypeOK /\ HasLead(s) /\ NewOK(s) /\ UNCHANGED <<contacts, mailed>>
      /\ s.email \in Emails /\ RowOK(s.email) /\ Copy(s.email, s.snap)
  BY <1>p DEF Record, LeadInv, Good, Working, Setting, HasLead, outside
<1>1. CASE UNCHANGED rows
  BY <1>1, <1>s, PromiseRests
<1>2. CASE ~UNCHANGED rows
  <2>1. /\ rows[s.email] # None /\ SameRow(s.email, s.snap)
        /\ rows' = [rows EXCEPT ![s.email] = m]
    BY <1>p, <1>2 DEF Record, Present, SameRow, WriteRow
  <2>2. PICK r : r = s.new
    OBVIOUS
  <2>3. /\ r \in Row /\ Truthful(s.email, r) /\ r.id = s.snap.id
        /\ s.snap.contact => r.contact
        /\ r.delivered # s.snap.delivered => r.delivered # {}
        /\ m = Merge(rows[s.email], s.snap, r)
    BY <1>p, <1>s, <2>2 DEF NewOK
  <2>4. /\ m \in Row /\ m.id = rows[s.email].id /\ Truthful(s.email, m)
        /\ rows[s.email].contact => m.contact
        /\ rows[s.email].delivered # {} => m.delivered # {}
    BY ONLY <1>s, <2>1, <2>3, MergeTrue
  <2> QED
    BY <1>s, <2>1, <2>4, PromiseNotes
<1> QED
  BY <1>1, <1>2

LEMMA PromiseMails ==
  ASSUME LeadInv, NEW w \in Workers, MailPack(w) \/ MailViewing(w)
  PROVE  PromiseStep
<1>s. /\ UNCHANGED <<rows, contacts>> /\ ses[w].pc \in {"mail", "viewing"}
      /\ UNCHANGED mailed \/ \E docs : SendCampaignEmail(ses[w].snap.id, docs)
  BY DEF MailPack, MailViewing
<1>1. CASE UNCHANGED mailed
  BY <1>s, <1>1, PromiseRests
<1>2. ASSUME NEW docs, SendCampaignEmail(ses[w].snap.id, docs) PROVE PromiseStep
  <2>1. ses[w].snap \in Row
    BY <1>s DEF LeadInv, Good, Working, HasLead, Copy
  <2>2. PICK n : n = ses[w].snap.id /\ n \in Ids
    BY <2>1 DEF Row
  <2>3. mailed' = [mailed EXCEPT ![n] = @ \cup docs] /\ mailed \in [Ids -> SUBSET Labels]
    BY <1>2, <2>2 DEF SendCampaignEmail, LeadInv, TypeOK
  <2>4. UNCHANGED <<Said, Known>>
    BY <1>s DEF Said, SaidOf, Known
  <2>5. CASE mailed[n] \cup docs = {}
    <3>1. UNCHANGED Posted
      BY <2>2, <2>3, <2>5 DEF Posted
    <3> QED
      BY <2>4, <3>1 DEF PromiseStep, Promise!promise
  <2>6. CASE mailed[n] \cup docs # {}
    <3>1. Posted' = Posted \cup {n}
      BY <2>2, <2>3, <2>6 DEF Posted
    <3>2. Promise!Post(n)
      BY <2>4, <3>1 DEF Promise!Post
    <3> QED
      BY <2>2, <3>2 DEF PromiseStep, Promise!Next
  <2> QED
    BY <2>5, <2>6
<1> QED
  BY <1>s, <1>1, <1>2

LEMMA PromisePushes ==
  ASSUME LeadInv, NEW w \in Workers, Push(w)
  PROVE  PromiseStep
<1>p. PICK s, c : /\ s = ses[w]
                  /\ c = [info |-> s.snap.info, collateral |-> s.snap.pack = "sent"]
  OBVIOUS
<1>s. UNCHANGED <<rows, mailed>> /\ s.email \in Emails /\ s.snap \in Row
      /\ contacts \in [Emails -> Contact \cup {None}]
  BY <1>p DEF Push, LeadInv, TypeOK, Good, Working, HasLead, Copy
<1>1. CASE UNCHANGED contacts
  BY <1>s, <1>1, PromiseRests
<1>2. CASE ~UNCHANGED contacts
  <2>1. contacts' = [contacts EXCEPT ![s.email] = c]
    BY <1>p, <1>2 DEF Push
  <2>2. c # None
    <3>1. s.snap.info \in Infos /\ (s.snap.pack = "sent") \in BOOLEAN
      BY <1>s DEF Row
    <3>2. c \in Contact
      BY <1>p, <3>1 DEF Contact
    <3> QED
      BY <3>2, NoneAssumption
  <2>3. Known' = Known \cup {s.email}
    BY <1>s, <2>1, <2>2 DEF Known
  <2>4. UNCHANGED <<Said, Posted>>
    BY <1>s DEF Said, SaidOf, Posted
  <2>5. Promise!Upsert(s.email)
    BY <2>3, <2>4 DEF Promise!Upsert
  <2> QED
    BY <1>s, <2>5 DEF PromiseStep, Promise!Next
<1> QED
  BY <1>1, <1>2

LEMMA PromiseDeletes ==
  ASSUME NEW E \in SUBSET Emails, Remove(E)
  PROVE  PromiseStep
<1>1. /\ rows' = [e \in Emails |-> IF e \in E THEN None ELSE rows[e]]
      /\ UNCHANGED <<contacts, mailed>>
  BY DEF Remove, outside
<1>2. Said' = [e \in Emails |-> IF e \in E THEN None ELSE Said[e]]
  BY <1>1 DEF Said
<1>3. UNCHANGED <<Known, Posted>>
  BY <1>1 DEF Known, Posted
<1>4. Promise!Delete(E)
  BY <1>2, <1>3 DEF Promise!Delete
<1> QED
  BY <1>4 DEF PromiseStep, Promise!Next

LEMMA PromiseNext == LeadInv /\ Unmailed /\ [Next]_vars => [Promise!Next]_(Promise!promise)
<1> SUFFICES ASSUME LeadInv, Unmailed, [Next]_vars PROVE PromiseStep
  BY DEF PromiseStep
<1>w. Packers \subseteq Workers /\ Syncers \subseteq Workers
  BY DEF Workers
<1>1. ASSUME NEW w \in Captures, NEW e \in Emails, NEW p \in Payloads,
             CaptureStart(w, e, p)
      PROVE  PromiseStep
  BY <1>1, PromiseRests DEF CaptureStart, outside
<1>2. ASSUME NEW w \in Captures, CaptureStep(w) PROVE PromiseStep
  BY <1>2, PromiseCaptures
<1>3. ASSUME NEW w \in Workers, CommonStep(w) PROVE PromiseStep
  <2>1. CASE Recorded(w) \/ GiveUp(w)
    BY <2>1, PromiseRests DEF Recorded, GiveUp, outside
  <2> QED
    BY <1>3, <2>1, PromiseMails, PromiseRecords DEF CommonStep
<1>4. ASSUME NEW w, \/ PackSweep(w) \/ PackNext(w) \/ SyncSweep(w) \/ SyncNext(w)
                    \/ PushSecond(w)
                    \/ \E e \in Emails : Resend(w, e) \/ SyncForce(w, e)
      PROVE  PromiseStep
  <2>1. UNCHANGED <<rows, contacts, mailed>>
    BY <1>4 DEF PackSweep, PackNext, SyncSweep, SyncNext, PushSecond, Resend, SyncForce,
                outside
  <2> QED
    BY <2>1, PromiseRests
<1>5. ASSUME NEW w \in Syncers, Push(w) PROVE PromiseStep
  BY <1>w, <1>5, PromisePushes
<1>6. ASSUME Staff PROVE PromiseStep
  <2>1. CASE \E e \in Emails : DeleteLead(e)
    <3>1. PICK e \in Emails : Remove({e})
      BY <2>1 DEF DeleteLead
    <3> QED
      BY <3>1, PromiseDeletes
  <2>2. CASE \E f \in CrmStatus \cup {"all"} : BulkDelete(f)
    <3>1. PICK E \in SUBSET Emails : Remove(E)
      BY <2>2 DEF BulkDelete
    <3> QED
      BY <3>1, PromiseDeletes
  <2>3. CASE \E c \in Campaigns : UpdateCampaign(c)
    BY <2>3, PromiseRests DEF UpdateCampaign, outside
  <2> QED
    BY <1>6, <2>1, <2>2, <2>3 DEF Staff
<1>7. ASSUME NEW c \in SettingsChoices, Restart(c) PROVE PromiseStep
  BY <1>7, PromiseRests DEF Restart, outside
<1>8. CASE UNCHANGED vars
  BY <1>8, PromiseRests DEF vars, outside
<1> QED
  BY <1>1, <1>2, <1>3, <1>4, <1>5, <1>6, <1>7, <1>8 DEF Next

LEMMA PromiseInit == Init => Promise!Init
  BY DEF Init, Promise!Init, Said, Known, Posted

\* The interleaved sessions of lead_service, lead_crm_sync and pack_delivery
\* implement LeadPromise: every step of one of them is a capture, a call, a note
\* or a delete there, or no step at all.
THEOREM PromiseKept == Spec => ImplementsPromise
  BY LeadInvInit, LeadInvNext, UnmailedInit, UnmailedNext, PromiseInit, PromiseNext, PTL
  DEF Spec, ImplementsPromise, Promise!Spec
=============================================================================
