---------------------- MODULE TradeRegistrationProofs ----------------------
(***************************************************************************)
(* For any addresses, submissions, reviews and number of concurrent        *)
(* requests and sweeps: nobody is synced without an approval, the sweep    *)
(* keeps what reviewers and registrants wrote meanwhile, and a second      *)
(* participant is duplicated only by requests that looked for it together. *)
(***************************************************************************)
EXTENDS TradeRegistration, FiniteSetTheorems, TLAPS

RequestType ==
    [pc: {"idle", "save", "siblings", "second", "done", "error"},
     no: 0 .. MaxSubmits, pay: Payload \cup {None}, row: Ids \cup {None},
     second: Ids \cup {None}]

JobType ==
    [pc: {"idle", "next", "push", "record"}, batch: [Ids -> Row \cup {None}],
     id: Ids \cup {None}, snap: Row \cup {None}, new: Row \cup {None},
     sync: BOOLEAN]

\* What the approval gate makes true of a row, and of every copy of it.
Clean(i, r) ==
    /\ r.crm = "synced" => r.contact
    /\ r.contact /\ RequireApproval => i \in approved
    /\ r.review = "approved" => i \in approved

\* A copy the sweep holds: the row is still there, and has lost no contact id.
Copy(i, r) ==
    /\ r \in Row
    /\ Exists(i)
    /\ Clean(i, r)
    /\ r.contact => rows[i].contact

\* A request holds rows that exist, and the ids it will insert are free.
RequestOK(s) ==
    /\ s \in RequestType
    /\ s.pc # "idle" => s.no \in Numbers /\ s.no <= submits /\ s.pay \in Payload
    /\ s.pc \in {"save", "siblings"} => s.second = None
    /\ s.row # None => Exists(s.row)
    /\ s.second # None => Exists(s.second)
    /\ s.pc = "save" => ~Exists(<<s.no, 1>>) /\ ~Exists(<<s.no, 2>>)
    /\ s.pc \in {"siblings", "second"} =>
            s.row # None /\ ~Exists(<<s.no, 2>>) /\ s.pay.second # None

JobOK(s) ==
    /\ s \in JobType
    /\ \A i \in Ids : s.batch[i] # None => Copy(i, s.batch[i])
    /\ s.pc \in {"push", "record"} => s.id \in Ids /\ Copy(s.id, s.snap)
    /\ s.pc = "push" =>
            s.snap.email \in Emails /\ (RequireApproval => s.id \in approved)
    /\ s.pc = "record" =>
            /\ s.new \in Row
            /\ s.new.crm = "synced" => s.new.contact
            /\ s.new.contact /\ RequireApproval => s.id \in approved
            /\ s.snap.contact => s.new.contact

\* Open requests have different numbers, and no row has a number to come.
NumbersOK ==
    /\ \A i \in Ids : Exists(i) => i[1] <= submits
    /\ \A v, w \in Registrars :
        v # w /\ req[v].pc # "idle" /\ req[w].pc # "idle" => req[v].no # req[w].no

\* The inductive invariant.
TradeInv ==
    /\ TypeOK
    /\ \A i \in Ids : Exists(i) => Clean(i, rows[i])
    /\ \A w \in Registrars : RequestOK(req[w])
    /\ \A w \in Syncers : JobOK(job[w])
    /\ NumbersOK

-----------------------------------------------------------------------------
(* What every step does to the rows.                                        *)

Advance ==
    /\ rows' \in [Ids -> Row \cup {None}]
    /\ \A i \in Ids : Exists(i) =>
            /\ rows'[i] # None
            /\ rows'[i].reg = rows[i].reg
            /\ rows'[i].primary = rows[i].primary
            /\ rows[i].contact => rows'[i].contact
    /\ approved \subseteq approved'
    /\ submits \in 0 .. MaxSubmits /\ submits' \in 0 .. MaxSubmits
    /\ submits <= submits'

LEMMA SameAdvance ==
  ASSUME TypeOK, UNCHANGED <<rows, submits, approved>>
  PROVE  Advance
  BY DEF TypeOK, Advance, Exists

LEMMA CopyKept ==
  ASSUME Advance, NEW i \in Ids, NEW r, Copy(i, r)
  PROVE  Copy(i, r)'
  BY DEF Advance, Copy, Exists, Clean

LEMMA JobKept ==
  ASSUME Advance, NEW s, JobOK(s)
  PROVE  JobOK(s)'
<1>1. \A i \in Ids : \A r : Copy(i, r) => Copy(i, r)'
  BY CopyKept
<1>2. approved \subseteq approved'
  BY DEF Advance
<1> QED
  BY <1>1, <1>2 DEF JobOK

\* A request that is not the one that inserts.
LEMMA RequestKept ==
  ASSUME Advance, NEW s, RequestOK(s),
         s.pc # "idle" => \A k \in {1, 2} :
            ~Exists(<<s.no, k>>) => rows'[<<s.no, k>>] = None
  PROVE  RequestOK(s)'
<1>1. s \in RequestType
  BY DEF RequestOK
<1>2. /\ s.row # None => Exists(s.row)'
      /\ s.second # None => Exists(s.second)'
  BY <1>1 DEF RequestOK, RequestType, Advance, Exists
<1>3. s.no \in Numbers /\ s.no <= submits => s.no <= submits'
  BY TradeAssumptions DEF Advance, Numbers
<1>4. /\ s.pc = "save" => ~Exists(<<s.no, 1>>)' /\ ~Exists(<<s.no, 2>>)'
      /\ s.pc \in {"siblings", "second"} => ~Exists(<<s.no, 2>>)'
  BY DEF RequestOK, Exists
<1> QED
  BY <1>1, <1>2, <1>3, <1>4 DEF RequestOK

\* A step of one request that inserts at most rows of its own number.
LEMMA RequestStep ==
  ASSUME TradeInv, Advance, NEW w \in Registrars, NEW t,
         req' = [req EXCEPT ![w] = t], RequestOK(t)',
         t.pc # "idle" => t.no = req[w].no /\ req[w].pc # "idle",
         \A i \in Ids : rows'[i] # rows[i] =>
            /\ Exists(i) \/ (i[1] = req[w].no /\ req[w].pc # "idle")
            /\ Clean(i, rows'[i]),
         UNCHANGED <<sync, active, job, submits, faults, reviews, contacts, approved>>,
         crowded' \subseteq Numbers
  PROVE  TradeInv'
<1>1. TypeOK /\ t \in RequestType /\ req \in [Registrars -> RequestType]
  BY DEF TradeInv, TypeOK, RequestOK, RequestType
<1>2. req'[w] = t /\ \A v \in Registrars \ {w} : req'[v] = req[v]
  BY <1>1
<1>3. TypeOK'
  <2>1. req' \in [Registrars -> RequestType]
    BY <1>1
  <2> QED
    BY <1>1, <2>1 DEF TypeOK, RequestType, Advance
<1>4. ASSUME NEW v \in Registrars PROVE RequestOK(req[v])'
  <2>1. CASE v = w
    BY <1>2, <2>1
  <2>2. CASE v # w
    <3>1. RequestOK(req[v]) /\ req'[v] = req[v]
      BY <1>2, <2>2 DEF TradeInv
    <3>2. ASSUME req[v].pc # "idle", NEW k \in {1, 2}, ~Exists(<<req[v].no, k>>)
          PROVE  rows'[<<req[v].no, k>>] = None
      <4>1. <<req[v].no, k>> \in Ids /\ <<req[v].no, k>>[1] = req[v].no
        BY <3>1, <3>2 DEF RequestOK, Ids
      <4>2. req[w].pc # "idle" => req[w].no # req[v].no
        BY <2>2, <3>2 DEF TradeInv, NumbersOK
      <4> QED
        BY <3>2, <4>1, <4>2 DEF Exists
    <3>3. \A s : /\ RequestOK(s)
                 /\ s.pc # "idle" => \A k \in {1, 2} :
                        ~Exists(<<s.no, k>>) => rows'[<<s.no, k>>] = None
                 => RequestOK(s)'
      BY RequestKept
    <3>4. RequestOK(req[v])'
      BY <3>1, <3>2, <3>3
    <3> QED
      BY <3>4
  <2> QED
    BY <2>1, <2>2
<1>5. ASSUME NEW v \in Syncers PROVE JobOK(job[v])'
  <2>1. \A s : JobOK(s) => JobOK(s)'
    BY JobKept
  <2> QED
    BY <2>1 DEF TradeInv
<1>6. ASSUME NEW i \in Ids, Exists(i)' PROVE Clean(i, rows[i])'
  <2>1. CASE rows'[i] = rows[i]
    BY <1>6, <2>1 DEF TradeInv, Exists, Clean
  <2>2. CASE rows'[i] # rows[i]
    BY <2>2 DEF Clean
  <2> QED
    BY <2>1, <2>2
<1>7. NumbersOK'
  <2>1. ASSUME NEW i \in Ids, Exists(i)' PROVE i[1] <= submits'
    <3>1. CASE Exists(i)
      BY <3>1 DEF TradeInv, NumbersOK
    <3>2. CASE ~Exists(i)
      <4>1. i[1] = req[w].no /\ req[w].pc # "idle"
        BY <2>1, <3>2 DEF Exists
      <4>2. RequestOK(req[w])
        BY DEF TradeInv
      <4> QED
        BY <4>1, <4>2 DEF RequestOK
    <3> QED
      BY <3>1, <3>2
  <2>2. ASSUME NEW u \in Registrars, NEW v \in Registrars, u # v,
               req'[u].pc # "idle", req'[v].pc # "idle"
        PROVE  req'[u].no # req'[v].no
    BY <1>2, <2>2 DEF TradeInv, NumbersOK
  <2> QED
    BY <2>1, <2>2 DEF NumbersOK
<1> QED
  BY <1>3, <1>4, <1>5, <1>6, <1>7 DEF TradeInv

\* A step of one sweep that changes no row, or the row it works on.
LEMMA JobStep ==
  ASSUME TradeInv, Advance, NEW w \in Syncers, NEW t,
         job' = [job EXCEPT ![w] = t], JobOK(t)',
         \A i \in Ids : rows'[i] # rows[i] => Exists(i) /\ Clean(i, rows'[i]),
         UNCHANGED <<sync, active, req, submits, reviews, approved, crowded>>,
         faults' \in 0 .. MaxFaults, contacts' \subseteq Emails
  PROVE  TradeInv'
<1>1. TypeOK /\ t \in JobType /\ job \in [Syncers -> JobType]
  BY DEF TradeInv, TypeOK, JobOK, JobType
<1>2. job'[w] = t /\ \A v \in Syncers \ {w} : job'[v] = job[v]
  BY <1>1
<1>3. TypeOK'
  <2>1. job' \in [Syncers -> JobType]
    BY <1>1
  <2> QED
    BY <1>1, <2>1 DEF TypeOK, JobType, Advance
<1>4. ASSUME NEW v \in Registrars PROVE RequestOK(req[v])'
  <2>1. RequestOK(req[v]) /\ req'[v] = req[v]
    BY DEF TradeInv
  <2>2. ASSUME req[v].pc # "idle", NEW k \in {1, 2}, ~Exists(<<req[v].no, k>>)
        PROVE  rows'[<<req[v].no, k>>] = None
    <3>1. <<req[v].no, k>> \in Ids
      BY <2>1, <2>2 DEF RequestOK, Ids
    <3> QED
      BY <2>2, <3>1 DEF Exists
  <2>3. \A s : /\ RequestOK(s)
               /\ s.pc # "idle" => \A k \in {1, 2} :
                      ~Exists(<<s.no, k>>) => rows'[<<s.no, k>>] = None
               => RequestOK(s)'
    BY RequestKept
  <2> QED
    BY <2>1, <2>2, <2>3
<1>5. ASSUME NEW v \in Syncers PROVE JobOK(job[v])'
  <2>1. \A s : JobOK(s) => JobOK(s)'
    BY JobKept
  <2>2. JobOK(job[v])
    BY DEF TradeInv
  <2> QED
    BY <1>2, <2>1, <2>2
<1>6. ASSUME NEW i \in Ids, Exists(i)' PROVE Clean(i, rows[i])'
  <2>1. CASE rows'[i] = rows[i]
    BY <1>6, <2>1 DEF TradeInv, Exists, Clean
  <2>2. CASE rows'[i] # rows[i]
    BY <2>2 DEF Clean
  <2> QED
    BY <2>1, <2>2
<1>7. NumbersOK'
  BY DEF TradeInv, NumbersOK, Exists
<1> QED
  BY <1>3, <1>4, <1>5, <1>6, <1>7 DEF TradeInv

-----------------------------------------------------------------------------
(* Registrations.                                                           *)

\* The request the handler goes on with is good in an unchanged table.
LEMMA RequestQuiet ==
  ASSUME TradeInv, UNCHANGED <<rows, submits, approved>>, NEW t, RequestOK(t)
  PROVE  Advance /\ RequestOK(t)'
<1>1. Advance
  BY SameAdvance DEF TradeInv
<1>2. \A k \in {1, 2} : ~Exists(<<t.no, k>>) => rows'[<<t.no, k>>] = None
  BY DEF Exists
<1> QED
  BY <1>1, <1>2, RequestKept

LEMMA RegisterStartInv ==
  ASSUME TradeInv, NEW w \in Registrars, NEW p \in Payloads, RegisterStart(w, p)
  PROVE  TradeInv'
<1>t. PICK t, f : /\ f = Found(p.email)
                  /\ t = [pc |-> "save", no |-> submits + 1, pay |-> p,
                          row |-> f, second |-> None]
  OBVIOUS
<1>1. /\ req[w].pc = "idle" /\ submits < MaxSubmits /\ submits' = submits + 1
      /\ req' = [req EXCEPT ![w] = t]
      /\ UNCHANGED <<rows, sync, active, job, faults, reviews, contacts, approved, crowded>>
      /\ TypeOK
  BY <1>t DEF RegisterStart, TradeInv
<1>2. /\ submits \in Nat /\ submits + 1 \in Numbers /\ submits' \in 0 .. MaxSubmits
      /\ req \in [Registrars -> RequestType] /\ p \in Payload
  BY <1>1, TradeAssumptions DEF TypeOK, RequestType, Numbers
<1>3. Advance
  BY <1>1, <1>2 DEF TypeOK, Advance, Exists
<1>4. f # None => f \in Ids /\ Exists(f)
  BY <1>t DEF Found
<1>5. t \in RequestType
  BY <1>t, <1>2, <1>4 DEF RequestType, Numbers
<1>6. ASSUME NEW k \in {1, 2} PROVE ~Exists(<<submits + 1, k>>)
  <2>1. <<submits + 1, k>> \in Ids /\ <<submits + 1, k>>[1] = submits + 1
    BY <1>2 DEF Ids
  <2> QED
    BY <1>2, <2>1 DEF TradeInv, NumbersOK
<1>7. RequestOK(t)'
  BY <1>t, <1>1, <1>2, <1>4, <1>5, <1>6 DEF RequestOK, Exists
<1>8. req'[w] = t /\ \A v \in Registrars \ {w} : req'[v] = req[v]
  BY <1>1, <1>2
<1>9. TypeOK'
  <2>1. req' \in [Registrars -> RequestType]
    BY <1>1, <1>2, <1>5
  <2> QED
    BY <1>1, <1>2, <2>1 DEF TypeOK, RequestType
<1>10. ASSUME NEW v \in Registrars PROVE RequestOK(req[v])'
  <2>1. CASE v = w
    BY <1>7, <1>8, <2>1
  <2>2. CASE v # w
    <3>1. RequestOK(req[v]) /\ req'[v] = req[v]
      BY <1>8, <2>2 DEF TradeInv
    <3>2. \A s : RequestOK(s) => RequestOK(s)'
      BY <1>1, <1>3, RequestKept DEF Exists
    <3> QED
      BY <3>1, <3>2
  <2> QED
    BY <2>1, <2>2
<1>11. ASSUME NEW v \in Syncers PROVE JobOK(job[v])'
  <2>1. \A s : JobOK(s) => JobOK(s)'
    BY <1>3, JobKept
  <2> QED
    BY <1>1, <2>1 DEF TradeInv
<1>12. NumbersOK'
  <2>1. ASSUME NEW i \in Ids, Exists(i)' PROVE i[1] <= submits'
    <3>1. i[1] <= submits /\ i[1] \in Nat
      BY <1>1, <2>1 DEF TradeInv, NumbersOK, Exists, Ids, Numbers
    <3> QED
      BY <1>1, <1>2, <3>1
  <2>2. ASSUME NEW v \in Registrars \ {w}, req[v].pc # "idle"
        PROVE  req[v].no # submits + 1
    <3>1. req[v].no \in Numbers /\ req[v].no <= submits
      BY <2>2 DEF TradeInv, RequestOK
    <3> QED
      BY <1>2, <3>1, TradeAssumptions DEF Numbers
  <2>3. t.no = submits + 1
    BY <1>t
  <2> QED
    BY <1>8, <2>1, <2>2, <2>3 DEF TradeInv, NumbersOK
<1>13. \A i \in Ids : Exists(i)' => Clean(i, rows[i])'
  BY <1>1 DEF TradeInv, Exists, Clean
<1> QED
  BY <1>9, <1>10, <1>11, <1>12, <1>13 DEF TradeInv

LEMMA InsertAdvance ==
  ASSUME TypeOK, NEW i \in Ids, ~Exists(i), NEW r \in Row,
         rows' = [rows EXCEPT ![i] = r], UNCHANGED <<submits, approved>>
  PROVE  Advance /\ rows'[i] = r /\ \A k \in Ids \ {i} : rows'[k] = rows[k]
  BY DEF TypeOK, Advance, Exists

LEMMA AfterPrimaryOK ==
  ASSUME NEW s \in RequestType, s.no \in Numbers, s.no <= submits, s.pay \in Payload,
         s.second = None, s.row # None, Exists(s.row), ~Exists(<<s.no, 2>>)
  PROVE  /\ RequestOK(AfterPrimary(s))
         /\ AfterPrimary(s).no = s.no
<1>t. PICK t : t = AfterPrimary(s)
  OBVIOUS
<1>1. /\ t \in RequestType
      /\ t.pc \in {"done", "siblings"} /\ (t.pc = "siblings" => s.pay.second # None)
      /\ t.no = s.no /\ t.pay = s.pay /\ t.row = s.row /\ t.second = s.second
  BY <1>t DEF AfterPrimary, RequestType
<1>2. RequestOK(t)
  BY <1>1 DEF RequestOK
<1> QED
  BY <1>t, <1>1, <1>2

LEMMA SavePrimaryInv ==
  ASSUME TradeInv, NEW w \in Registrars, SavePrimary(w)
  PROVE  TradeInv'
<1>p. PICK s, i, r : /\ s = req[w] /\ i = <<s.no, 1>>
                     /\ r = NewRow(s.no, TRUE, s.pay.email)
  OBVIOUS
<1>s. /\ RequestOK(s) /\ s \in RequestType /\ TypeOK /\ s.pc = "save" /\ s.row = None
      /\ s.no \in Numbers /\ s.no <= submits /\ s.pay \in Payload /\ s.second = None
      /\ ~Exists(i) /\ ~Exists(<<s.no, 2>>) /\ i \in Ids /\ i # <<s.no, 2>> /\ i[1] = s.no
      /\ <<s.no, 2>> \in Ids
  BY <1>p DEF SavePrimary, TradeInv, RequestOK, Ids
<1>u. UNCHANGED <<sync, active, job, submits, faults, reviews, contacts, approved, crowded>>
  BY DEF SavePrimary
<1>1. CASE UNCHANGED rows
  <2>1. PICK t : t = [s EXCEPT !.pc = "error"]
    OBVIOUS
  <2>2. req' = [req EXCEPT ![w] = t]
    <3>1. req' = [req EXCEPT ![w].pc = "error"]
      <4>1. ASSUME rows' = [rows EXCEPT ![i] = r] PROVE FALSE
        <5>1. r \in Row
          BY <1>p, <1>s DEF NewRow, Row, Payload
        <5>2. r # None
          BY <5>1, NoRowAssumption
        <5> QED
          BY <1>1, <1>s, <4>1, <5>2 DEF TypeOK, Exists
      <4> QED
        BY <1>p, <4>1 DEF SavePrimary
    <3> QED
      BY <1>p, <2>1, <3>1
  <2>3. /\ t \in RequestType /\ t.pc = "error" /\ t.no = s.no /\ t.pay = s.pay
        /\ t.row = s.row /\ t.second = s.second
    BY <1>s, <2>1 DEF RequestType
  <2>4. RequestOK(t)
    BY <1>s, <2>3 DEF RequestOK
  <2>5. Advance /\ RequestOK(t)'
    BY <1>1, <1>u, <2>4, RequestQuiet
  <2>6. crowded' \subseteq Numbers
    BY <1>s, <1>u DEF TypeOK
  <2> QED
    BY <1>p, <1>s, <1>1, <1>u, <2>2, <2>3, <2>5, <2>6, RequestStep
<1>2. CASE rows' = [rows EXCEPT ![i] = r] /\ rows' # rows
  <2>1. PICK x, t : x = [s EXCEPT !.row = i] /\ t = AfterPrimary(x)
    OBVIOUS
  <2>2. req' = [req EXCEPT ![w] = t]
    BY <1>p, <1>2, <2>1 DEF SavePrimary
  <2>3. r \in Row /\ r # None /\ Clean(i, r)
    <3>1. s.pay.email \in Emails
      BY <1>s DEF Payload
    <3>2. r \in Row /\ r.contact = FALSE /\ r.crm = "pending" /\ r.review = "pending"
      BY <1>p, <1>s, <3>1 DEF NewRow, Row
    <3> QED
      BY <3>2, NoRowAssumption DEF Clean
  <2>4. Advance /\ rows'[i] = r /\ \A k \in Ids \ {i} : rows'[k] = rows[k]
    BY <1>s, <1>2, <1>u, <2>3, InsertAdvance
  <2>5. /\ x \in RequestType /\ x.no = s.no /\ x.pay = s.pay /\ x.row = i
        /\ x.second = s.second /\ i # None
    BY <1>s, <2>1, NoRowAssumption DEF RequestType
  <2>6. t.no = s.no /\ RequestOK(t)'
    <3>1. /\ t \in RequestType
          /\ t.pc \in {"done", "siblings"} /\ (t.pc = "siblings" => s.pay.second # None)
          /\ t.no = s.no /\ t.pay = s.pay /\ t.row = i /\ t.second = None
      BY <1>s, <2>1, <2>5 DEF AfterPrimary, RequestType
    <3>2. rows'[i] # None /\ rows'[<<s.no, 2>>] = None
      BY <1>s, <2>3, <2>4 DEF Exists
    <3>3. t.no \in Numbers /\ t.no <= submits' /\ t.pay \in Payload /\ i # None
      BY <1>s, <1>u, <2>5, <3>1
    <3> QED
      BY <3>1, <3>2, <3>3 DEF RequestOK, Exists
  <2>7. crowded' \subseteq Numbers
    BY <1>s, <1>u DEF TypeOK
  <2>8. \A k \in Ids : rows'[k] # rows[k] =>
            /\ Exists(k) \/ (k[1] = req[w].no /\ req[w].pc # "idle")
            /\ Clean(k, rows'[k])
    BY <1>p, <1>s, <2>3, <2>4
  <2> QED
    BY <1>p, <1>s, <1>u, <2>2, <2>4, <2>6, <2>7, <2>8, RequestStep
<1> QED
  BY <1>p, <1>1, <1>2 DEF SavePrimary

LEMMA MergePrimaryInv ==
  ASSUME TradeInv, NEW w \in Registrars, MergePrimary(w)
  PROVE  TradeInv'
<1>p. PICK s, t : s = req[w] /\ t = AfterPrimary(s)
  OBVIOUS
<1>s. /\ RequestOK(s) /\ s \in RequestType /\ TypeOK /\ s.pc = "save" /\ s.row # None
      /\ s.no \in Numbers /\ s.no <= submits /\ s.pay \in Payload /\ s.second = None
      /\ ~Exists(<<s.no, 2>>) /\ Exists(s.row)
  BY <1>p DEF MergePrimary, TradeInv, RequestOK
<1>1. /\ req' = [req EXCEPT ![w] = t]
      /\ UNCHANGED <<rows, sync, active, job, submits, faults, reviews, contacts,
                     approved, crowded>>
  BY <1>p DEF MergePrimary
<1>2. RequestOK(t) /\ t.no = s.no
  BY <1>p, <1>s, AfterPrimaryOK
<1>3. Advance /\ RequestOK(t)'
  BY <1>1, <1>2, RequestQuiet
<1>4. crowded' \subseteq Numbers
  BY <1>s, <1>1 DEF TypeOK
<1> QED
  BY <1>p, <1>s, <1>1, <1>2, <1>3, <1>4, RequestStep

LEMMA FindSecondInv ==
  ASSUME TradeInv, NEW w \in Registrars, FindSecond(w)
  PROVE  TradeInv'
<1>p. PICK s : s = req[w]
  OBVIOUS
<1>s. /\ RequestOK(s) /\ s \in RequestType /\ TypeOK /\ s.pc = "siblings" /\ s.row # None
      /\ s.row \in Ids /\ Exists(s.row) /\ rows[s.row] \in Row
  <2>1. RequestOK(s) /\ TypeOK /\ s.pc = "siblings"
    BY <1>p DEF FindSecond, TradeInv
  <2>2. s \in RequestType /\ s.row # None /\ Exists(s.row)
    BY <2>1 DEF RequestOK
  <2>3. s.row \in Ids
    BY <2>2 DEF RequestType
  <2> QED
    BY <2>1, <2>2, <2>3 DEF TypeOK, Exists
<1>1. UNCHANGED <<rows, sync, active, job, submits, faults, reviews, contacts, approved>>
  BY DEF FindSecond
<1>2. crowded' \subseteq Numbers
  BY <1>p, <1>s DEF FindSecond, TypeOK, Reg, Row
<1>3. PICK x, t :
        /\ x \in Ids \cup {None}
        /\ x # None => Exists(x)
        /\ t = [s EXCEPT !.pc = "second", !.second = x]
        /\ req' = [req EXCEPT ![w] = t]
  <2>1. CASE Seconds(Reg(s)) = {}
    <3>1. [s EXCEPT !.pc = "second"] = [s EXCEPT !.pc = "second", !.second = None]
      BY <1>s DEF RequestType, RequestOK
    <3> QED
      BY <1>p, <2>1, <3>1 DEF FindSecond
  <2>2. CASE Seconds(Reg(s)) # {}
    BY <1>p, <2>2 DEF FindSecond, Seconds
  <2> QED
    BY <2>1, <2>2
<1>4. /\ t \in RequestType /\ t.pc = "second" /\ t.no = s.no /\ t.pay = s.pay
      /\ t.row = s.row /\ t.second = x
  BY <1>s, <1>3 DEF RequestType
<1>5. RequestOK(t)
  BY <1>s, <1>3, <1>4 DEF RequestOK
<1>6. Advance /\ RequestOK(t)'
  BY <1>1, <1>5, RequestQuiet
<1> QED
  BY <1>p, <1>s, <1>1, <1>2, <1>3, <1>4, <1>6, RequestStep

LEMMA RespondInv ==
  ASSUME TradeInv, NEW w \in Registrars, Respond(w)
  PROVE  TradeInv'
<1>1. /\ req' = [req EXCEPT ![w] = NoRequest] /\ TypeOK
      /\ UNCHANGED <<rows, sync, active, job, submits, faults, reviews, contacts,
                     approved, crowded>>
  BY DEF Respond, TradeInv
<1>2. RequestOK(NoRequest) /\ NoRequest.pc = "idle"
  BY TradeAssumptions DEF NoRequest, RequestOK, RequestType
<1>3. Advance /\ RequestOK(NoRequest)'
  BY <1>1, <1>2, RequestQuiet
<1>4. crowded' \subseteq Numbers
  BY <1>1 DEF TypeOK
<1> QED
  BY <1>1, <1>2, <1>3, <1>4, RequestStep

LEMMA SaveSecondInv ==
  ASSUME TradeInv, NEW w \in Registrars, SaveSecond(w)
  PROVE  TradeInv'
<1>p. PICK s, i, e : /\ s = req[w] /\ e = SecondEmail(s.pay)
                     /\ i = IF s.second = None THEN <<s.no, 2>> ELSE s.second
  OBVIOUS
<1>s. /\ RequestOK(s) /\ s \in RequestType /\ TypeOK /\ s.pc = "second" /\ s.row # None
      /\ s.row \in Ids /\ Exists(s.row) /\ rows[s.row] \in Row /\ s.no \in Numbers
      /\ s.no <= submits /\ s.pay \in Payload /\ s.pay.second # None
      /\ ~Exists(<<s.no, 2>>) /\ (s.second # None => Exists(s.second))
  <2>1. RequestOK(s) /\ TypeOK /\ s.pc = "second"
    BY <1>p DEF SaveSecond, TradeInv
  <2>2. /\ s \in RequestType /\ s.row # None /\ Exists(s.row) /\ s.no \in Numbers
        /\ s.no <= submits /\ s.pay \in Payload /\ s.pay.second # None
        /\ ~Exists(<<s.no, 2>>) /\ (s.second # None => Exists(s.second))
    BY <2>1 DEF RequestOK
  <2>3. s.row \in Ids
    BY <2>2 DEF RequestType
  <2> QED
    BY <2>1, <2>2, <2>3 DEF TypeOK, Exists
<1>e. /\ e \in Emails \cup {NoEmail} /\ Reg(s) \in Numbers /\ i \in Ids
      /\ s.second = None => i[1] = s.no
  <2>1. e \in Emails \cup {NoEmail}
    BY <1>p, <1>s DEF SecondEmail, Payload
  <2>2. Reg(s) \in Numbers
    BY <1>s DEF Reg, Row
  <2>3. i \in Ids /\ (s.second = None => i[1] = s.no)
    BY <1>p, <1>s DEF Ids, RequestType
  <2> QED
    BY <2>1, <2>2, <2>3
<1>u. /\ UNCHANGED <<sync, active, job, submits, faults, reviews, contacts, approved, crowded>>
      /\ crowded' \subseteq Numbers
  BY <1>s DEF SaveSecond, TypeOK
<1>1. CASE UNCHANGED rows /\ req' = [req EXCEPT ![w].pc = "error"]
  <2>1. PICK t : t = [s EXCEPT !.pc = "error"]
    OBVIOUS
  <2>2. req' = [req EXCEPT ![w] = t]
    BY <1>p, <1>1, <2>1
  <2>3. /\ t \in RequestType /\ t.pc = "error" /\ t.no = s.no /\ t.pay = s.pay
        /\ t.row = s.row /\ t.second = s.second
    BY <1>s, <2>1 DEF RequestType
  <2>4. RequestOK(t)
    BY <1>s, <2>3 DEF RequestOK
  <2>5. Advance /\ RequestOK(t)'
    BY <1>1, <1>u, <2>4, RequestQuiet
  <2> QED
    BY <1>p, <1>s, <1>1, <1>u, <2>2, <2>3, <2>5, RequestStep
<1>2. CASE /\ req' = [req EXCEPT ![w].pc = "done"]
           /\ rows' = [rows EXCEPT ![i] = IF s.second = None
                                          THEN NewRow(Reg(s), FALSE, e)
                                          ELSE [@ EXCEPT !.email = e]]
  <2>1. PICK t, r : /\ t = [s EXCEPT !.pc = "done"]
                    /\ r = IF s.second = None THEN NewRow(Reg(s), FALSE, e)
                                              ELSE [rows[i] EXCEPT !.email = e]
    OBVIOUS
  <2>2. req' = [req EXCEPT ![w] = t] /\ rows' = [rows EXCEPT ![i] = r]
    BY <1>p, <1>2, <2>1
  <2>3. /\ t \in RequestType /\ t.pc = "done" /\ t.no = s.no /\ t.pay = s.pay
        /\ t.row = s.row /\ t.second = s.second
    BY <1>s, <2>1 DEF RequestType
  <2>4. /\ r \in Row /\ r # None /\ Clean(i, r)
        /\ Exists(i) => /\ r.reg = rows[i].reg /\ r.primary = rows[i].primary
                        /\ r.contact = rows[i].contact
    <3>1. CASE s.second = None
      <4>1. r \in Row /\ r.contact = FALSE /\ r.crm = "pending" /\ r.review = "pending"
        BY <1>e, <2>1, <3>1 DEF NewRow, Row
      <4>2. ~Exists(i)
        BY <1>p, <1>s, <3>1
      <4> QED
        BY <4>1, <4>2, NoRowAssumption DEF Clean
    <3>2. CASE s.second # None
      <4>1. Exists(i) /\ rows[i] \in Row /\ Clean(i, rows[i])
        BY <1>p, <1>s, <1>e, <3>2 DEF TradeInv, TypeOK, Exists
      <4>2. /\ r \in Row /\ r.contact = rows[i].contact /\ r.crm = rows[i].crm
            /\ r.review = rows[i].review /\ r.reg = rows[i].reg
            /\ r.primary = rows[i].primary
        BY <1>e, <2>1, <3>2, <4>1 DEF Row
      <4> QED
        BY <4>1, <4>2, NoRowAssumption DEF Clean
    <3> QED
      BY <3>1, <3>2
  <2>5. Advance /\ rows'[i] = r /\ \A k \in Ids \ {i} : rows'[k] = rows[k]
    BY <1>s, <1>e, <1>u, <2>2, <2>4 DEF TypeOK, Advance, Exists
  <2>6. RequestOK(t)'
    <3>1. /\ t.row # None => rows'[t.row] # None
          /\ t.second # None => rows'[t.second] # None
      BY <1>s, <2>3, <2>5 DEF Advance, RequestType, Exists
    <3> QED
      BY <1>s, <1>u, <2>3, <3>1 DEF RequestOK, Exists
  <2>7. \A k \in Ids : rows'[k] # rows[k] =>
            /\ Exists(k) \/ (k[1] = req[w].no /\ req[w].pc # "idle")
            /\ Clean(k, rows'[k])
    BY <1>p, <1>s, <1>e, <2>4, <2>5
  <2> QED
    BY <1>p, <1>s, <1>u, <2>2, <2>3, <2>5, <2>6, <2>7, RequestStep
<1> QED
  BY <1>p, <1>1, <1>2 DEF SaveSecond

-----------------------------------------------------------------------------
(* Reviews, the seed and the sweep.                                         *)

LEMMA ReviewInv ==
  ASSUME TradeInv, NEW i \in Ids, NEW a \in {"approved", "rejected"},
         Review(i, a)
  PROVE  TradeInv'
<1>p. PICK r : r = [rows[i] EXCEPT !.review = a]
  OBVIOUS
<1>1. /\ Exists(i) /\ reviews < MaxReviews /\ reviews' = reviews + 1 /\ TypeOK
      /\ rows' = [rows EXCEPT ![i] = r]
      /\ approved' = IF a = "approved" THEN approved \cup {i} ELSE approved
      /\ UNCHANGED <<sync, active, req, job, submits, faults, contacts, crowded>>
  BY <1>p DEF Review, TradeInv
<1>2. rows[i] \in Row /\ Clean(i, rows[i])
  BY <1>1 DEF TradeInv, TypeOK, Exists
<1>3. /\ r \in Row /\ r # None /\ r.review = a /\ r.reg = rows[i].reg
      /\ r.primary = rows[i].primary /\ r.crm = rows[i].crm /\ r.contact = rows[i].contact
  <2>1. r \in Row
    BY <1>p, <1>2 DEF Row
  <2> QED
    BY <1>p, <1>2, <2>1, NoRowAssumption DEF Row
<1>4. rows'[i] = r /\ \A k \in Ids \ {i} : rows'[k] = rows[k]
  BY <1>1 DEF TypeOK
<1>5. Advance
  <2>1. rows' \in [Ids -> Row \cup {None}] /\ approved \subseteq approved'
    BY <1>1, <1>3 DEF TypeOK
  <2> QED
    BY <1>1, <1>3, <1>4, <2>1 DEF Advance, Exists, TypeOK
<1>6. TypeOK'
  <2>1. reviews' \in 0 .. MaxReviews /\ approved' \subseteq Ids
    BY <1>1, TradeAssumptions DEF TypeOK
  <2> QED
    BY <1>1, <1>5, <2>1 DEF TypeOK, Advance
<1>7. ASSUME NEW v \in Registrars PROVE RequestOK(req[v])'
  <2>1. RequestOK(req[v]) /\ req'[v] = req[v]
    BY <1>1 DEF TradeInv
  <2>2. ASSUME req[v].pc # "idle", NEW k \in {1, 2}, ~Exists(<<req[v].no, k>>)
        PROVE  rows'[<<req[v].no, k>>] = None
    <3>1. <<req[v].no, k>> \in Ids
      BY <2>1, <2>2 DEF RequestOK, Ids
    <3> QED
      BY <1>1, <1>4, <2>2, <3>1 DEF Exists
  <2>3. \A s : /\ RequestOK(s)
               /\ s.pc # "idle" => \A k \in {1, 2} :
                      ~Exists(<<s.no, k>>) => rows'[<<s.no, k>>] = None
               => RequestOK(s)'
    BY <1>5, RequestKept
  <2> QED
    BY <2>1, <2>2, <2>3
<1>8. ASSUME NEW v \in Syncers PROVE JobOK(job[v])'
  <2>1. \A s : JobOK(s) => JobOK(s)'
    BY <1>5, JobKept
  <2> QED
    BY <1>1, <2>1 DEF TradeInv
<1>9. ASSUME NEW k \in Ids, Exists(k)' PROVE Clean(k, rows[k])'
  <2>1. CASE k = i
    BY <1>1, <1>2, <1>3, <1>4, <2>1 DEF Clean
  <2>2. CASE k # i
    BY <1>1, <1>4, <1>9, <2>2 DEF TradeInv, Clean, Exists
  <2> QED
    BY <2>1, <2>2
<1>10. NumbersOK'
  BY <1>1, <1>4 DEF TradeInv, NumbersOK, Exists
<1> QED
  BY <1>6, <1>7, <1>8, <1>9, <1>10 DEF TradeInv

LEMMA QuietInv ==
  ASSUME TradeInv, UNCHANGED <<rows, req, job, submits, faults, reviews, contacts,
                               approved, crowded>>,
         sync' \in BOOLEAN, active' \in BOOLEAN
  PROVE  TradeInv'
<1>1. Advance /\ TypeOK
  BY SameAdvance DEF TradeInv
<1>2. TypeOK' /\ NumbersOK'
  BY <1>1 DEF TypeOK, TradeInv, NumbersOK, Exists
<1>3. \A i \in Ids : Exists(i)' => Clean(i, rows[i])'
  BY DEF TradeInv, Exists, Clean
<1>4. (\A s : RequestOK(s) => RequestOK(s)') /\ (\A s : JobOK(s) => JobOK(s)')
  BY <1>1, RequestKept, JobKept DEF Exists
<1>5. /\ \A w \in Registrars : RequestOK(req[w])'
      /\ \A w \in Syncers : JobOK(job[w])'
  BY <1>4 DEF TradeInv
<1> QED
  BY <1>2, <1>3, <1>5 DEF TradeInv

LEMMA SeedProgramInv ==
  ASSUME TradeInv, SeedProgram
  PROVE  TradeInv'
  BY QuietInv DEF SeedProgram

LEMMA NoJobOK == JobOK(NoJob)
<1>1. NoJob \in JobType
  BY DEF NoJob, JobType
<1>2. NoJob.pc = "idle" /\ \A i \in Ids : NoJob.batch[i] = None
  BY DEF NoJob
<1> QED
  BY <1>1, <1>2 DEF JobOK

\* The row itself is a good copy of itself.
LEMMA RowIsCopy ==
  ASSUME TradeInv, NEW i \in Ids, Exists(i)
  PROVE  Copy(i, rows[i])
  BY DEF TradeInv, TypeOK, Copy, Exists

LEMMA SyncSweepInv ==
  ASSUME TradeInv, NEW w \in Syncers, SyncSweep(w)
  PROVE  TradeInv'
<1>p. PICK b, t : /\ b = [i \in Ids |-> IF i \in Waiting THEN rows[i] ELSE None]
                  /\ t = [NoJob EXCEPT !.pc = "next", !.sync = sync, !.batch = b]
  OBVIOUS
<1>1. /\ job' = [job EXCEPT ![w] = t] /\ TypeOK
      /\ UNCHANGED <<rows, sync, active, req, submits, faults, reviews, contacts,
                     approved, crowded>>
  BY <1>p DEF SyncSweep, TradeInv
<1>2. Advance
  BY <1>1, SameAdvance
<1>3. b \in [Ids -> Row \cup {None}]
  BY <1>p, <1>1 DEF TypeOK
<1>4. \A i \in Ids : b[i] # None => Copy(i, b[i])
  BY <1>p, RowIsCopy DEF Waiting, Exists
<1>5. t \in JobType /\ t.pc = "next" /\ t.batch = b
  BY <1>p, <1>1, <1>3 DEF NoJob, JobType, TypeOK
<1>6. JobOK(t)
  BY <1>4, <1>5 DEF JobOK
<1>7. JobOK(t)'
  BY <1>2, <1>6, JobKept
<1>8. faults' \in 0 .. MaxFaults /\ contacts' \subseteq Emails
  BY <1>1 DEF TypeOK
<1> QED
  BY <1>1, <1>2, <1>7, <1>8, JobStep

LEMMA SyncNextInv ==
  ASSUME TradeInv, NEW w \in Syncers, SyncNext(w)
  PROVE  TradeInv'
<1>p. PICK s : s = job[w]
  OBVIOUS
<1>1. /\ JobOK(s) /\ s \in JobType /\ TypeOK /\ s.pc = "next"
      /\ UNCHANGED <<rows, sync, active, req, submits, faults, reviews, contacts,
                     approved, crowded>>
  BY <1>p DEF SyncNext, TradeInv, JobOK
<1>2. Advance /\ faults' \in 0 .. MaxFaults /\ contacts' \subseteq Emails
  BY <1>1, SameAdvance DEF TypeOK
<1>3. CASE job' = [job EXCEPT ![w] = NoJob]
  BY <1>1, <1>2, <1>3, NoJobOK, JobKept, JobStep
<1>4. ASSUME NEW i \in Ids, NEW r, r = s.batch[i], r # None,
             NEW x, x = [s EXCEPT !.id = i, !.snap = r, !.batch[i] = None],
             job' = [job EXCEPT ![w] =
                        IF Gated(s, r)
                        THEN [x EXCEPT !.pc = "record",
                                       !.new = [r EXCEPT !.crm = "skipped"]]
                        ELSE [x EXCEPT !.pc = "push"]]
      PROVE  TradeInv'
  <2>1. r \in Row /\ Copy(i, r) /\ Clean(i, r)
    BY <1>1, <1>4 DEF JobOK, Copy
  <2>2. PICK b : b = [s.batch EXCEPT ![i] = None]
    OBVIOUS
  <2>3. /\ b \in [Ids -> Row \cup {None}]
        /\ \A k \in Ids : b[k] # None => Copy(k, b[k])
    BY <1>1, <2>2 DEF JobOK, JobType
  <2>4. /\ x \in JobType /\ x.id = i /\ x.snap = r /\ x.batch = b /\ x.new = s.new
        /\ x.sync = s.sync
    BY <1>1, <1>4, <2>1, <2>2, <2>3 DEF JobType
  <2>5. CASE Gated(s, r)
    <3>1. PICK n, t : /\ n = [r EXCEPT !.crm = "skipped"]
                      /\ t = [x EXCEPT !.pc = "record", !.new = n]
      OBVIOUS
    <3>2. n \in Row /\ n.crm = "skipped" /\ n.contact = r.contact
      BY <2>1, <3>1 DEF Row
    <3>3. /\ t \in JobType /\ t.pc = "record" /\ t.id = i /\ t.snap = r /\ t.batch = b
          /\ t.new = n
      BY <2>4, <3>1, <3>2 DEF JobType
    <3>4. JobOK(t)
      BY <2>1, <2>3, <3>2, <3>3 DEF JobOK, Clean
    <3>5. JobOK(t)' /\ job' = [job EXCEPT ![w] = t]
      BY <1>2, <1>4, <2>5, <3>1, <3>4, JobKept
    <3> QED
      BY <1>1, <1>2, <3>5, JobStep
  <2>6. CASE ~Gated(s, r)
    <3>1. PICK t : t = [x EXCEPT !.pc = "push"]
      OBVIOUS
    <3>2. r.email \in Emails /\ (RequireApproval => i \in approved)
      BY <2>1, <2>6 DEF Gated, Clean, Row
    <3>3. t \in JobType /\ t.pc = "push" /\ t.id = i /\ t.snap = r /\ t.batch = b
      BY <2>4, <3>1 DEF JobType
    <3>4. JobOK(t)
      BY <2>1, <2>3, <3>2, <3>3 DEF JobOK
    <3>5. JobOK(t)' /\ job' = [job EXCEPT ![w] = t]
      BY <1>2, <1>4, <2>6, <3>1, <3>4, JobKept
    <3> QED
      BY <1>1, <1>2, <3>5, JobStep
  <2> QED
    BY <2>5, <2>6
<1> QED
  BY <1>p, <1>3, <1>4 DEF SyncNext

LEMMA PushInv ==
  ASSUME TradeInv, NEW w \in Syncers, Push(w)
  PROVE  TradeInv'
<1>p. PICK s : s = job[w]
  OBVIOUS
<1>1. /\ JobOK(s) /\ s \in JobType /\ TypeOK /\ s.pc = "push" /\ s.id \in Ids
      /\ Copy(s.id, s.snap) /\ s.snap \in Row /\ s.snap.email \in Emails
      /\ RequireApproval => s.id \in approved
      /\ UNCHANGED <<rows, sync, active, req, submits, reviews, approved, crowded>>
  <2>1. JobOK(s) /\ TypeOK /\ s.pc = "push"
    BY <1>p DEF Push, TradeInv
  <2>2. /\ s \in JobType /\ s.id \in Ids /\ Copy(s.id, s.snap) /\ s.snap.email \in Emails
        /\ RequireApproval => s.id \in approved
    BY <2>1 DEF JobOK
  <2> QED
    BY <2>1, <2>2 DEF Push, Copy
<1>2. Advance
  BY <1>1, SameAdvance
<1>3. faults' \in 0 .. MaxFaults /\ contacts' \subseteq Emails
  BY <1>p, <1>1, TradeAssumptions DEF Push, TypeOK
<1>4. PICK n : /\ n \in {[s.snap EXCEPT !.crm = "synced", !.contact = TRUE],
                         [s.snap EXCEPT !.crm = "failed"]}
               /\ job' = [job EXCEPT ![w] = [s EXCEPT !.pc = "record", !.new = n]]
  BY <1>p DEF Push
<1>5. /\ n \in Row /\ (n.crm = "synced" => n.contact)
      /\ n.contact /\ RequireApproval => s.id \in approved
      /\ s.snap.contact => n.contact
  BY <1>1, <1>4 DEF Row
<1>6. PICK t : t = [s EXCEPT !.pc = "record", !.new = n]
  OBVIOUS
<1>7. /\ t \in JobType /\ t.pc = "record" /\ t.id = s.id /\ t.snap = s.snap
      /\ t.batch = s.batch /\ t.new = n
  BY <1>1, <1>5, <1>6 DEF JobType
<1>8. JobOK(t)
  BY <1>1, <1>5, <1>7 DEF JobOK
<1>9. JobOK(t)'
  BY <1>2, <1>8, JobKept
<1> QED
  BY <1>1, <1>2, <1>3, <1>4, <1>6, <1>9, JobStep

\* What the sweep writes back: the two CRM columns, and never a lost contact.
LEMMA RecordWrites ==
  ASSUME TradeInv, NEW w \in Syncers, Record(w), NEW s, s = job[w]
  PROVE  /\ s.id \in Ids /\ Exists(s.id)
         /\ \E c \in {rows[s.id].crm, s.new.crm}, k \in {rows[s.id].contact, s.new.contact} :
              /\ rows' = [rows EXCEPT ![s.id] = [@ EXCEPT !.crm = c, !.contact = k]]
              /\ rows[s.id].contact => k
              /\ c = "synced" => k
              /\ k /\ RequireApproval => s.id \in approved
<1>1. JobOK(s) /\ s.pc = "record" /\ TypeOK
  BY DEF Record, TradeInv
<1>2. s.id \in Ids /\ Copy(s.id, s.snap) /\ Exists(s.id)
  BY <1>1 DEF JobOK, Copy
<1>3. /\ s.new \in Row /\ s.snap \in Row /\ rows[s.id] \in Row
      /\ Clean(s.id, rows[s.id])
      /\ s.new.crm = "synced" => s.new.contact
      /\ s.new.contact /\ RequireApproval => s.id \in approved
      /\ s.snap.contact => s.new.contact
      /\ s.snap.contact => rows[s.id].contact
      /\ s.snap.crm = "synced" => s.snap.contact
  BY <1>1, <1>2 DEF JobOK, Copy, Clean, TradeInv, TypeOK, Exists
<1>4. /\ s.new.contact \in BOOLEAN /\ s.snap.contact \in BOOLEAN
      /\ rows[s.id].contact \in BOOLEAN
  BY <1>3 DEF Row
<1>5. PICK c, k : /\ c = IF s.new.crm # s.snap.crm THEN s.new.crm ELSE rows[s.id].crm
                  /\ k = IF s.new.contact # s.snap.contact THEN s.new.contact
                                                           ELSE rows[s.id].contact
  OBVIOUS
<1>6. rows' = [rows EXCEPT ![s.id] = [@ EXCEPT !.crm = c, !.contact = k]]
  BY <1>1, <1>2, <1>3, <1>5 DEF Record, TypeOK, Row
<1>7. rows[s.id].contact => k
  BY <1>3, <1>4, <1>5
<1>8. c = "synced" => k
  BY <1>3, <1>4, <1>5 DEF Clean
<1>9. k /\ RequireApproval => s.id \in approved
  BY <1>3, <1>4, <1>5 DEF Clean
<1> QED
  BY <1>2, <1>5, <1>6, <1>7, <1>8, <1>9

LEMMA RecordInv ==
  ASSUME TradeInv, NEW w \in Syncers, Record(w)
  PROVE  TradeInv'
<1>p. PICK s, t : s = job[w] /\ t = [s EXCEPT !.pc = "next", !.id = None,
                                              !.snap = None, !.new = None]
  OBVIOUS
<1>1. /\ JobOK(s) /\ s \in JobType /\ TypeOK /\ s.pc = "record"
      /\ job' = [job EXCEPT ![w] = t]
      /\ UNCHANGED <<sync, active, req, submits, faults, reviews, contacts, approved, crowded>>
  BY <1>p DEF Record, TradeInv, JobOK
<1>2. PICK i, c, k :
        /\ i = s.id /\ i \in Ids /\ Exists(i)
        /\ c \in {rows[i].crm, s.new.crm} /\ k \in {rows[i].contact, s.new.contact}
        /\ rows' = [rows EXCEPT ![i] = [@ EXCEPT !.crm = c, !.contact = k]]
        /\ rows[i].contact => k
        /\ c = "synced" => k
        /\ k /\ RequireApproval => i \in approved
  BY <1>p, RecordWrites
<1>3. rows[i] \in Row /\ s.new \in Row /\ Clean(i, rows[i])
  BY <1>1, <1>2 DEF JobOK, TradeInv, TypeOK, Exists
<1>4. PICK r : r = [rows[i] EXCEPT !.crm = c, !.contact = k]
  OBVIOUS
<1>5. /\ r \in Row /\ r.crm = c /\ r.contact = k /\ r.review = rows[i].review
      /\ r.reg = rows[i].reg /\ r.primary = rows[i].primary
  BY <1>2, <1>3, <1>4 DEF Row
<1>6. r # None /\ Clean(i, r)
  BY <1>2, <1>3, <1>5, NoRowAssumption DEF Clean
<1>7. rows'[i] = r /\ \A j \in Ids \ {i} : rows'[j] = rows[j]
  BY <1>1, <1>2, <1>4 DEF TypeOK
<1>8. Advance
  <2>1. rows' \in [Ids -> Row \cup {None}]
    BY <1>1, <1>2, <1>4, <1>5 DEF TypeOK
  <2>2. \A j \in Ids : Exists(j) =>
            /\ rows'[j] # None /\ rows'[j].reg = rows[j].reg
            /\ rows'[j].primary = rows[j].primary
            /\ rows[j].contact => rows'[j].contact
    BY <1>2, <1>5, <1>6, <1>7 DEF Exists
  <2>3. submits \in 0 .. MaxSubmits /\ submits' = submits /\ approved' = approved
    BY <1>1 DEF TypeOK
  <2> QED
    BY <2>1, <2>2, <2>3 DEF Advance
<1>9. t \in JobType /\ t.pc = "next" /\ t.batch = s.batch
  BY <1>p, <1>1 DEF JobType
<1>10. JobOK(t)
  BY <1>1, <1>9 DEF JobOK
<1>11. JobOK(t)'
  BY <1>8, <1>10, JobKept
<1>12. \A j \in Ids : rows'[j] # rows[j] => Exists(j) /\ Clean(j, rows'[j])
  BY <1>2, <1>6, <1>7
<1>13. faults' \in 0 .. MaxFaults /\ contacts' \subseteq Emails
  BY <1>1 DEF TypeOK
<1> QED
  BY <1>1, <1>8, <1>11, <1>12, <1>13, JobStep

-----------------------------------------------------------------------------
LEMMA TradeInvInit == Init => TradeInv
<1> SUFFICES ASSUME Init PROVE TradeInv
  OBVIOUS
<1>1. NoRequest \in RequestType /\ NoRequest.pc = "idle"
      /\ NoRequest.row = None /\ NoRequest.second = None
  BY TradeAssumptions DEF NoRequest, RequestType
<1>2. RequestOK(NoRequest) /\ JobOK(NoJob) /\ NoJob \in JobType
  BY <1>1, NoJobOK DEF RequestOK, JobOK
<1>3. TypeOK
  <2>1. req \in [Registrars -> RequestType] /\ job \in [Syncers -> JobType]
    BY <1>1, <1>2 DEF Init
  <2> QED
    BY <2>1, TradeAssumptions DEF Init, TypeOK, RequestType, JobType
<1>4. NumbersOK
  BY <1>1 DEF Init, NumbersOK, Exists
<1> QED
  BY <1>2, <1>3, <1>4 DEF Init, TradeInv, Exists

LEMMA TradeInvNext == TradeInv /\ [Next]_vars => TradeInv'
<1> SUFFICES ASSUME TradeInv, [Next]_vars PROVE TradeInv'
  OBVIOUS
<1>1. ASSUME NEW w \in Registrars, NEW p \in Payloads, RegisterStart(w, p)
      PROVE  TradeInv'
  BY <1>1, RegisterStartInv
<1>2. ASSUME NEW w \in Registrars, RegisterStep(w) PROVE TradeInv'
  BY <1>2, SavePrimaryInv, MergePrimaryInv, FindSecondInv, SaveSecondInv, RespondInv
     DEF RegisterStep
<1>3. ASSUME NEW i \in Ids, NEW s \in {"approved", "rejected"}, Review(i, s)
      PROVE  TradeInv'
  BY <1>3, ReviewInv
<1>4. CASE SeedProgram
  BY <1>4, SeedProgramInv
<1>5. ASSUME NEW w \in Syncers, SyncStep(w) PROVE TradeInv'
  BY <1>5, SyncSweepInv, SyncNextInv, PushInv, RecordInv DEF SyncStep
<1>6. CASE UNCHANGED vars
  BY <1>6, QuietInv DEF vars, TradeInv, TypeOK
<1> QED
  BY <1>1, <1>2, <1>3, <1>4, <1>5, <1>6 DEF Next

LEMMA TradeInvariant == Spec => []TradeInv
  BY TradeInvInit, TradeInvNext, PTL DEF Spec

\* The tables, sessions and histories keep their types for any constants.
THEOREM TypeCorrect == Spec => []TypeOK
<1>1. TradeInv => TypeOK
  BY DEF TradeInv
<1> QED
  BY <1>1, TradeInvariant, PTL

\* Under the approval gate nobody whom no admin has ever approved gets a
\* contact, and a participant marked synced has one (trade_crm_sync).
THEOREM SyncedApproved == Spec => []SyncedWasApproved
<1>1. TradeInv => SyncedWasApproved
  BY DEF TradeInv, SyncedWasApproved, Clean
<1> QED
  BY <1>1, TradeInvariant, PTL

LEMMA SweepStep ==
  ASSUME TradeInv, Next, NEW w \in Syncers, NEW i \in Ids,
         job[w].pc = "record", job'[w].pc = "next", Exists(i)
  PROVE  rows'[i].review = rows[i].review /\ rows'[i].email = rows[i].email
<1>1. job \in [Syncers -> JobType] /\ rows \in [Ids -> Row \cup {None}]
  BY DEF TradeInv, TypeOK, JobType
<1>2. job' # job
  OBVIOUS
<1>3. PICK v \in Syncers : SyncStep(v)
  BY <1>2 DEF Next, RegisterStart, RegisterStep, SavePrimary, MergePrimary, FindSecond,
              SaveSecond, Respond, Review, SeedProgram
<1>4. \E t : job' = [job EXCEPT ![v] = t]
  BY <1>3 DEF SyncStep, SyncSweep, SyncNext, Push, Record
<1>5. v = w
  BY <1>1, <1>4
<1>6. Record(w)
  <2>1. ~SyncSweep(w) /\ ~SyncNext(w)
    BY DEF SyncSweep, SyncNext
  <2>2. job[w] \in JobType /\ ~Push(w)
    BY <1>1 DEF Push
  <2> QED
    BY <1>3, <1>5, <2>1, <2>2 DEF SyncStep
<1>7. rows[i] \in Row
  BY <1>1 DEF Exists
<1>8. PICK k, c, b :
        /\ k \in Ids
        /\ rows' = [rows EXCEPT ![k] = [@ EXCEPT !.crm = c, !.contact = b]]
  <2>1. PICK s : s = job[w]
    OBVIOUS
  <2>2. PICK k, c, b :
          /\ k = s.id /\ k \in Ids /\ Exists(k)
          /\ c \in {rows[k].crm, s.new.crm} /\ b \in {rows[k].contact, s.new.contact}
          /\ rows' = [rows EXCEPT ![k] = [@ EXCEPT !.crm = c, !.contact = b]]
          /\ rows[k].contact => b
          /\ c = "synced" => b
          /\ b /\ RequireApproval => k \in approved
    BY <1>6, <2>1, RecordWrites
  <2> QED
    BY <2>2
<1> QED
  BY <1>1, <1>7, <1>8 DEF Row

\* update_lead writes the columns the sweep has changed and no other: a review
\* or a new identity committed since the batch was loaded survives.
THEOREM SweepKeeps == Spec => SweepKeepsTheRest
<1>1. TradeInv /\ [Next]_vars =>
        [\A w \in Syncers, i \in Ids :
            job[w].pc = "record" /\ job'[w].pc = "next" /\ Exists(i) =>
                /\ rows'[i].review = rows[i].review
                /\ rows'[i].email = rows[i].email]_vars
  BY SweepStep
<1> QED
  BY <1>1, TradeInvariant, PTL DEF Spec, SweepKeepsTheRest

-----------------------------------------------------------------------------
(* One second participant, unless two requests looked for it together.      *)

\* Unless the registration is crowded, a request about to save its second
\* participant is the only one, and the absence it has seen still holds.
Alone ==
    \A w \in Registrars : req[w].pc = "second" /\ Reg(req[w]) \notin crowded =>
        /\ req[w].second = None => Seconds(Reg(req[w])) = {}
        /\ \A v \in Registrars \ {w} :
            req[v].pc = "second" => Reg(req[v]) # Reg(req[w])

OneSecond == \A g \in Numbers \ crowded : \A i, j \in Seconds(g) : i = j

\* The rows that requests work on, and their registrations.
LEMMA OpenRow ==
  ASSUME TradeInv, NEW w \in Registrars, req[w].pc \in {"siblings", "second"}
  PROVE  /\ req[w].row \in Ids /\ Exists(req[w].row) /\ Reg(req[w]) \in Numbers
         /\ req[w].no \in Numbers /\ ~Exists(<<req[w].no, 2>>)
         /\ <<req[w].no, 2>> \in Ids
<1>1. /\ req[w] \in RequestType /\ req[w].row # None /\ Exists(req[w].row)
      /\ req[w].no \in Numbers /\ ~Exists(<<req[w].no, 2>>)
  BY DEF TradeInv, RequestOK
<1>2. req[w].row \in Ids
  BY <1>1 DEF RequestType
<1>3. rows[req[w].row] \in Row
  BY <1>1, <1>2 DEF TradeInv, TypeOK, Exists
<1> QED
  BY <1>1, <1>2, <1>3 DEF Reg, Row, Ids

\* A step that inserts no second participant and starts no look for one.
LEMMA CrowdKept ==
  ASSUME TradeInv, Alone, OneSecond,
         \A i \in Ids : Exists(i) => rows'[i] # None /\ rows'[i].reg = rows[i].reg,
         \A i \in Ids : rows'[i] # None /\ ~rows'[i].primary =>
            Exists(i) /\ ~rows[i].primary,
         \A v \in Registrars : req'[v].pc = "second" => req'[v] = req[v],
         UNCHANGED crowded
  PROVE  Alone' /\ OneSecond'
<1>1. \A g : Seconds(g)' \subseteq Seconds(g)
  BY DEF Seconds, Exists
<1>2. \A v \in Registrars : req'[v].pc = "second" =>
        req[v].pc = "second" /\ req'[v] = req[v] /\ Reg(req[v])' = Reg(req[v])
  BY OpenRow DEF Reg
<1>3. Alone'
  <2> SUFFICES ASSUME NEW w \in Registrars, req'[w].pc = "second",
                      Reg(req[w])' \notin crowded'
               PROVE  /\ req'[w].second = None => Seconds(Reg(req[w]))' = {}
                      /\ \A v \in Registrars \ {w} :
                          req'[v].pc = "second" => Reg(req[v])' # Reg(req[w])'
    BY DEF Alone
  <2>1. /\ req[w].pc = "second" /\ req'[w] = req[w] /\ Reg(req[w])' = Reg(req[w])
        /\ Reg(req[w]) \notin crowded
    BY <1>2
  <2>2. /\ req[w].second = None => Seconds(Reg(req[w])) = {}
        /\ \A v \in Registrars \ {w} : req[v].pc = "second" => Reg(req[v]) # Reg(req[w])
    BY <2>1 DEF Alone
  <2>3. req'[w].second = None => Seconds(Reg(req[w]))' = {}
    <3>1. Seconds(Reg(req[w]))' \subseteq Seconds(Reg(req[w]))
      BY <2>1 DEF Seconds, Exists
    <3> QED
      BY <2>1, <2>2, <3>1
  <2> QED
    BY <1>2, <2>1, <2>2, <2>3
<1>4. OneSecond'
  BY <1>1 DEF OneSecond
<1> QED
  BY <1>3, <1>4

LEMMA FindSecondCrowd ==
  ASSUME TradeInv, Alone, OneSecond, NEW w \in Registrars, FindSecond(w)
  PROVE  Alone' /\ OneSecond'
<1>p. PICK s, g, m : /\ s = req[w] /\ g = Reg(s)
                     /\ m = {v \in Registrars \ {w} :
                                req[v].pc = "second" /\ Reg(req[v]) = g}
  OBVIOUS
<1>1. /\ s.pc = "siblings" /\ UNCHANGED rows
      /\ crowded' = IF m # {} THEN crowded \cup {g} ELSE crowded
  BY <1>p DEF FindSecond
<1>2. s \in RequestType /\ req \in [Registrars -> RequestType]
  BY <1>p DEF TradeInv, TypeOK, RequestType
<1>3. PICK t : /\ req' = [req EXCEPT ![w] = t] /\ t.row = s.row
               /\ t.second = None => Seconds(g) = {}
  <2>1. CASE Seconds(g) = {}
    BY <1>p, <1>2, <2>1 DEF FindSecond, RequestType
  <2>2. CASE Seconds(g) # {}
    <3>1. PICK i \in Seconds(g) :
            req' = [req EXCEPT ![w] = [s EXCEPT !.pc = "second", !.second = i]]
      BY <1>p, <2>2 DEF FindSecond
    <3>2. i # None
      BY <3>1, NoRowAssumption DEF Seconds
    <3>3. PICK x : x = [s EXCEPT !.pc = "second", !.second = i]
      OBVIOUS
    <3>4. x.row = s.row /\ x.second = i
      BY <1>2, <3>3 DEF RequestType
    <3> QED
      BY <3>1, <3>2, <3>3, <3>4
  <2> QED
    BY <2>1, <2>2
<1>4. req'[w] = t /\ \A v \in Registrars \ {w} : req'[v] = req[v]
  BY <1>2, <1>3
<1>5. (\A h : Seconds(h)' = Seconds(h)) /\ Reg(req[w])' = g
      /\ \A v \in Registrars \ {w} : Reg(req[v])' = Reg(req[v])
  BY <1>p, <1>1, <1>3, <1>4 DEF Seconds, Exists, Reg
<1>6. Alone'
  <2> SUFFICES ASSUME NEW u \in Registrars, req'[u].pc = "second",
                      Reg(req[u])' \notin crowded'
               PROVE  /\ req'[u].second = None => Seconds(Reg(req[u]))' = {}
                      /\ \A v \in Registrars \ {u} :
                          req'[v].pc = "second" => Reg(req[v])' # Reg(req[u])'
    BY DEF Alone
  <2>1. CASE u = w
    <3>1. m = {}
      BY <1>1, <1>5, <2>1
    <3>2. req'[u].second = None => Seconds(Reg(req[u]))' = {}
      BY <1>1, <1>3, <1>4, <1>5, <2>1 DEF Seconds, Exists
    <3>3. ASSUME NEW v \in Registrars \ {u}, req'[v].pc = "second"
          PROVE  Reg(req[v])' # Reg(req[u])'
      <4>1. v \notin m
        BY <3>1
      <4> QED
        BY <1>p, <1>4, <1>5, <2>1, <3>3, <4>1
    <3> QED
      BY <3>2, <3>3
  <2>2. CASE u # w
    <3>1. /\ req[u].pc = "second" /\ req'[u] = req[u] /\ Reg(req[u])' = Reg(req[u])
          /\ Reg(req[u]) \notin crowded
      BY <1>1, <1>4, <1>5, <2>2
    <3>2. /\ req[u].second = None => Seconds(Reg(req[u])) = {}
          /\ \A v \in Registrars \ {u} : req[v].pc = "second" => Reg(req[v]) # Reg(req[u])
      BY <3>1 DEF Alone
    <3>3. Reg(req[u]) # g
      <4>1. SUFFICES ASSUME Reg(req[u]) = g PROVE FALSE
        OBVIOUS
      <4>2. u \in m
        BY <1>p, <2>2, <3>1, <4>1
      <4>3. g \in crowded'
        BY <1>1, <4>2
      <4> QED
        BY <3>1, <4>1, <4>3
    <3>4. req'[u].second = None => Seconds(Reg(req[u]))' = {}
      BY <1>1, <3>1, <3>2 DEF Seconds, Exists
    <3>5. ASSUME NEW v \in Registrars \ {u}, req'[v].pc = "second"
          PROVE  Reg(req[v])' # Reg(req[u])'
      BY <1>4, <1>5, <3>1, <3>2, <3>3, <3>5
    <3> QED
      BY <3>4, <3>5
  <2> QED
    BY <2>1, <2>2
<1>7. OneSecond'
  BY <1>1, <1>5 DEF OneSecond
<1> QED
  BY <1>6, <1>7

LEMMA SaveSecondCrowd ==
  ASSUME TradeInv, Alone, OneSecond, NEW w \in Registrars, SaveSecond(w)
  PROVE  Alone' /\ OneSecond'
<1>p. PICK s, g, i : /\ s = req[w] /\ g = Reg(s)
                     /\ i = IF s.second = None THEN <<s.no, 2>> ELSE s.second
  OBVIOUS
<1>1. /\ s.pc = "second" /\ UNCHANGED crowded /\ s \in RequestType /\ s.row \in Ids
      /\ Exists(s.row) /\ g \in Numbers /\ <<s.no, 2>> \in Ids /\ ~Exists(<<s.no, 2>>)
      /\ req \in [Registrars -> RequestType] /\ rows \in [Ids -> Row \cup {None}]
      /\ s.second # None => s.second \in Ids /\ Exists(s.second)
  <2>1. s.pc = "second" /\ UNCHANGED crowded
    BY <1>p DEF SaveSecond
  <2>2. /\ req \in [Registrars -> RequestType] /\ rows \in [Ids -> Row \cup {None}]
        /\ s \in RequestType
    BY <1>p DEF TradeInv, TypeOK, RequestType
  <2>3. s.second # None => s.second \in Ids /\ Exists(s.second)
    BY <1>p, <2>2 DEF TradeInv, RequestOK, RequestType
  <2>4. /\ s.row \in Ids /\ Exists(s.row) /\ g \in Numbers /\ <<s.no, 2>> \in Ids
        /\ ~Exists(<<s.no, 2>>)
    BY <1>p, <2>1, OpenRow
  <2> QED
    BY <2>1, <2>2, <2>3, <2>4
<1>2. PICK x : x \in {"done", "error"} /\ req' = [req EXCEPT ![w].pc = x]
  BY <1>p DEF SaveSecond
<1>3. req'[w].pc # "second" /\ \A v \in Registrars \ {w} : req'[v] = req[v]
  BY <1>1, <1>2 DEF RequestType
<1>4. CASE UNCHANGED rows
  BY <1>1, <1>3, <1>4, CrowdKept DEF Exists
<1>5. ASSUME s.second # None, NEW e, e \in Emails \cup {NoEmail},
             rows' = [rows EXCEPT ![i] = [@ EXCEPT !.email = e]]
      PROVE  Alone' /\ OneSecond'
  <2>1. i \in Ids /\ Exists(i) /\ rows[i] \in Row
    BY <1>p, <1>1, <1>5 DEF Exists
  <2>2. PICK r : r = [rows[i] EXCEPT !.email = e]
    OBVIOUS
  <2>3. r.reg = rows[i].reg /\ r.primary = rows[i].primary /\ r # None
    BY <1>5, <2>1, <2>2, NoRowAssumption DEF Row
  <2>4. rows'[i] = r /\ \A k \in Ids \ {i} : rows'[k] = rows[k]
    BY <1>1, <1>5, <2>1, <2>2
  <2> QED
    BY <1>1, <1>3, <2>1, <2>3, <2>4, CrowdKept DEF Exists
<1>6. ASSUME s.second = None, NEW e, e \in Emails \cup {NoEmail},
             rows' = [rows EXCEPT ![i] = NewRow(g, FALSE, e)]
      PROVE  Alone' /\ OneSecond'
  <2>1. PICK r : r = NewRow(g, FALSE, e)
    OBVIOUS
  <2>2. r.reg = g /\ r.primary = FALSE
    BY <2>1 DEF NewRow
  <2>3. /\ i \in Ids /\ ~Exists(i) /\ rows'[i] = r
        /\ \A k \in Ids \ {i} : rows'[k] = rows[k]
    BY <1>p, <1>1, <1>6, <2>1
  <2>4. /\ \A h : h # g => Seconds(h)' = Seconds(h)
        /\ Seconds(g)' \subseteq Seconds(g) \cup {i}
    BY <2>2, <2>3 DEF Seconds, Exists
  <2>5. \A v \in Registrars \ {w} : req[v].pc = "second" => Reg(req[v])' = Reg(req[v])
    <3> SUFFICES ASSUME NEW v \in Registrars \ {w}, req[v].pc = "second"
                 PROVE  Reg(req[v])' = Reg(req[v])
      OBVIOUS
    <3>1. req[v].row \in Ids /\ Exists(req[v].row) /\ req'[v] = req[v]
      BY <1>3, OpenRow
    <3>2. rows'[req[v].row] = rows[req[v].row]
      BY <2>3, <3>1
    <3> QED
      BY <3>1, <3>2 DEF Reg
  <2>6. \A v \in Registrars \ {w} :
            req[v].pc = "second" /\ Reg(req[v]) \notin crowded => Reg(req[v]) # g
    BY <1>p, <1>1 DEF Alone
  <2>7. g \notin crowded => Seconds(g) = {}
    BY <1>p, <1>1, <1>6 DEF Alone
  <2>8. OneSecond'
    <3> SUFFICES ASSUME NEW h \in Numbers \ crowded, NEW k \in Seconds(h)',
                        NEW l \in Seconds(h)'
                 PROVE  k = l
      BY <1>1 DEF OneSecond
    <3>1. CASE h = g
      BY <2>4, <2>7, <3>1
    <3>2. CASE h # g
      BY <2>4, <3>2 DEF OneSecond
    <3> QED
      BY <3>1, <3>2
  <2>9. Alone'
    <3> SUFFICES ASSUME NEW u \in Registrars, req'[u].pc = "second",
                        Reg(req[u])' \notin crowded'
                 PROVE  /\ req'[u].second = None => Seconds(Reg(req[u]))' = {}
                        /\ \A v \in Registrars \ {u} :
                            req'[v].pc = "second" => Reg(req[v])' # Reg(req[u])'
      BY DEF Alone
    <3>1. /\ u # w /\ req[u].pc = "second" /\ req'[u] = req[u]
          /\ Reg(req[u])' = Reg(req[u]) /\ Reg(req[u]) \notin crowded /\ Reg(req[u]) # g
      BY <1>1, <1>3, <2>5, <2>6
    <3>2. /\ req[u].second = None => Seconds(Reg(req[u])) = {}
          /\ \A v \in Registrars \ {u} : req[v].pc = "second" => Reg(req[v]) # Reg(req[u])
      BY <3>1 DEF Alone
    <3>3. Seconds(Reg(req[u]))' \subseteq Seconds(Reg(req[u]))
      BY <2>2, <2>3, <3>1 DEF Seconds, Exists
    <3>4. req'[u].second = None => Seconds(Reg(req[u]))' = {}
      BY <3>1, <3>2, <3>3
    <3>5. ASSUME NEW v \in Registrars \ {u}, req'[v].pc = "second"
          PROVE  Reg(req[v])' # Reg(req[u])'
      BY <1>3, <2>5, <3>1, <3>2, <3>5
    <3> QED
      BY <3>4, <3>5
  <2> QED
    BY <2>8, <2>9
<1>7. SecondEmail(s.pay) \in Emails \cup {NoEmail}
  <2>1. s.pay \in Payload /\ s.pay.second # None
    BY <1>p, <1>1 DEF TradeInv, RequestOK
  <2> QED
    BY <2>1 DEF SecondEmail, Payload
<1>8. CASE rows' = [rows EXCEPT ![i] = IF s.second = None
                                       THEN NewRow(g, FALSE, SecondEmail(s.pay))
                                       ELSE [@ EXCEPT !.email = SecondEmail(s.pay)]]
  BY <1>5, <1>6, <1>7, <1>8
<1> QED
  BY <1>p, <1>4, <1>8 DEF SaveSecond

LEMMA CrowdNext ==
  ASSUME TradeInv, Alone, OneSecond, [Next]_vars
  PROVE  Alone' /\ OneSecond'
<1>t. /\ req \in [Registrars -> RequestType] /\ job \in [Syncers -> JobType]
      /\ rows \in [Ids -> Row \cup {None}]
  BY DEF TradeInv, TypeOK, RequestType, JobType
<1>q. ASSUME UNCHANGED <<rows, crowded>>,
             \A v \in Registrars : req'[v].pc = "second" => req'[v] = req[v]
      PROVE  Alone' /\ OneSecond'
  BY <1>q, CrowdKept DEF Exists
<1>r. ASSUME NEW w \in Registrars, NEW t, req' = [req EXCEPT ![w] = t], t.pc # "second"
      PROVE  \A v \in Registrars : req'[v].pc = "second" => req'[v] = req[v]
  BY <1>t, <1>r
<1>1. ASSUME NEW w \in Registrars, NEW p \in Payloads, RegisterStart(w, p)
      PROVE  Alone' /\ OneSecond'
  BY <1>1, <1>q, <1>r DEF RegisterStart
<1>2. ASSUME NEW w \in Registrars, SavePrimary(w) PROVE Alone' /\ OneSecond'
  <2>p. PICK s, i, r : /\ s = req[w] /\ i = <<s.no, 1>>
                       /\ r = NewRow(s.no, TRUE, s.pay.email)
    OBVIOUS
  <2>1. /\ s \in RequestType /\ s.pc = "save" /\ UNCHANGED crowded
        /\ s.no \in Numbers /\ i \in Ids /\ ~Exists(i) /\ s.pay \in Payload
    BY <1>2, <2>p DEF SavePrimary, TradeInv, RequestOK, Ids
  <2>2. \A v \in Registrars : req'[v].pc = "second" => req'[v] = req[v]
    <3>1. CASE req' = [req EXCEPT ![w].pc = "error"]
      BY <1>t, <3>1 DEF RequestType
    <3>2. CASE req' = [req EXCEPT ![w] = AfterPrimary([s EXCEPT !.row = i])]
      <4>1. PICK x, t : x = [s EXCEPT !.row = i] /\ t = AfterPrimary(x)
        OBVIOUS
      <4>2. x \in RequestType
        BY <2>1, <4>1 DEF RequestType
      <4>3. t.pc # "second"
        BY <4>1, <4>2 DEF AfterPrimary, RequestType
      <4> QED
        BY <1>r, <3>2, <4>1, <4>3
    <3> QED
      BY <1>2, <2>p, <3>1, <3>2 DEF SavePrimary
  <2>3. CASE UNCHANGED rows
    BY <1>q, <2>1, <2>2, <2>3
  <2>4. CASE rows' = [rows EXCEPT ![i] = r]
    <3>1. r \in Row /\ r.primary = TRUE
      BY <2>1, <2>p DEF NewRow, Row, Payload
    <3>2. rows'[i] = r /\ \A k \in Ids \ {i} : rows'[k] = rows[k]
      BY <1>t, <2>1, <2>4
    <3> QED
      BY <2>1, <2>2, <3>1, <3>2, CrowdKept DEF Exists
  <2> QED
    BY <1>2, <2>p, <2>3, <2>4 DEF SavePrimary
<1>3. ASSUME NEW w \in Registrars, MergePrimary(w) PROVE Alone' /\ OneSecond'
  <2>1. PICK t : t = AfterPrimary(req[w])
    OBVIOUS
  <2>2. t.pc # "second"
    BY <1>t, <2>1 DEF AfterPrimary, RequestType
  <2> QED
    BY <1>3, <1>q, <1>r, <2>1, <2>2 DEF MergePrimary
<1>4. ASSUME NEW w \in Registrars, FindSecond(w) PROVE Alone' /\ OneSecond'
  BY <1>4, FindSecondCrowd
<1>5. ASSUME NEW w \in Registrars, SaveSecond(w) PROVE Alone' /\ OneSecond'
  BY <1>5, SaveSecondCrowd
<1>6. ASSUME NEW w \in Registrars, Respond(w) PROVE Alone' /\ OneSecond'
  <2>1. NoRequest.pc # "second"
    BY DEF NoRequest
  <2> QED
    BY <1>6, <1>q, <1>r, <2>1 DEF Respond
<1>7. ASSUME NEW i \in Ids, NEW a \in {"approved", "rejected"}, Review(i, a)
      PROVE  Alone' /\ OneSecond'
  <2>1. /\ Exists(i) /\ UNCHANGED <<req, crowded>>
        /\ rows' = [rows EXCEPT ![i] = [@ EXCEPT !.review = a]]
    BY <1>7 DEF Review
  <2>2. rows[i] \in Row
    BY <1>t, <2>1 DEF Exists
  <2>3. PICK r : r = [rows[i] EXCEPT !.review = a]
    OBVIOUS
  <2>4. r \in Row /\ r.reg = rows[i].reg /\ r.primary = rows[i].primary
    BY <2>2, <2>3 DEF Row
  <2>5. rows'[i] = r /\ \A k \in Ids \ {i} : rows'[k] = rows[k]
    BY <1>t, <2>1, <2>3
  <2> QED
    BY <2>1, <2>4, <2>5, NoRowAssumption, CrowdKept DEF Exists
<1>8. CASE SeedProgram
  BY <1>8, <1>q DEF SeedProgram
<1>9. ASSUME NEW w \in Syncers, SyncSweep(w) \/ SyncNext(w) \/ Push(w)
      PROVE  Alone' /\ OneSecond'
  BY <1>9, <1>q DEF SyncSweep, SyncNext, Push
<1>10. ASSUME NEW w \in Syncers, Record(w) PROVE Alone' /\ OneSecond'
  <2>1. PICK s : s = job[w]
    OBVIOUS
  <2>2. PICK i, c, k :
          /\ i = s.id /\ i \in Ids /\ Exists(i)
          /\ c \in {rows[i].crm, s.new.crm} /\ k \in {rows[i].contact, s.new.contact}
          /\ rows' = [rows EXCEPT ![i] = [@ EXCEPT !.crm = c, !.contact = k]]
          /\ rows[i].contact => k
          /\ c = "synced" => k
          /\ k /\ RequireApproval => i \in approved
    BY <1>10, <2>1, RecordWrites
  <2>3. rows[i] \in Row /\ s.new \in Row /\ UNCHANGED <<req, crowded>>
    BY <1>10, <1>t, <2>1, <2>2 DEF Record, TradeInv, JobOK, Exists
  <2>4. PICK r : r = [rows[i] EXCEPT !.crm = c, !.contact = k]
    OBVIOUS
  <2>5. r \in Row /\ r.reg = rows[i].reg /\ r.primary = rows[i].primary
    BY <2>2, <2>3, <2>4 DEF Row
  <2>6. rows'[i] = r /\ \A j \in Ids \ {i} : rows'[j] = rows[j]
    BY <1>t, <2>2, <2>4
  <2> QED
    BY <2>2, <2>3, <2>5, <2>6, NoRowAssumption, CrowdKept DEF Exists
<1>11. CASE UNCHANGED vars
  BY <1>11, <1>q DEF vars
<1> QED
  BY <1>1, <1>2, <1>3, <1>4, <1>5, <1>6, <1>7, <1>8, <1>9, <1>10, <1>11
     DEF Next, RegisterStep, SyncStep

\* Only requests that looked for the second participant at the same time give a
\* registration two of them (trade_capture: list_by_registration, then insert).
THEOREM OneSecondAtMost == Spec => []OneSecondUnlessCrowded
<1>1. Init => Alone /\ OneSecond
  BY DEF Init, Alone, OneSecond, Seconds, Exists, NoRequest
<1>2. OneSecond => OneSecondUnlessCrowded
  <2> SUFFICES ASSUME OneSecond, NEW g \in Numbers \ crowded
               PROVE  Cardinality(Seconds(g)) <= 1
    BY DEF OneSecondUnlessCrowded
  <2>1. CASE Seconds(g) = {}
    BY <2>1, FS_EmptySet
  <2>2. ASSUME NEW i \in Seconds(g) PROVE Cardinality(Seconds(g)) <= 1
    <3>1. Seconds(g) = {i}
      BY <2>2 DEF OneSecond
    <3>2. Cardinality({i}) = 1
      BY FS_Singleton
    <3> QED
      BY <3>1, <3>2
  <2> QED
    BY <2>1, <2>2
<1>3. TradeInv /\ (Alone /\ OneSecond) /\ [Next]_vars => (Alone /\ OneSecond)'
  BY CrowdNext
<1> QED
  BY <1>1, <1>2, <1>3, TradeInvariant, PTL DEF Spec
=============================================================================
