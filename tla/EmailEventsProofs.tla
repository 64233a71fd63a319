------------------------- MODULE EmailEventsProofs -------------------------
(***************************************************************************)
(* For any events, batches, number of concurrent requests, re-submits,     *)
(* deliveries, days and crashes: no event is counted twice, nothing is     *)
(* shown on the lead that is not recorded, and the rollup is exact unless  *)
(* sessions raced or were cut off, with the score as it was computed.      *)
(***************************************************************************)
EXTENDS EmailEvents, FiniteSetTheorems, TLAPS

Session == [pc: {"idle", "look", "record", "bump"}, queue: Seq(Events),
            snap: Lead \cup {None}, broken: BOOLEAN]

\* What is recorded and rolled up.
Done == events \ InRollup

\* A row that shows nothing but the events E, and counts none but those in D.
Shows(r, D, E) ==
    /\ r \in Lead
    /\ r.count <= Cardinality(D \cap Opens)
    /\ r.opened \in {0} \cup {e.at : e \in E \cap Opens}
    /\ r.clicked \subseteq MaterialsClicked(E)

\* The lead's row or a session's copy of it: nothing that is not recorded.
Behind(r) == Shows(r, Done, events)

\* A session between two events: what it holds is good in every state.
Between(s) ==
    /\ s \in Session
    /\ s.pc \in {"idle", "look"} /\ s.snap = None
    /\ s.pc = "look" => s.queue # <<>>

SessionOK(s) ==
    \/ Between(s)
    \/ /\ s \in Session
       /\ s.pc \in {"record", "bump"} /\ s.queue # <<>>
       /\ Behind(s.snap)
       /\ s.pc = "bump" => Head(s.queue) \in events

\* Two requests never roll up the same event: the unique index lets one in.
Apart ==
    \A g, h \in Handlers : g # h /\ ses[g].pc = "bump" /\ ses[h].pc = "bump"
        => Head(ses[g].queue) # Head(ses[h].queue)

FormRecord == [snap: Lead, form: Forms, keeps: BOOLEAN]

FormOK == form = NoForm \/ (form \in FormRecord /\ Behind(form.snap))

CountersOK ==
    /\ posts \in 0 .. MaxPosts /\ forms \in 0 .. MaxForms
    /\ packs \in 0 .. MaxPacks /\ crashes \in 0 .. MaxCrashes
    /\ now \in Days /\ counted \in BOOLEAN /\ raced \in BOOLEAN
    /\ taken \subseteq Events /\ sunk \subseteq Events /\ cut \subseteq Events

\* The inductive invariant.
EventInv ==
    /\ events \subseteq Events
    /\ lead # None => Behind(lead)
    /\ events # {} => lead # None
    /\ ses \in [Handlers -> Session]
    /\ \A h \in Handlers : SessionOK(ses[h])
    /\ Apart
    /\ FormOK
    /\ CountersOK

-----------------------------------------------------------------------------
(* The score                                                                *)

LEMMA MinOfTwo ==
  ASSUME NEW a \in Int, NEW b \in Int
  PROVE  Min({a, b}) = IF a <= b THEN a ELSE b
<1>1. PICK m \in {a, b} : m = IF a <= b THEN a ELSE b
  OBVIOUS
<1>2. \A y \in {a, b} : m <= y
  BY <1>1
<1>3. \A x \in {a, b} : (\A y \in {a, b} : x <= y) => x = m
  BY <1>1
<1> QED
  BY <1>1, <1>2, <1>3 DEF Min

LEMMA MaxOfTwo ==
  ASSUME NEW a \in Int, NEW b \in Int
  PROVE  Max({a, b}) = IF a >= b THEN a ELSE b
<1>1. PICK m \in {a, b} : m = IF a >= b THEN a ELSE b
  OBVIOUS
<1>2. \A y \in {a, b} : m >= y
  BY <1>1
<1>3. \A x \in {a, b} : (\A y \in {a, b} : x >= y) => x = m
  BY <1>1
<1> QED
  BY <1>1, <1>2, <1>3 DEF Max

\* The largest element, if there is one, is what Max returns.
LEMMA MaxIs ==
  ASSUME NEW S \in SUBSET Int, NEW m \in S, \A y \in S : m >= y
  PROVE  Max(S) = m
<1>1. \A x \in S : (\A y \in S : x >= y) => x = m
  OBVIOUS
<1> QED
  BY <1>1 DEF Max

LEMMA OpenPointsType ==
  ASSUME NEW n \in Nat
  PROVE  OpenPoints(n) \in 0 .. 40
<1>1. PICK S : S = {0} \cup {t[2] : t \in {u \in OpenTiers : n >= u[1]}}
  OBVIOUS
<1>2. 0 \in S /\ S \subseteq {0, 8, 14, 20, 26, 30, 34, 40}
  BY <1>1 DEF OpenTiers
<1>3. PICK m \in S : \A y \in S : m >= y
  BY <1>2
<1>4. Max(S) = m
  BY <1>2, <1>3, MaxIs
<1> QED
  BY <1>1, <1>2, <1>4 DEF OpenPoints

LEMMA RecencyPointsType ==
  ASSUME NEW o \in Nat, NEW d \in Nat
  PROVE  RecencyPoints(o, d) \in Nat
<1>1. PICK S : S = {0} \cup {t[2] : t \in {u \in RecencyTiers : d <= o + u[1]}}
  OBVIOUS
<1>2. 0 \in S /\ S \subseteq {0, 2, 5, 10, 15}
  BY <1>1 DEF RecencyTiers
<1>3. PICK m \in S : \A y \in S : m >= y
  BY <1>2
<1>4. Max(S) = m
  BY <1>2, <1>3, MaxIs
<1> QED
  BY <1>1, <1>2, <1>4 DEF RecencyPoints

LEMMA MaterialsFinite == IsFiniteSet(MaterialsClicked(Events))
<1>1. PICK C, T, f : /\ C = {e \in Events : e.type = "click"}
                     /\ T = {e.material : e \in C}
                     /\ f = [e \in C |-> e.material]
  OBVIOUS
<1>2. IsFiniteSet(C)
  BY <1>1, EventAssumptions, FS_Subset
<1>3. f \in Surjection(C, T)
  BY <1>1 DEF Surjection
<1>4. IsFiniteSet(T)
  BY <1>2, <1>3, FS_Surjection
<1>5. MaterialsClicked(Events) \in SUBSET T
  BY <1>1 DEF MaterialsClicked
<1> QED
  BY <1>4, <1>5, FS_Subset

LEMMA ScoreType ==
  ASSUME NEW r, r.count \in Nat, r.opened \in Nat, r.form \in Forms,
         r.clicked \subseteq MaterialsClicked(Events), NEW d \in Days
  PROVE  EngagementScore(r, d) \in 0 .. 100
<1>1. OpenPoints(r.count) \in Nat
  BY OpenPointsType
<1>2. Cardinality(r.clicked) \in Nat
  BY MaterialsFinite, FS_Subset, FS_CardinalityType
<1>3. ClickPoints(r.clicked) \in Nat
  <2>1. 12 * Cardinality(r.clicked) \in Nat
    BY <1>2
  <2> QED
    BY <2>1, MinOfTwo DEF ClickPoints
<1>4. RecencyPoints(r.opened, d) \in Nat /\ r.form \in Nat
  BY EventAssumptions, RecencyPointsType
<1>5. PackPoints(r.pack) \in Nat
  BY DEF PackPoints
<1>6. PICK x : /\ x = OpenPoints(r.count) + ClickPoints(r.clicked)
                      + RecencyPoints(r.opened, d) + r.form + PackPoints(r.pack)
               /\ x \in Nat
  BY <1>1, <1>3, <1>4, <1>5
<1>7. Min({100, x}) \in 0 .. 100
  <2>1. \A a, b \in Int : Min({a, b}) = IF a <= b THEN a ELSE b
    BY MinOfTwo
  <2>2. Min({100, x}) = IF 100 <= x THEN 100 ELSE x
    BY <1>6, <2>1
  <2> QED
    BY <1>6, <2>2
<1> QED
  BY <1>6, <1>7 DEF EngagementScore

-----------------------------------------------------------------------------
(* What a step does to the events.                                          *)

Grows ==
    /\ events \subseteq events' /\ events' \subseteq Events
    /\ Done \cap Opens \subseteq Done' \cap Opens

LEMMA OpensFinite ==
  ASSUME NEW E, E \subseteq Events
  PROVE  /\ IsFiniteSet(E \cap Opens) /\ Cardinality(E \cap Opens) \in Nat
         /\ IsFiniteSet(Opens) /\ Cardinality(Opens) \in Nat
         /\ Cardinality(E \cap Opens) <= Cardinality(Opens)
<1>1. IsFiniteSet(Events)
  BY EventAssumptions
<1>2. Opens \in SUBSET Events /\ E \cap Opens \in SUBSET Opens
  BY DEF Opens
<1>3. IsFiniteSet(Opens)
  BY <1>1, <1>2, FS_Subset
<1>4. IsFiniteSet(E \cap Opens) /\ Cardinality(E \cap Opens) <= Cardinality(Opens)
  BY <1>2, <1>3, FS_Subset
<1> QED
  BY <1>3, <1>4, FS_CardinalityType

LEMMA ClickedGrows ==
  ASSUME NEW E, NEW F, E \subseteq F
  PROVE  MaterialsClicked(E) \subseteq MaterialsClicked(F)
  BY DEF MaterialsClicked

LEMMA ClickedAdds ==
  ASSUME NEW E, NEW e
  PROVE  MaterialsClicked(E \cup {e}) = MaterialsClicked(E) \cup MaterialsClicked({e})
  BY DEF MaterialsClicked

LEMMA BehindKept ==
  ASSUME Grows, NEW r, Behind(r)
  PROVE  Behind(r)'
<1>1. r \in Lead /\ r.count \in Nat
  BY DEF Behind, Shows, Lead
<1>2. /\ Done \subseteq Events /\ Done' \subseteq Events
  BY DEF Done, Grows
<1>3. r.count <= Cardinality(Done' \cap Opens)
  <2>1. PICK D, F : D = Done \cap Opens /\ F = Done' \cap Opens
    OBVIOUS
  <2>2. IsFiniteSet(F) /\ Cardinality(F) \in Nat /\ Cardinality(D) \in Nat
    BY <1>2, <2>1, OpensFinite
  <2>3. Cardinality(D) <= Cardinality(F)
    BY <2>1, <2>2, FS_Subset DEF Grows
  <2> QED
    BY <1>1, <2>1, <2>2, <2>3 DEF Behind, Shows
<1>4. r.opened \in {0} \cup {e.at : e \in events' \cap Opens}
  BY DEF Behind, Shows, Grows
<1>5. r.clicked \subseteq MaterialsClicked(events')
  BY ClickedGrows DEF Behind, Shows, Grows
<1> QED
  BY <1>1, <1>3, <1>4, <1>5 DEF Behind, Shows

LEMMA SessionKept ==
  ASSUME Grows, NEW s, SessionOK(s)
  PROVE  SessionOK(s)'
<1>1. CASE Between(s)
  BY <1>1 DEF SessionOK, Between
<1>2. CASE ~Between(s)
  <2>1. Behind(s.snap)'
    BY <1>2, BehindKept DEF SessionOK
  <2> QED
    BY <1>2, <2>1 DEF SessionOK, Grows
<1> QED
  BY <1>1, <1>2

\* A step of one request.
LEMMA RequestInv ==
  ASSUME EventInv, Grows, NEW h \in Handlers, NEW t,
         ses' = [ses EXCEPT ![h] = t], SessionOK(t)',
         t.pc = "bump" => \A g \in Handlers \ {h} :
            ses[g].pc = "bump" => Head(ses[g].queue) # Head(t.queue),
         lead' # None => Behind(lead)', events' # {} => lead' # None,
         UNCHANGED form, CountersOK'
  PROVE  EventInv'
<1>1. t \in Session
  BY DEF SessionOK, Between
<1>2. ses \in [Handlers -> Session]
  BY DEF EventInv
<1>3. /\ ses' \in [Handlers -> Session] /\ ses'[h] = t
      /\ \A g \in Handlers \ {h} : ses'[g] = ses[g]
  BY <1>1, <1>2
<1>4. ASSUME NEW g \in Handlers PROVE SessionOK(ses[g])'
  <2>1. CASE g = h
    BY <1>3, <2>1
  <2>2. CASE g # h
    <3>1. \A s : SessionOK(s) => SessionOK(s)'
      BY SessionKept
    <3>2. SessionOK(ses[g]) /\ ses'[g] = ses[g]
      BY <1>3, <2>2 DEF EventInv
    <3> QED
      BY <3>1, <3>2
  <2> QED
    BY <2>1, <2>2
<1>5. Apart'
  BY <1>3 DEF EventInv, Apart
<1>6. FormOK'
  <2>1. \A r : Behind(r) => Behind(r)'
    BY BehindKept
  <2>2. CASE form = NoForm
    BY <2>2 DEF FormOK
  <2>3. CASE form # NoForm
    <3>1. form \in FormRecord /\ Behind(form.snap)
      BY <2>3 DEF EventInv, FormOK
    <3>2. Behind(form.snap)'
      BY <2>1, <3>1
    <3> QED
      BY <3>1, <3>2 DEF FormOK
  <2> QED
    BY <2>2, <2>3
<1>7. events' \subseteq Events
  BY DEF Grows
<1> QED
  BY <1>3, <1>4, <1>5, <1>6, <1>7 DEF EventInv

\* The requests that roll up an event, and which one it is.
LEMMA RollupIsRecorded ==
  ASSUME EventInv
  PROVE  InRollup \subseteq events
<1> SUFFICES ASSUME NEW h \in Handlers, ses[h].pc = "bump"
             PROVE  Head(ses[h].queue) \in events
  BY DEF InRollup
<1> QED
  BY DEF EventInv, SessionOK, Between

\* The request turns to its next event.
LEMMA ProceedBetween ==
  ASSUME NEW s \in Session, s.queue # <<>>
  PROVE  Between(Proceed(s))
<1>1. Between(Closed)
  BY DEF Closed, Between, Session
<1>2. Tail(s.queue) \in Seq(Events)
  BY DEF Session
<1>3. CASE Tail(s.queue) # <<>>
  <2>1. PICK t : t = [s EXCEPT !.pc = "look", !.queue = Tail(@), !.snap = None]
    OBVIOUS
  <2>2. t \in Session /\ t.pc = "look" /\ t.snap = None /\ t.queue = Tail(s.queue)
    BY <1>2, <2>1 DEF Session
  <2> QED
    BY <1>3, <2>1, <2>2 DEF Proceed, Between
<1> QED
  BY <1>1, <1>3 DEF Proceed

-----------------------------------------------------------------------------
(* The rows that sessions write.                                            *)

LEMMA MergeShows ==
  ASSUME NEW D, NEW E, NEW stored, NEW loaded, NEW set,
         Shows(stored, D, E), Shows(set, D, E)
  PROVE  Shows(Merge(stored, loaded, set), D, E)
<1>1. PICK r : r = Merge(stored, loaded, set)
  OBVIOUS
<1>2. /\ r = [count |-> r.count, opened |-> r.opened, clicked |-> r.clicked,
              form |-> r.form, pack |-> r.pack, score |-> r.score,
              computed |-> r.computed]
      /\ r.count \in {stored.count, set.count} /\ r.opened \in {stored.opened, set.opened}
      /\ r.clicked \in {stored.clicked, set.clicked}
      /\ r.form \in {stored.form, set.form} /\ r.pack \in {stored.pack, set.pack}
      /\ r.score \in {stored.score, set.score}
      /\ r.computed \in {stored.computed, set.computed}
  BY <1>1 DEF Merge
<1>3. stored \in Lead /\ set \in Lead
  BY DEF Shows
<1>4. r \in Lead
  BY <1>2, <1>3 DEF Lead
<1>5. r.count <= Cardinality(D \cap Opens)
  BY <1>2 DEF Shows
<1>6. r.opened \in {0} \cup {e.at : e \in E \cap Opens}
  BY <1>2 DEF Shows
<1>7. r.clicked \subseteq MaterialsClicked(E)
  BY <1>2 DEF Shows
<1> QED
  BY <1>1, <1>4, <1>5, <1>6, <1>7 DEF Shows

\* A copy of a row, but for the pack status, which a delivery may have set since.
IsCopy(c, r) == c \in Lead /\ [c EXCEPT !.pack = r.pack] = r

LEMMA CopyFields ==
  ASSUME NEW r \in Lead, NEW c
  PROVE  IsCopy(c, r) <=>
            /\ c \in Lead
            /\ c.count = r.count /\ c.opened = r.opened /\ c.clicked = r.clicked
            /\ c.form = r.form /\ c.score = r.score /\ c.computed = r.computed
<1>1. r = [count |-> r.count, opened |-> r.opened, clicked |-> r.clicked,
           form |-> r.form, pack |-> r.pack, score |-> r.score,
           computed |-> r.computed]
  BY DEF Lead
<1>2. ASSUME c \in Lead
      PROVE  [c EXCEPT !.pack = r.pack]
                = [count |-> c.count, opened |-> c.opened, clicked |-> c.clicked,
                   form |-> c.form, pack |-> r.pack, score |-> c.score,
                   computed |-> c.computed]
  BY <1>2 DEF Lead
<1>3. ASSUME IsCopy(c, r)
      PROVE  /\ c \in Lead
             /\ c.count = r.count /\ c.opened = r.opened /\ c.clicked = r.clicked
             /\ c.form = r.form /\ c.score = r.score /\ c.computed = r.computed
  BY <1>1, <1>2, <1>3 DEF IsCopy
<1>4. ASSUME c \in Lead,
             c.count = r.count, c.opened = r.opened, c.clicked = r.clicked,
             c.form = r.form, c.score = r.score, c.computed = r.computed
      PROVE  IsCopy(c, r)
  BY <1>1, <1>2, <1>4 DEF IsCopy
<1> QED
  BY <1>3, <1>4

\* A row with another pack status.
LEMMA OtherPack ==
  ASSUME NEW r \in Lead, NEW q \in BOOLEAN
  PROVE  /\ [r EXCEPT !.pack = q] \in Lead
         /\ [r EXCEPT !.pack = q].count = r.count
         /\ [r EXCEPT !.pack = q].opened = r.opened
         /\ [r EXCEPT !.pack = q].clicked = r.clicked
         /\ [r EXCEPT !.pack = q].form = r.form
         /\ [r EXCEPT !.pack = q].pack = q
         /\ [r EXCEPT !.pack = q].score = r.score
         /\ [r EXCEPT !.pack = q].computed = r.computed
  BY DEF Lead

\* A session that has loaded the row but for its pack status writes all of its
\* new values; the pack status only if it has changed that itself.
LEMMA MergeOfCopy ==
  ASSUME NEW r \in Lead, NEW c, IsCopy(c, r), NEW u \in Lead
  PROVE  \E q \in BOOLEAN : Merge(r, c, u) = [u EXCEPT !.pack = q]
<1>1. /\ c.count = r.count /\ c.opened = r.opened /\ c.clicked = r.clicked
      /\ c.form = r.form /\ c.score = r.score /\ c.computed = r.computed
  BY CopyFields
<1>2. PICK q : q = (IF u.pack # c.pack THEN u.pack ELSE r.pack) /\ q \in BOOLEAN
  BY DEF Lead
<1>3. Merge(r, c, u) = [count |-> u.count, opened |-> u.opened, clicked |-> u.clicked,
                        form |-> u.form, pack |-> q, score |-> u.score,
                        computed |-> u.computed]
  BY <1>1, <1>2 DEF Merge
<1>4. [u EXCEPT !.pack = q] = [count |-> u.count, opened |-> u.opened,
                               clicked |-> u.clicked, form |-> u.form, pack |-> q,
                               score |-> u.score, computed |-> u.computed]
  BY DEF Lead
<1> QED
  BY <1>2, <1>3, <1>4

LEMMA ScoredRow ==
  ASSUME NEW r \in Lead, NEW d \in Days
  PROVE  /\ Scored(r, d) \in Lead
         /\ Scored(r, d).count = r.count /\ Scored(r, d).opened = r.opened
         /\ Scored(r, d).clicked = r.clicked /\ Scored(r, d).form = r.form
         /\ Scored(r, d).pack = r.pack /\ Scored(r, d).computed = d
         /\ Scored(r, d).score = EngagementScore(Scored(r, d), d)
<1>1. EngagementScore(r, d) \in 0 .. 100
  BY ScoreType DEF Lead
<1>2. PICK t : t = [r EXCEPT !.score = EngagementScore(r, d), !.computed = d]
  OBVIOUS
<1>3. /\ t \in Lead
      /\ t.count = r.count /\ t.opened = r.opened /\ t.clicked = r.clicked
      /\ t.form = r.form /\ t.pack = r.pack /\ t.computed = d
      /\ t.score = EngagementScore(r, d)
  BY <1>1, <1>2 DEF Lead
<1>4. EngagementScore(t, d) = EngagementScore(r, d)
  BY <1>3 DEF EngagementScore
<1> QED
  BY <1>2, <1>3, <1>4 DEF Scored

\* One more open.
LEMMA OneMoreOpen ==
  ASSUME NEW D, D \subseteq Events, NEW e \in Events, e \notin D
  PROVE  /\ e.type = "open" =>
              Cardinality((D \cup {e}) \cap Opens) = Cardinality(D \cap Opens) + 1
         /\ e.type # "open" => (D \cup {e}) \cap Opens = D \cap Opens
<1>1. CASE e.type # "open"
  BY <1>1 DEF Opens
<1>2. CASE e.type = "open"
  <2>1. IsFiniteSet(D \cap Opens) /\ e \notin D \cap Opens
    BY OpensFinite
  <2>2. (D \cup {e}) \cap Opens = (D \cap Opens) \cup {e}
    BY <1>2 DEF Opens
  <2> QED
    BY <1>2, <2>1, <2>2, FS_AddElement
<1> QED
  BY <1>1, <1>2

\* What an event changes in a row.
LEMMA RollupFields ==
  ASSUME NEW r \in Lead, NEW e \in Events
  PROVE  /\ Rollup(r, e) = [count |-> Rollup(r, e).count, opened |-> Rollup(r, e).opened,
                            clicked |-> Rollup(r, e).clicked, form |-> r.form,
                            pack |-> r.pack, score |-> r.score, computed |-> r.computed]
         /\ Rollup(r, e).count = IF e.type = "open" THEN r.count + 1 ELSE r.count
         /\ Rollup(r, e).opened = IF e.type = "open" /\ e.at > r.opened
                                  THEN e.at ELSE r.opened
         /\ Rollup(r, e).clicked = r.clicked \cup MaterialsClicked({e})
         /\ Rollup(r, e).pack = r.pack
<1>1. PICK t : t = [r EXCEPT !.count = IF e.type = "open" THEN @ + 1 ELSE @,
                             !.opened = IF e.type = "open" THEN Max({@, e.at}) ELSE @,
                             !.clicked = @ \cup MaterialsClicked({e})]
  OBVIOUS
<1>2. r.opened \in Int /\ e.at \in Int
  BY EventAssumptions DEF Lead
<1>3. Max({r.opened, e.at}) = IF r.opened >= e.at THEN r.opened ELSE e.at
  BY <1>2, MaxOfTwo
<1>4. /\ t.count = IF e.type = "open" THEN r.count + 1 ELSE r.count
      /\ t.opened = IF e.type = "open" THEN Max({r.opened, e.at}) ELSE r.opened
      /\ t.clicked = r.clicked \cup MaterialsClicked({e})
      /\ t.pack = r.pack
      /\ t = [count |-> t.count, opened |-> t.opened, clicked |-> t.clicked,
              form |-> r.form, pack |-> r.pack, score |-> r.score,
              computed |-> r.computed]
  BY <1>1 DEF Lead
<1>5. t.opened = IF e.type = "open" /\ e.at > r.opened THEN e.at ELSE r.opened
  BY <1>2, <1>3, <1>4
<1> QED
  BY <1>1, <1>4, <1>5 DEF Rollup

\* The row a request writes shows the event it has recorded, and counts it.
LEMMA RollupShows ==
  ASSUME NEW D, NEW E, D \subseteq E, E \subseteq Events, NEW r, Shows(r, D, E),
         NEW e \in E, e \notin D, NEW d \in Days
  PROVE  /\ Rollup(r, e) \in Lead
         /\ Shows(Scored(Rollup(r, e), d), D \cup {e}, E)
<1>1. PICK t, C : t = Rollup(r, e) /\ C = Cardinality((D \cup {e}) \cap Opens)
  OBVIOUS
<1>2. r \in Lead /\ e \in Events
  BY DEF Shows
<1>3. /\ t = [count |-> t.count, opened |-> t.opened, clicked |-> t.clicked,
              form |-> r.form, pack |-> r.pack, score |-> r.score,
              computed |-> r.computed]
      /\ t.count = IF e.type = "open" THEN r.count + 1 ELSE r.count
      /\ t.opened = IF e.type = "open" /\ e.at > r.opened THEN e.at ELSE r.opened
      /\ t.clicked = r.clicked \cup MaterialsClicked({e})
  BY <1>1, <1>2, RollupFields
<1>4. t.count \in 0 .. Cardinality(Opens) /\ t.count <= C
  <2>1. PICK B, O : B = Cardinality(D \cap Opens) /\ O = Cardinality(Opens)
    OBVIOUS
  <2>2. B \in Nat /\ O \in Nat /\ C \in Nat /\ C <= O
    <3>1. D \subseteq Events /\ D \cup {e} \subseteq Events
      OBVIOUS
    <3> QED
      BY <3>1, <2>1, <1>1, OpensFinite
  <2>3. r.count \in Nat /\ r.count <= B
    BY <1>2, <2>1 DEF Lead, Shows
  <2>4. C = IF e.type = "open" THEN B + 1 ELSE B
    BY <1>1, <1>2, <2>1, OneMoreOpen
  <2>5. t.count \in Nat /\ t.count <= C
    BY <1>3, <2>2, <2>3, <2>4
  <2> QED
    BY <2>1, <2>2, <2>5
<1>5. t.opened \in Nat /\ t.opened \in {0} \cup {f.at : f \in E \cap Opens}
  <2>1. r.opened \in Nat /\ r.opened \in {0} \cup {f.at : f \in E \cap Opens}
    BY <1>2 DEF Lead, Shows
  <2>2. e.at \in Nat /\ (e.type = "open" => e \in E \cap Opens)
    BY <1>2, EventAssumptions DEF Opens
  <2> QED
    BY <1>3, <2>1, <2>2
<1>6. t.clicked \subseteq MaterialsClicked(E) /\ t.clicked \subseteq MaterialsClicked(Events)
  <2>1. MaterialsClicked({e}) \subseteq MaterialsClicked(E)
    BY ClickedGrows
  <2>2. MaterialsClicked(E) \subseteq MaterialsClicked(Events)
    BY ClickedGrows
  <2> QED
    BY <1>3, <2>1, <2>2 DEF Shows
<1>7. /\ r.form \in Forms /\ r.pack \in BOOLEAN
      /\ r.score \in 0 .. 100 /\ r.computed \in Days
  BY <1>2 DEF Lead
<1>8. t \in Lead
  <2>1. /\ t.count \in 0 .. Cardinality(Opens) /\ t.opened \in Nat
        /\ t.clicked \in SUBSET MaterialsClicked(Events)
    BY <1>4, <1>5, <1>6
  <2> QED
    BY <1>3, <1>7, <2>1 DEF Lead
<1> QED
  BY <1>1, <1>4, <1>5, <1>6, <1>8, ScoredRow DEF Shows

LEMMA ResubmitShows ==
  ASSUME NEW D, NEW E, NEW r, Shows(r, D, E), NEW f \in Forms, NEW k \in BOOLEAN,
         NEW d \in Days
  PROVE  Shows(Resubmitted(r, f, k, d), D, E)
<1>1. PICK t : t = [r EXCEPT !.form = f, !.pack = k]
  OBVIOUS
<1>2. r \in Lead
  BY DEF Shows
<1>3. /\ t \in Lead
      /\ t.count = r.count /\ t.opened = r.opened /\ t.clicked = r.clicked
  BY <1>1, <1>2 DEF Lead
<1>4. /\ Scored(t, d) \in Lead
      /\ Scored(t, d).count = r.count /\ Scored(t, d).opened = r.opened
      /\ Scored(t, d).clicked = r.clicked
  BY <1>3, ScoredRow
<1> QED
  BY <1>1, <1>4 DEF Shows, Resubmitted

-----------------------------------------------------------------------------
(* How the events that are being rolled up change.                          *)

\* The events that the other requests are rolling up.
RollupOfOthers(h) ==
    {Head(ses[g].queue) : g \in {k \in Handlers \ {h} : ses[k].pc = "bump"}}

LEMMA RollupStep ==
  ASSUME EventInv, NEW h \in Handlers, NEW t, ses' = [ses EXCEPT ![h] = t]
  PROVE  /\ ses[h].pc = "bump" => InRollup = RollupOfOthers(h) \cup {Head(ses[h].queue)}
         /\ ses[h].pc # "bump" => InRollup = RollupOfOthers(h)
         /\ t.pc = "bump" => InRollup' = RollupOfOthers(h) \cup {Head(t.queue)}
         /\ t.pc # "bump" => InRollup' = RollupOfOthers(h)
         /\ ses[h].pc = "bump" => Head(ses[h].queue) \notin RollupOfOthers(h)
<1>1. ses \in [Handlers -> Session] /\ Apart
  BY DEF EventInv
<1>2. ses'[h] = t /\ \A g \in Handlers \ {h} : ses'[g] = ses[g]
  BY <1>1
<1>3. /\ ses[h].pc = "bump" => InRollup = RollupOfOthers(h) \cup {Head(ses[h].queue)}
      /\ ses[h].pc # "bump" => InRollup = RollupOfOthers(h)
  BY DEF InRollup, RollupOfOthers
<1>4. /\ t.pc = "bump" => InRollup' = RollupOfOthers(h) \cup {Head(t.queue)}
      /\ t.pc # "bump" => InRollup' = RollupOfOthers(h)
  BY <1>2 DEF InRollup, RollupOfOthers
<1>5. ses[h].pc = "bump" => Head(ses[h].queue) \notin RollupOfOthers(h)
  BY <1>1 DEF Apart, RollupOfOthers
<1> QED
  BY <1>3, <1>4, <1>5

\* What each step adds to the events that are rolled up.
LEMMA DoneUnlessRolled ==
  ASSUME EventInv, NEW h \in Handlers, NEW t, ses' = [ses EXCEPT ![h] = t],
         ses[h].pc # "bump", t.pc # "bump", UNCHANGED events
  PROVE  Done' = Done /\ Grows
<1>1. InRollup' = InRollup
  BY RollupStep
<1> QED
  BY <1>1 DEF Done, Grows, EventInv

-----------------------------------------------------------------------------
(* The steps                                                                *)

\* A step that only turns a request to another event, or opens or closes it.
LEMMA TurnInv ==
  ASSUME EventInv, NEW h \in Handlers, NEW t, ses' = [ses EXCEPT ![h] = t],
         ses[h].pc # "bump", t.pc # "bump", SessionOK(t),
         UNCHANGED <<events, lead, form>>, CountersOK'
  PROVE  EventInv' /\ Done' = Done
<1>1. Done' = Done /\ Grows
  BY DoneUnlessRolled
<1>2. SessionOK(t)'
  BY <1>1, SessionKept
<1>3. lead' # None => Behind(lead)'
  BY <1>1 DEF EventInv, Behind
<1>4. events' # {} => lead' # None
  BY DEF EventInv
<1>5. UNCHANGED form
  OBVIOUS
<1>6. EventInv'
  BY <1>1, <1>2, <1>3, <1>4, <1>5, RequestInv
<1> QED
  BY <1>1, <1>6

LEMMA BetweenOK ==
  ASSUME NEW s, Between(s)
  PROVE  SessionOK(s) /\ s \in Session /\ s.pc # "bump" /\ s.snap = None
  BY DEF SessionOK, Between

LEMMA PostInv ==
  ASSUME EventInv, NEW h \in Handlers, NEW b \in Posts, Post(h, b)
  PROVE  EventInv' /\ Done' = Done
<1>1. PICK t : t = [Closed EXCEPT !.pc = "look", !.queue = b]
  OBVIOUS
<1>2. b \in Seq(Events) /\ b # <<>>
  BY EventAssumptions
<1>3. t.pc = "look" /\ t.queue = b /\ t.snap = None /\ t \in Session
  BY <1>1, <1>2 DEF Closed, Session
<1>4. SessionOK(t)
  BY <1>2, <1>3 DEF SessionOK, Between
<1>5. ses' = [ses EXCEPT ![h] = t] /\ ses[h].pc # "bump" /\ t.pc # "bump"
  BY <1>1, <1>3 DEF Post, Closed
<1>6. UNCHANGED <<events, lead, form>>
  BY DEF Post
<1>7. CountersOK'
  <2>1. Range(b) \subseteq Events
    BY <1>2 DEF Range
  <2>2. taken' \subseteq Events
    BY <2>1 DEF EventInv, CountersOK, Post
  <2> QED
    BY <2>2, EventAssumptions DEF EventInv, CountersOK, Post
<1> QED
  BY <1>4, <1>5, <1>6, <1>7, TurnInv

\* A request at work on an event.
LEMMA AtWork ==
  ASSUME EventInv, NEW h \in Handlers, ses[h].pc \in {"look", "record", "bump"}
  PROVE  /\ ses[h] \in Session /\ ses[h].queue # <<>>
         /\ Head(ses[h].queue) \in Events
         /\ ses[h].pc # "look" => Behind(ses[h].snap)
         /\ ses[h].pc = "bump" => Head(ses[h].queue) \in events
<1>1. SessionOK(ses[h])
  BY DEF EventInv
<1>2. /\ ses[h] \in Session /\ ses[h].queue # <<>>
      /\ ses[h].pc # "look" => Behind(ses[h].snap)
      /\ ses[h].pc = "bump" => Head(ses[h].queue) \in events
  BY <1>1 DEF SessionOK, Between
<1>3. Head(ses[h].queue) \in Events
  BY <1>2 DEF Session
<1> QED
  BY <1>2, <1>3

LEMMA LookInv ==
  ASSUME EventInv, NEW h \in Handlers, Look(h)
  PROVE  EventInv' /\ Done' = Done
<1>1. PICK s, e : s = ses[h] /\ e = Head(s.queue)
  OBVIOUS
<1>2. s.pc = "look" /\ s \in Session /\ s.queue # <<>> /\ e \in Events
  BY <1>1, AtWork DEF Look
<1>3. UNCHANGED <<events, lead, form>>
  BY DEF Look
<1>4. CountersOK'
  BY <1>1, <1>2 DEF Look, EventInv, CountersOK
<1>5. CASE ses' = [ses EXCEPT ![h] = Proceed(s)]
  <2>1. SessionOK(Proceed(s)) /\ Proceed(s).pc # "bump"
    BY <1>2, ProceedBetween, BetweenOK
  <2> QED
    BY <1>1, <1>2, <1>3, <1>4, <1>5, <2>1, TurnInv
<1>6. CASE lead # None /\ ses' = [ses EXCEPT ![h] = [s EXCEPT !.pc = "record", !.snap = lead]]
  <2>1. PICK t : t = [s EXCEPT !.pc = "record", !.snap = lead]
    OBVIOUS
  <2>2. Behind(lead) /\ lead \in Lead
    BY <1>6 DEF EventInv, Behind, Shows
  <2>3. t \in Session /\ t.pc = "record" /\ t.queue = s.queue /\ t.snap = lead
    BY <1>2, <2>1, <2>2 DEF Session
  <2>4. SessionOK(t)
    BY <1>2, <2>2, <2>3 DEF SessionOK
  <2> QED
    BY <1>1, <1>2, <1>3, <1>4, <1>6, <2>1, <2>3, <2>4, TurnInv
<1> QED
  BY <1>1, <1>5, <1>6 DEF Look, Skip

\* A refused insert leaves a session that is of no use any more.
LEMMA RefusedInv ==
  ASSUME EventInv, NEW h \in Handlers, Record(h), Refused(Head(ses[h].queue))
  PROVE  EventInv' /\ Done' = Done
<1>1. PICK s, t : s = ses[h] /\ t = [s EXCEPT !.broken = TRUE]
  OBVIOUS
<1>2. s.pc = "record" /\ s \in Session /\ s.queue # <<>>
  BY <1>1, AtWork DEF Record
<1>3. t \in Session /\ t.queue # <<>>
  BY <1>1, <1>2 DEF Session
<1>4. SessionOK(Proceed(t)) /\ Proceed(t).pc # "bump"
  BY <1>3, ProceedBetween, BetweenOK
<1>5. ses' = [ses EXCEPT ![h] = Proceed(t)] /\ UNCHANGED <<events, lead, form>>
  BY <1>1 DEF Record
<1>6. CountersOK'
  BY DEF Record, EventInv, CountersOK
<1> QED
  BY <1>1, <1>2, <1>4, <1>5, <1>6, TurnInv

\* An event that is recorded and changes the rollup is not rolled up yet.
LEMMA RecordBumpInv ==
  ASSUME EventInv, NEW h \in Handlers, Record(h), ~Refused(Head(ses[h].queue)),
         Rollup(ses[h].snap, Head(ses[h].queue)) # ses[h].snap
  PROVE  EventInv' /\ Done' = Done
<1>1. PICK s, e, t : s = ses[h] /\ e = Head(s.queue) /\ t = [s EXCEPT !.pc = "bump"]
  OBVIOUS
<1>2. /\ s.pc = "record" /\ s \in Session /\ s.queue # <<>> /\ e \in Events
      /\ Behind(s.snap)
  BY <1>1, AtWork DEF Record
<1>3. t \in Session /\ t.pc = "bump" /\ t.queue = s.queue /\ t.snap = s.snap
  BY <1>1, <1>2 DEF Session
<1>4. /\ ses' = [ses EXCEPT ![h] = t] /\ events' = events \cup {e}
      /\ e \notin events /\ lead # None /\ UNCHANGED <<lead, form>>
  BY <1>1 DEF Record, Refused
<1>5. InRollup' = InRollup \cup {e}
  <2>1. ses[h].pc # "bump" => InRollup = RollupOfOthers(h)
    BY <1>4, RollupStep
  <2>2. t.pc = "bump" => InRollup' = RollupOfOthers(h) \cup {Head(t.queue)}
    BY <1>4, RollupStep
  <2>3. ses[h].pc # "bump" /\ t.pc = "bump" /\ Head(t.queue) = e
    BY <1>1, <1>2, <1>3
  <2> QED
    BY <2>1, <2>2, <2>3
<1>6. Done' = Done
  BY <1>4, <1>5 DEF Done
<1>7. Grows
  BY <1>2, <1>4, <1>6 DEF Grows, EventInv
<1>8. Behind(s.snap)' /\ Behind(lead)'
  <2>1. \A r : Behind(r) => Behind(r)'
    BY <1>7, BehindKept
  <2>2. Behind(lead) /\ lead' = lead
    BY <1>4 DEF EventInv
  <2> QED
    BY <1>2, <2>1, <2>2
<1>9. SessionOK(t)'
  <2>1. e \in events' /\ Head(t.queue) = e
    BY <1>1, <1>3, <1>4
  <2> QED
    BY <1>2, <1>3, <1>8, <2>1 DEF SessionOK
<1>10. \A g \in Handlers \ {h} : ses[g].pc = "bump" => Head(ses[g].queue) # Head(t.queue)
  BY <1>1, <1>3, <1>4, AtWork
<1>11. CountersOK'
  BY DEF Record, EventInv, CountersOK
<1>12. EventInv'
  BY <1>4, <1>7, <1>8, <1>9, <1>10, <1>11, RequestInv
<1> QED
  BY <1>6, <1>12

\* An event that changes nothing in the row is no open, and is done with.
LEMMA RecordOnlyInv ==
  ASSUME EventInv, NEW h \in Handlers, Record(h), ~Refused(Head(ses[h].queue)),
         Rollup(ses[h].snap, Head(ses[h].queue)) = ses[h].snap
  PROVE  /\ EventInv'
         /\ Done' = Done \cup {Head(ses[h].queue)}
         /\ Head(ses[h].queue) \notin Opens
         /\ MaterialsClicked({Head(ses[h].queue)}) \subseteq ses[h].snap.clicked
<1>1. PICK s, e, t : s = ses[h] /\ e = Head(s.queue) /\ t = Proceed(s)
  OBVIOUS
<1>2. /\ s.pc = "record" /\ s \in Session /\ s.queue # <<>> /\ e \in Events
      /\ s.snap \in Lead
  BY <1>1, AtWork DEF Record, Behind, Shows
<1>3. Between(t)
  BY <1>1, <1>2, ProceedBetween
<1>4. /\ ses' = [ses EXCEPT ![h] = t] /\ events' = events \cup {e}
      /\ e \notin events /\ lead # None /\ UNCHANGED <<lead, form>>
  BY <1>1 DEF Record, Refused
<1>5. InRollup' = InRollup /\ e \notin InRollup
  <2>1. t.pc # "bump"
    BY <1>3, BetweenOK
  <2> QED
    BY <1>1, <1>2, <1>4, <2>1, RollupStep, RollupIsRecorded
<1>6. Done' = Done \cup {e}
  BY <1>4, <1>5 DEF Done
<1>7. Grows
  BY <1>2, <1>4, <1>6 DEF Grows, EventInv
<1>8. Behind(lead)'
  <2>1. \A r : Behind(r) => Behind(r)'
    BY <1>7, BehindKept
  <2> QED
    BY <1>4, <2>1 DEF EventInv
<1>9. SessionOK(t)' /\ t.pc # "bump"
  BY <1>3, <1>7, BetweenOK, SessionKept
<1>10. CountersOK'
  BY DEF Record, EventInv, CountersOK
<1>11. EventInv'
  BY <1>4, <1>7, <1>8, <1>9, <1>10, RequestInv
<1>12. e \notin Opens /\ MaterialsClicked({e}) \subseteq s.snap.clicked
  <2>1. s.snap.count \in Nat
    BY <1>2 DEF Lead
  <2>2. /\ s.snap.count = IF e.type = "open" THEN s.snap.count + 1 ELSE s.snap.count
        /\ s.snap.clicked = s.snap.clicked \cup MaterialsClicked({e})
    <3>1. PICK u : u = Rollup(s.snap, e) /\ u = s.snap
      BY <1>1
    <3>2. /\ u.count = IF e.type = "open" THEN s.snap.count + 1 ELSE s.snap.count
          /\ u.clicked = s.snap.clicked \cup MaterialsClicked({e})
      BY <1>2, <3>1, RollupFields
    <3> QED
      BY <3>1, <3>2
  <2>3. e.type # "open"
    BY <2>1, <2>2
  <2> QED
    BY <2>2, <2>3 DEF Opens
<1> QED
  BY <1>1, <1>6, <1>11, <1>12

\* The rollup is written: the event is done with.
LEMMA BumpInv ==
  ASSUME EventInv, NEW h \in Handlers, Bump(h)
  PROVE  /\ EventInv'
         /\ Done' = Done \cup {Head(ses[h].queue)}
         /\ Head(ses[h].queue) \in events /\ Head(ses[h].queue) \notin Done
         /\ Rollup(ses[h].snap, Head(ses[h].queue)) \in Lead
<1>1. PICK s, e, t, u : /\ s = ses[h] /\ e = Head(s.queue) /\ t = Proceed(s)
                        /\ u = Scored(Rollup(s.snap, e), now)
  OBVIOUS
<1>2. /\ s.pc = "bump" /\ s \in Session /\ s.queue # <<>> /\ e \in Events
      /\ Behind(s.snap) /\ e \in events
  BY <1>1, AtWork DEF Bump
<1>3. Between(t)
  BY <1>1, <1>2, ProceedBetween
<1>4. /\ ses' = [ses EXCEPT ![h] = t] /\ UNCHANGED <<events, form>>
      /\ lead' = Merge(lead, s.snap, u)
  BY <1>1 DEF Bump
<1>5. InRollup' = InRollup \ {e} /\ e \in InRollup
  <2>1. t.pc # "bump"
    BY <1>3, BetweenOK
  <2> QED
    BY <1>1, <1>2, <1>4, <2>1, RollupStep
<1>6. Done' = Done \cup {e} /\ e \notin Done
  BY <1>2, <1>4, <1>5 DEF Done
<1>7. Grows
  BY <1>4, <1>6 DEF Grows, EventInv
<1>8. Rollup(s.snap, e) \in Lead /\ Behind(u)'
  <2>1. /\ Rollup(s.snap, e) \in Lead
        /\ Shows(Scored(Rollup(s.snap, e), now), Done \cup {e}, events)
    <3>1. Done \subseteq events /\ events \subseteq Events /\ Shows(s.snap, Done, events)
      BY <1>2 DEF Done, EventInv, Behind
    <3>2. now \in Days
      BY DEF EventInv, CountersOK
    <3> QED
      BY <1>2, <1>6, <3>1, <3>2, RollupShows
  <2> QED
    BY <1>1, <1>4, <1>6, <2>1 DEF Behind
<1>9. Behind(lead)'
  <2>1. Behind(lead)
    BY <1>2 DEF EventInv
  <2>2. \A r : Behind(r) => Behind(r)'
    BY <1>7, BehindKept
  <2>3. Shows(lead, Done', events') /\ Shows(u, Done', events')
    BY <1>8, <2>1, <2>2 DEF Behind
  <2>4. Shows(lead', Done', events')
    BY <1>4, <2>3, MergeShows
  <2> QED
    BY <2>4 DEF Behind
<1>10. SessionOK(t)' /\ t.pc # "bump"
  BY <1>3, <1>7, BetweenOK, SessionKept
<1>11. lead' # None
  BY <1>9, NoLeadAssumption DEF Behind, Shows
<1>12. CountersOK'
  <2>1. counted' \in BOOLEAN
    BY <1>1, <1>2 DEF Bump, Behind, Shows, Lead
  <2> QED
    BY <2>1 DEF Bump, EventInv, CountersOK
<1>13. UNCHANGED form
  BY <1>4
<1>14. EventInv'
  BY <1>4, <1>7, <1>9, <1>10, <1>11, <1>12, <1>13, RequestInv
<1> QED
  BY <1>1, <1>2, <1>6, <1>8, <1>14

\* Steps that leave the events and the requests alone.
LEMMA FormStepInv ==
  ASSUME EventInv, UNCHANGED <<events, ses>>, lead' # None => Behind(lead'),
         events # {} => lead' # None,
         form' = NoForm \/ (form' \in FormRecord /\ Behind(form'.snap)),
         CountersOK'
  PROVE  EventInv' /\ Done' = Done
<1>1. Done' = Done
  BY DEF Done, InRollup
<1>2. \A r : Behind(r) => Behind(r)'
  BY <1>1 DEF Behind
<1>3. \A s : SessionOK(s) => SessionOK(s)'
  BY <1>2 DEF SessionOK, Between
<1>4. \A h \in Handlers : SessionOK(ses[h])'
  BY <1>3 DEF EventInv
<1>5. lead' # None => Behind(lead)'
  BY <1>1 DEF Behind
<1>6. FormOK'
  BY <1>1 DEF FormOK, Behind
<1>7. Apart'
  BY DEF EventInv, Apart
<1> QED
  BY <1>1, <1>4, <1>5, <1>6, <1>7 DEF EventInv

LEMMA ResubmitReadInv ==
  ASSUME EventInv, NEW f \in Forms, NEW k \in BOOLEAN, ResubmitRead(f, k)
  PROVE  EventInv' /\ Done' = Done
<1>1. /\ UNCHANGED <<events, ses, lead>> /\ lead # None
      /\ form' = [snap |-> lead, form |-> f, keeps |-> k]
  BY DEF ResubmitRead
<1>2. Behind(lead) /\ lead \in Lead
  BY <1>1 DEF EventInv, Behind, Shows
<1>3. form' \in FormRecord /\ Behind(form'.snap)
  BY <1>1, <1>2 DEF FormRecord
<1>4. CountersOK'
  BY EventAssumptions DEF ResubmitRead, EventInv, CountersOK
<1> QED
  BY <1>1, <1>2, <1>3, <1>4, FormStepInv

LEMMA ResubmitWriteInv ==
  ASSUME EventInv, ResubmitWrite
  PROVE  EventInv' /\ Done' = Done
<1>1. UNCHANGED <<events, ses>> /\ form' = NoForm
  BY DEF ResubmitWrite
<1>2. form \in FormRecord /\ Behind(form.snap)
  BY DEF ResubmitWrite, EventInv, FormOK
<1>3. CASE lead = None
  <2>1. lead' = None /\ events = {}
    BY <1>3 DEF ResubmitWrite, EventInv
  <2>2. CountersOK'
    BY <1>3 DEF ResubmitWrite, EventInv, CountersOK
  <2> QED
    BY <1>1, <2>1, <2>2, FormStepInv
<1>4. CASE lead # None
  <2>1. PICK u : u = Resubmitted(form.snap, form.form, form.keeps, now)
    OBVIOUS
  <2>2. Shows(u, Done, events)
    <3>1. now \in Days /\ form.form \in Forms /\ form.keeps \in BOOLEAN
      BY <1>2 DEF FormRecord, EventInv, CountersOK
    <3> QED
      BY <1>2, <2>1, <3>1, ResubmitShows DEF Behind
  <2>3. Shows(lead, Done, events)
    BY <1>4 DEF EventInv, Behind
  <2>4. lead' = Merge(lead, form.snap, u)
    BY <1>4, <2>1 DEF ResubmitWrite
  <2>5. Behind(lead')
    BY <2>2, <2>3, <2>4, MergeShows DEF Behind
  <2>6. lead' # None
    BY <2>5, NoLeadAssumption DEF Behind, Shows
  <2>7. CountersOK'
    <3>1. counted' \in BOOLEAN
      BY <1>4, <2>1, <2>2 DEF ResubmitWrite, Shows, Lead
    <3> QED
      BY <3>1 DEF ResubmitWrite, EventInv, CountersOK
  <2> QED
    BY <1>1, <2>5, <2>6, <2>7, FormStepInv
<1> QED
  BY <1>3, <1>4

LEMMA DeliverInv ==
  ASSUME EventInv, NEW sent \in BOOLEAN, DeliverPack(sent)
  PROVE  EventInv' /\ Done' = Done
<1>1. /\ UNCHANGED <<events, ses, form>> /\ lead # None
      /\ lead' = [lead EXCEPT !.pack = sent]
  BY DEF DeliverPack
<1>2. lead \in Lead /\ Shows(lead, Done, events)
  BY <1>1 DEF EventInv, Behind, Shows
<1>3. Behind(lead')
  BY <1>1, <1>2, OtherPack DEF Behind, Shows
<1>4. lead' # None
  BY <1>3, NoLeadAssumption DEF Behind, Shows
<1>5. CountersOK'
  BY EventAssumptions DEF DeliverPack, EventInv, CountersOK
<1>6. form' = NoForm \/ (form' \in FormRecord /\ Behind(form'.snap))
  BY <1>1 DEF EventInv, FormOK
<1> QED
  BY <1>1, <1>3, <1>4, <1>5, <1>6, FormStepInv

LEMMA LaterInv ==
  ASSUME EventInv, NEW d \in Days, Later(d)
  PROVE  EventInv' /\ Done' = Done
<1>1. UNCHANGED <<events, ses, form, lead>>
  BY DEF Later
<1>2. CountersOK'
  BY DEF Later, EventInv, CountersOK
<1>3. form' = NoForm \/ (form' \in FormRecord /\ Behind(form'.snap))
  BY <1>1 DEF EventInv, FormOK
<1>4. (lead' # None => Behind(lead')) /\ (events # {} => lead' # None)
  BY <1>1 DEF EventInv
<1> QED
  BY <1>1, <1>2, <1>3, <1>4, FormStepInv

LEMMA DeleteInv ==
  ASSUME EventInv, DeleteLead
  PROVE  EventInv'
<1>1. UNCHANGED <<events, ses, form>> /\ lead' = None /\ events = {}
  BY DEF DeleteLead
<1>2. CountersOK'
  BY DEF DeleteLead, EventInv, CountersOK
<1>3. form' = NoForm \/ (form' \in FormRecord /\ Behind(form'.snap))
  BY <1>1 DEF EventInv, FormOK
<1> QED
  BY <1>1, <1>2, <1>3, FormStepInv

LEMMA UnchangedInv ==
  ASSUME EventInv, UNCHANGED vars
  PROVE  EventInv' /\ Done' = Done
<1>1. UNCHANGED <<events, ses, form, lead>>
  BY DEF vars
<1>2. CountersOK'
  BY DEF vars, EventInv, CountersOK
<1>3. form' = NoForm \/ (form' \in FormRecord /\ Behind(form'.snap))
  BY <1>1 DEF EventInv, FormOK
<1>4. (lead' # None => Behind(lead')) /\ (events # {} => lead' # None)
  BY <1>1 DEF EventInv
<1> QED
  BY <1>1, <1>2, <1>3, <1>4, FormStepInv

\* A crash leaves the events it has cut off recorded, and never rolled up.
LEMMA CrashInv ==
  ASSUME EventInv, Crash
  PROVE  /\ EventInv'
         /\ Done' = events
         /\ InRollup # {} => cut' # {}
<1>1. /\ ses' = [h \in Handlers |-> Closed] /\ form' = NoForm
      /\ UNCHANGED <<events, lead>>
  BY DEF Crash
<1>2. Between(Closed) /\ Closed.pc # "bump" /\ Closed \in Session
  BY DEF Closed, Between, Session
<1>3. InRollup' = {} /\ Done' = events
  BY <1>1, <1>2 DEF InRollup, Done
<1>4. Grows
  BY <1>1, <1>3 DEF Grows, Done, EventInv
<1>5. \A h \in Handlers : SessionOK(ses[h])'
  BY <1>1, <1>2 DEF SessionOK, Between
<1>6. lead' # None => Behind(lead)'
  <2>1. \A r : Behind(r) => Behind(r)'
    BY <1>4, BehindKept
  <2> QED
    BY <1>1, <2>1 DEF EventInv
<1>7. \A h \in Handlers : Queued(h) \subseteq Events
  BY DEF EventInv, Session, Queued, Range
<1>8. CountersOK'
  BY <1>7, EventAssumptions DEF Crash, EventInv, CountersOK
<1>9. InRollup # {} => cut' # {}
  <2>1. SUFFICES ASSUME NEW h \in Handlers, ses[h].pc = "bump"
                 PROVE  Head(ses[h].queue) \in Queued(h)
    BY DEF InRollup, Crash
  <2>2. ses[h].queue # <<>> /\ ses[h].queue \in Seq(Events)
    BY <2>1, AtWork DEF Session
  <2> QED
    BY <2>2 DEF Queued, Range
<1>10. ses' \in [Handlers -> Session] /\ Apart' /\ FormOK'
  BY <1>1, <1>2 DEF Apart, FormOK
<1>11. EventInv'
  BY <1>1, <1>5, <1>6, <1>8, <1>10 DEF EventInv
<1> QED
  BY <1>3, <1>9, <1>11

LEMMA FirstRow ==
  ASSUME Init
  PROVE  /\ lead \in Lead
         /\ lead.count = 0 /\ lead.opened = 0 /\ lead.clicked = {}
         /\ lead.pack = FALSE
         /\ lead.score = EngagementScore(lead, lead.computed)
<1>1. PICK f \in Forms :
        lead = Scored([count |-> 0, opened |-> 0, clicked |-> {}, form |-> f,
                       pack |-> FALSE, score |-> 0, computed |-> now], now)
  BY DEF Init
<1>2. PICK r : r = [count |-> 0, opened |-> 0, clicked |-> {}, form |-> f,
                    pack |-> FALSE, score |-> 0, computed |-> now]
  OBVIOUS
<1>3. r \in Lead /\ now \in Days
  <2>1. Cardinality(Opens) \in Nat
    BY OpensFinite, EventAssumptions
  <2>2. 0 \in 0 .. Cardinality(Opens) /\ 0 \in 0 .. 100
    BY <2>1
  <2> QED
    BY <1>2, <2>2 DEF Lead, Init
<1>4. r.count = 0 /\ r.opened = 0 /\ r.clicked = {} /\ r.pack = FALSE
  BY <1>2
<1>5. lead = Scored(r, now)
  BY <1>1, <1>2
<1> QED
  BY <1>3, <1>4, <1>5, ScoredRow

LEMMA InitInv ==
  ASSUME Init
  PROVE  EventInv /\ Done = {}
<1>1. /\ events = {} /\ ses = [h \in Handlers |-> Closed] /\ form = NoForm
  BY DEF Init
<1>2. Between(Closed) /\ Closed.pc # "bump" /\ Closed \in Session
  BY DEF Closed, Between, Session
<1>3. InRollup = {} /\ Done = {}
  BY <1>1, <1>2 DEF InRollup, Done
<1>4. Behind(lead)
  <2>1. Cardinality(Done \cap Opens) \in Nat
    BY <1>3, OpensFinite
  <2>2. 0 <= Cardinality(Done \cap Opens)
    BY <2>1
  <2> QED
    BY <2>2, FirstRow DEF Behind, Shows
<1>5. \A h \in Handlers : SessionOK(ses[h])
  BY <1>1, <1>2 DEF SessionOK
<1>6. CountersOK
  <2>1. /\ 0 \in 0 .. MaxPosts /\ 0 \in 0 .. MaxForms
        /\ 0 \in 0 .. MaxPacks /\ 0 \in 0 .. MaxCrashes
    BY EventAssumptions
  <2> QED
    BY <2>1 DEF Init, CountersOK
<1>7. ses \in [Handlers -> Session] /\ Apart /\ FormOK
  BY <1>1, <1>2 DEF Apart, FormOK
<1> QED
  BY <1>1, <1>3, <1>4, <1>5, <1>6, <1>7 DEF EventInv

LEMMA NextInv == EventInv /\ [Next]_vars => EventInv'
<1> SUFFICES ASSUME EventInv, [Next]_vars
             PROVE  EventInv'
  OBVIOUS
<1>1. CASE \E h \in Handlers, b \in Posts : Post(h, b)
  BY <1>1, PostInv
<1>2. ASSUME NEW h \in Handlers, Look(h) PROVE EventInv'
  BY <1>2, LookInv
<1>3. ASSUME NEW h \in Handlers, Record(h) PROVE EventInv'
  BY <1>3, RefusedInv, RecordBumpInv, RecordOnlyInv
<1>4. ASSUME NEW h \in Handlers, Bump(h) PROVE EventInv'
  BY <1>4, BumpInv
<1>5. CASE \E f \in Forms, k \in BOOLEAN : ResubmitRead(f, k)
  BY <1>5, ResubmitReadInv
<1>6. CASE ResubmitWrite
  BY <1>6, ResubmitWriteInv
<1>7. CASE \E sent \in BOOLEAN : DeliverPack(sent)
  BY <1>7, DeliverInv
<1>8. CASE \E d \in Days : Later(d)
  BY <1>8, LaterInv
<1>9. CASE DeleteLead
  BY <1>9, DeleteInv
<1>10. CASE Crash
  BY <1>10, CrashInv
<1>11. CASE UNCHANGED vars
  BY <1>11, UnchangedInv
<1> QED
  BY <1>1, <1>2, <1>3, <1>4, <1>5, <1>6, <1>7, <1>8, <1>9, <1>10, <1>11
     DEF Next, Handle

LEMMA InvHolds == Spec => []EventInv
  BY InitInv, NextInv, PTL DEF Spec

LEMMA InvIsTyped == EventInv => TypeOK
<1> SUFFICES ASSUME EventInv
             PROVE  TypeOK
  OBVIOUS
<1>1. lead \in Lead \cup {None}
  BY DEF EventInv, Behind, Shows
<1>2. ASSUME NEW h \in Handlers
      PROVE  /\ ses[h].pc \in {"idle", "look", "record", "bump"}
             /\ ses[h].queue \in Seq(Events)
             /\ ses[h].snap \in Lead \cup {None}
             /\ ses[h].broken \in BOOLEAN
  BY DEF EventInv, Session
<1>3. /\ form.snap \in Lead \cup {None} /\ form.form \in Forms \cup {None}
      /\ form.keeps \in BOOLEAN
  <2>1. CASE form = NoForm
    BY <2>1 DEF NoForm
  <2>2. CASE form \in FormRecord
    BY <2>2 DEF FormRecord
  <2> QED
    BY <2>1, <2>2 DEF EventInv, FormOK
<1> QED
  BY <1>1, <1>2, <1>3 DEF TypeOK, EventInv, CountersOK

\* Every request, whatever batch it was sent and whatever the others do, keeps
\* a session of its type, and the row never leaves the ranges of its columns:
\* the open count never exceeds the opens there are, nor the score 100.
THEOREM TypeCorrect == Spec => []TypeOK
  BY InvHolds, InvIsTyped, PTL

\* No interleaving of duplicate posts, re-submits, crashes and a delete makes
\* the webhook count an event twice, or show an open or a click on the lead
\* that is not recorded: _bump_lead_rollup adds to a stale copy, never to more.
THEOREM NeverOvercounted == Spec => []NeverOvercounts
<1>1. EventInv => NeverOvercounts
  BY DEF EventInv, Behind, Shows, Done, NeverOvercounts
<1> QED
  BY <1>1, InvHolds, PTL

-----------------------------------------------------------------------------
(* The rollup is exact as long as nobody has raced.                         *)

\* A row that is what the events D say, with the score it had on the day it was
\* computed, for the pack status k.
ExactFor(r, D, k) ==
    /\ r.count = Cardinality(D \cap Opens)
    /\ r.opened \in {0} \cup {e.at : e \in D \cap Opens}
    /\ \A e \in D \cap Opens : e.at <= r.opened
    /\ r.clicked = MaterialsClicked(D)
    /\ r.score = EngagementScore([r EXCEPT !.pack = k], r.computed)

Undisturbed == lead # None /\ ~raced /\ cut = {}

\* A session holds no row, or a copy of this one.
Holds(c, r) == c = None \/ IsCopy(c, r)

\* While no write is lost, every row that a session holds is a copy of the lead's.
ExactInv ==
    Undisturbed =>
        /\ ExactFor(lead, Done, counted)
        /\ \A h \in Handlers : Holds(ses[h].snap, lead)
        /\ Holds(form.snap, lead)

\* The pack status of the row is no matter.
LEMMA PackAside ==
  ASSUME NEW D, NEW k \in BOOLEAN, NEW r \in Lead, NEW c \in Lead, IsCopy(c, r),
         ExactFor(r, D, k)
  PROVE  ExactFor(c, D, k)
<1>1. /\ c.count = r.count /\ c.opened = r.opened /\ c.clicked = r.clicked
      /\ c.form = r.form /\ c.score = r.score /\ c.computed = r.computed
  BY CopyFields
<1>2. PICK x, y : x = [c EXCEPT !.pack = k] /\ y = [r EXCEPT !.pack = k]
  OBVIOUS
<1>3. /\ x.count = y.count /\ x.opened = y.opened /\ x.clicked = y.clicked
      /\ x.form = y.form /\ x.pack = y.pack
  BY <1>1, <1>2, OtherPack
<1>4. EngagementScore(x, c.computed) = EngagementScore(y, r.computed)
  BY <1>1, <1>3 DEF EngagementScore
<1> QED
  BY <1>1, <1>2, <1>4 DEF ExactFor

LEMMA CopiesOfSame ==
  ASSUME NEW r \in Lead, NEW q \in BOOLEAN
  PROVE  /\ IsCopy(r, r)
         /\ IsCopy([r EXCEPT !.pack = q], r) /\ IsCopy(r, [r EXCEPT !.pack = q])
<1>1. PICK t : t = [r EXCEPT !.pack = q]
  OBVIOUS
<1>2. /\ t \in Lead
      /\ t.count = r.count /\ t.opened = r.opened /\ t.clicked = r.clicked
      /\ t.form = r.form /\ t.score = r.score /\ t.computed = r.computed
  BY <1>1, OtherPack
<1>3. IsCopy(r, r)
  BY CopyFields
<1>4. IsCopy(t, r) /\ IsCopy(r, t)
  BY <1>2, CopyFields
<1> QED
  BY <1>1, <1>3, <1>4

\* What a session stores that has changed its copy to u.
LEMMA StoredExact ==
  ASSUME NEW D, NEW r \in Lead, NEW c, IsCopy(c, r), NEW u \in Lead,
         ExactFor(u, D, u.pack)
  PROVE  ExactFor(Merge(r, c, u), D, u.pack) /\ Merge(r, c, u) \in Lead
<1>1. PICK q \in BOOLEAN : Merge(r, c, u) = [u EXCEPT !.pack = q]
  BY MergeOfCopy
<1>2. [u EXCEPT !.pack = q] \in Lead /\ IsCopy([u EXCEPT !.pack = q], u)
  BY OtherPack, CopiesOfSame
<1>3. u.pack \in BOOLEAN
  BY DEF Lead
<1>4. ExactFor([u EXCEPT !.pack = q], D, u.pack)
  BY <1>2, <1>3, PackAside
<1> QED
  BY <1>1, <1>2, <1>4

\* A row whose score counts the pack status it shows.
LEMMA ScoreOfOwnPack ==
  ASSUME NEW u \in Lead
  PROVE  [u EXCEPT !.pack = u.pack] = u
  BY DEF Lead

LEMMA ExactAfterBump ==
  ASSUME NEW D, D \subseteq Events, NEW r \in Lead, NEW k, ExactFor(r, D, k),
         NEW e \in Events, e \notin D, Rollup(r, e) \in Lead, NEW d \in Days
  PROVE  /\ Scored(Rollup(r, e), d) \in Lead
         /\ Scored(Rollup(r, e), d).pack = r.pack
         /\ ExactFor(Scored(Rollup(r, e), d), D \cup {e}, r.pack)
<1>1. PICK t, u, F : t = Rollup(r, e) /\ u = Scored(t, d) /\ F = D \cup {e}
  OBVIOUS
<1>2. /\ t.count = IF e.type = "open" THEN r.count + 1 ELSE r.count
      /\ t.opened = IF e.type = "open" /\ e.at > r.opened THEN e.at ELSE r.opened
      /\ t.clicked = r.clicked \cup MaterialsClicked({e})
      /\ t.pack = r.pack
  BY <1>1, RollupFields
<1>3. /\ u.count = t.count /\ u.opened = t.opened /\ u.clicked = t.clicked
      /\ u \in Lead /\ u.pack = r.pack
      /\ u.score = EngagementScore([u EXCEPT !.pack = r.pack], u.computed)
  <2>1. /\ u.count = t.count /\ u.opened = t.opened /\ u.clicked = t.clicked
        /\ u \in Lead /\ u.pack = t.pack /\ u.computed = d
        /\ u.score = EngagementScore(u, d)
    BY <1>1, ScoredRow
  <2>2. [u EXCEPT !.pack = r.pack] = u
    BY <1>2, <2>1, ScoreOfOwnPack
  <2> QED
    BY <1>2, <2>1, <2>2
<1>4. u.count = Cardinality(F \cap Opens)
  <2>1. r.count = Cardinality(D \cap Opens)
    BY DEF ExactFor
  <2>2. /\ e.type = "open" => Cardinality(F \cap Opens) = Cardinality(D \cap Opens) + 1
        /\ e.type # "open" => F \cap Opens = D \cap Opens
    BY <1>1, OneMoreOpen
  <2>3. u.count = IF e.type = "open" THEN r.count + 1 ELSE r.count
    BY <1>2, <1>3
  <2> QED
    BY <2>1, <2>2, <2>3
<1>5. /\ u.opened \in {0} \cup {f.at : f \in F \cap Opens}
      /\ \A f \in F \cap Opens : f.at <= u.opened
  <2>1. /\ r.opened \in {0} \cup {f.at : f \in D \cap Opens}
        /\ \A f \in D \cap Opens : f.at <= r.opened
        /\ r.opened \in Nat
    BY DEF ExactFor, Lead
  <2>2. \A f \in Events : f.at \in Nat
    BY EventAssumptions
  <2>3. CASE e.type = "open"
    <3>1. F \cap Opens = (D \cap Opens) \cup {e}
      BY <1>1, <2>3 DEF Opens
    <3>2. u.opened = IF e.at > r.opened THEN e.at ELSE r.opened
      BY <1>2, <1>3, <2>3
    <3>3. u.opened \in {0} \cup {f.at : f \in F \cap Opens}
      BY <2>1, <3>1, <3>2
    <3>4. \A f \in F \cap Opens : f.at <= u.opened
      BY <2>1, <2>2, <3>1, <3>2
    <3> QED
      BY <3>3, <3>4
  <2>4. CASE e.type # "open"
    <3>1. F \cap Opens = D \cap Opens /\ u.opened = r.opened
      BY <1>1, <1>2, <1>3, <2>4 DEF Opens
    <3> QED
      BY <2>1, <3>1
  <2> QED
    BY <2>3, <2>4
<1>6. u.clicked = MaterialsClicked(F)
  <2>1. MaterialsClicked(F) = MaterialsClicked(D) \cup MaterialsClicked({e})
    BY <1>1, ClickedAdds
  <2>2. r.clicked = MaterialsClicked(D)
    BY DEF ExactFor
  <2> QED
    BY <1>2, <1>3, <2>1, <2>2
<1> QED
  BY <1>1, <1>3, <1>4, <1>5, <1>6 DEF ExactFor

\* An event that is no open and clicks on nothing new.
LEMMA ExactAfterRecord ==
  ASSUME NEW D, NEW r, NEW k, ExactFor(r, D, k), NEW e,
         e \notin Opens, MaterialsClicked({e}) \subseteq r.clicked
  PROVE  ExactFor(r, D \cup {e}, k)
<1>1. PICK F : F = D \cup {e}
  OBVIOUS
<1>2. F \cap Opens = D \cap Opens
  BY <1>1
<1>3. MaterialsClicked(F) = r.clicked
  <2>1. MaterialsClicked(F) = MaterialsClicked(D) \cup MaterialsClicked({e})
    BY <1>1, ClickedAdds
  <2>2. r.clicked = MaterialsClicked(D)
    BY DEF ExactFor
  <2> QED
    BY <2>1, <2>2
<1> QED
  BY <1>1, <1>2, <1>3 DEF ExactFor

LEMMA ExactAfterResubmit ==
  ASSUME NEW D, NEW r \in Lead, NEW p, ExactFor(r, D, p), NEW f \in Forms,
         NEW k \in BOOLEAN, NEW d \in Days
  PROVE  /\ Resubmitted(r, f, k, d) \in Lead
         /\ ExactFor(Resubmitted(r, f, k, d), D, Resubmitted(r, f, k, d).pack)
<1>1. PICK t, u : t = [r EXCEPT !.form = f, !.pack = k] /\ u = Scored(t, d)
  OBVIOUS
<1>2. /\ t \in Lead
      /\ t.count = r.count /\ t.opened = r.opened /\ t.clicked = r.clicked
  BY <1>1 DEF Lead
<1>3. /\ u \in Lead
      /\ u.score = EngagementScore([u EXCEPT !.pack = u.pack], u.computed)
      /\ u.count = r.count /\ u.opened = r.opened /\ u.clicked = r.clicked
  <2>1. /\ u \in Lead /\ u.computed = d /\ u.score = EngagementScore(u, d)
        /\ u.count = t.count /\ u.opened = t.opened /\ u.clicked = t.clicked
    BY <1>1, <1>2, ScoredRow
  <2>2. [u EXCEPT !.pack = u.pack] = u
    BY <2>1, ScoreOfOwnPack
  <2> QED
    BY <1>2, <2>1, <2>2
<1> QED
  BY <1>1, <1>3 DEF ExactFor, Resubmitted

\* A step that leaves the row alone, and gives a request at most a fresh copy.
LEMMA TurnExact ==
  ASSUME EventInv, ExactInv, NEW h \in Handlers, NEW t, ses' = [ses EXCEPT ![h] = t],
         t.snap \in {None, lead, ses[h].snap},
         UNCHANGED <<lead, form, counted, raced, cut>>, Done' = Done
  PROVE  ExactInv'
<1> SUFFICES ASSUME Undisturbed
             PROVE  /\ ExactFor(lead', Done', counted')
                    /\ \A g \in Handlers : Holds(ses'[g].snap, lead')
                    /\ Holds(form'.snap, lead')
  BY DEF ExactInv, Undisturbed
<1>1. /\ ExactFor(lead, Done, counted)
      /\ \A g \in Handlers : Holds(ses[g].snap, lead)
      /\ Holds(form.snap, lead)
  BY DEF ExactInv
<1>2. ses'[h] = t /\ \A g \in Handlers \ {h} : ses'[g] = ses[g]
  BY DEF EventInv
<1>3. Holds(lead, lead)
  <2>1. lead \in Lead
    BY DEF EventInv, Undisturbed, Behind, Shows
  <2> QED
    BY <2>1, CopiesOfSame DEF Holds
<1>4. Holds(t.snap, lead)
  BY <1>1, <1>3 DEF Holds
<1> QED
  BY <1>1, <1>2, <1>4

LEMMA PostExact ==
  ASSUME EventInv, ExactInv, NEW h \in Handlers, NEW b \in Posts, Post(h, b)
  PROVE  ExactInv'
<1>1. PICK t : t = [Closed EXCEPT !.pc = "look", !.queue = b]
  OBVIOUS
<1>2. t.snap = None
  BY <1>1 DEF Closed
<1>3. ses' = [ses EXCEPT ![h] = t] /\ UNCHANGED <<lead, form, counted, raced, cut>>
  BY <1>1 DEF Post
<1>4. Done' = Done
  BY PostInv
<1> QED
  BY <1>2, <1>3, <1>4, TurnExact

LEMMA LookExact ==
  ASSUME EventInv, ExactInv, NEW h \in Handlers, Look(h)
  PROVE  ExactInv'
<1>1. PICK s : s = ses[h]
  OBVIOUS
<1>2. s \in Session /\ s.queue # <<>>
  BY <1>1, AtWork DEF Look
<1>3. UNCHANGED <<lead, form, counted, raced, cut>>
  BY DEF Look
<1>4. Done' = Done
  BY LookInv
<1>5. CASE ses' = [ses EXCEPT ![h] = Proceed(s)]
  <2>1. Proceed(s).snap = None
    BY <1>2, ProceedBetween, BetweenOK
  <2> QED
    BY <1>3, <1>4, <1>5, <2>1, TurnExact
<1>6. CASE ses' = [ses EXCEPT ![h] = [s EXCEPT !.pc = "record", !.snap = lead]]
  <2>1. PICK t : t = [s EXCEPT !.pc = "record", !.snap = lead]
    OBVIOUS
  <2>2. t.snap = lead
    BY <1>2, <2>1 DEF Session
  <2> QED
    BY <1>3, <1>4, <1>6, <2>1, <2>2, TurnExact
<1> QED
  BY <1>1, <1>5, <1>6 DEF Look, Skip

LEMMA RecordExact ==
  ASSUME EventInv, ExactInv, NEW h \in Handlers, Record(h)
  PROVE  ExactInv'
<1>1. PICK s, e : s = ses[h] /\ e = Head(s.queue)
  OBVIOUS
<1>2. s.pc = "record" /\ s \in Session /\ s.queue # <<>> /\ s.snap \in Lead
  BY <1>1, AtWork DEF Record, Behind, Shows
<1>3. UNCHANGED <<lead, form, counted, raced, cut>>
  BY DEF Record
<1>4. CASE Refused(e)
  <2>1. PICK t : t = [s EXCEPT !.broken = TRUE]
    OBVIOUS
  <2>2. t \in Session /\ t.queue # <<>>
    BY <1>2, <2>1 DEF Session
  <2>3. Proceed(t).snap = None
    BY <2>2, ProceedBetween, BetweenOK
  <2>4. ses' = [ses EXCEPT ![h] = Proceed(t)] /\ Done' = Done
    BY <1>1, <1>4, <2>1, RefusedInv DEF Record
  <2> QED
    BY <1>3, <2>3, <2>4, TurnExact
<1>5. CASE ~Refused(e) /\ Rollup(s.snap, e) # s.snap
  <2>1. PICK t : t = [s EXCEPT !.pc = "bump"]
    OBVIOUS
  <2>2. t.snap = s.snap
    BY <1>2, <2>1 DEF Session
  <2>3. ses' = [ses EXCEPT ![h] = t] /\ Done' = Done
    BY <1>1, <1>5, <2>1, RecordBumpInv DEF Record
  <2> QED
    BY <1>1, <1>3, <2>2, <2>3, TurnExact
<1>6. CASE ~Refused(e) /\ Rollup(s.snap, e) = s.snap
  <2>1. PICK t : t = Proceed(s)
    OBVIOUS
  <2>2. t.snap = None
    BY <1>2, <2>1, ProceedBetween, BetweenOK
  <2>3. ses' = [ses EXCEPT ![h] = t]
    BY <1>1, <1>6, <2>1 DEF Record
  <2>4. Done' = Done \cup {e} /\ e \notin Opens /\ MaterialsClicked({e}) \subseteq s.snap.clicked
    BY <1>1, <1>6, RecordOnlyInv
  <2>5. SUFFICES ASSUME Undisturbed
                 PROVE  /\ ExactFor(lead', Done', counted')
                        /\ \A g \in Handlers : Holds(ses'[g].snap, lead')
                        /\ Holds(form'.snap, lead')
    BY <1>3 DEF ExactInv, Undisturbed
  <2>6. /\ ExactFor(lead, Done, counted)
        /\ \A g \in Handlers : Holds(ses[g].snap, lead)
        /\ Holds(form.snap, lead)
    BY <2>5 DEF ExactInv
  <2>7. s.snap.clicked = lead.clicked
    <3>1. lead \in Lead
      BY <2>5 DEF EventInv, Undisturbed, Behind, Shows
    <3>2. IsCopy(s.snap, lead)
      BY <1>1, <1>2, <2>6, NoLeadAssumption DEF Holds
    <3> QED
      BY <3>1, <3>2, CopyFields
  <2>8. ExactFor(lead, Done \cup {e}, counted)
    BY <2>4, <2>6, <2>7, ExactAfterRecord
  <2>9. ses'[h] = t /\ \A g \in Handlers \ {h} : ses'[g] = ses[g]
    BY <2>3 DEF EventInv
  <2> QED
    BY <1>3, <2>2, <2>4, <2>6, <2>8, <2>9 DEF Holds
<1> QED
  BY <1>4, <1>5, <1>6

\* The rollup of a request that worked alone is written as it was computed.
LEMMA BumpExact ==
  ASSUME EventInv, ExactInv, NEW h \in Handlers, Bump(h)
  PROVE  ExactInv'
<1>1. PICK s, e, t, u : /\ s = ses[h] /\ e = Head(s.queue) /\ t = Proceed(s)
                        /\ u = Scored(Rollup(s.snap, e), now)
  OBVIOUS
<1>2. s.pc = "bump" /\ s \in Session /\ s.queue # <<>> /\ e \in Events /\ s.snap \in Lead
  BY <1>1, AtWork DEF Bump, Behind, Shows
<1>3. /\ ses' = [ses EXCEPT ![h] = t] /\ UNCHANGED <<form, cut>>
      /\ lead' = Merge(lead, s.snap, u) /\ counted' = s.snap.pack
      /\ raced' = (raced \/ Others(h) # {} \/ form # NoForm)
  BY <1>1 DEF Bump
<1>4. SUFFICES ASSUME Undisturbed'
               PROVE  /\ ExactFor(lead', Done', counted')
                      /\ \A g \in Handlers : Holds(ses'[g].snap, lead')
                      /\ Holds(form'.snap, lead')
  BY DEF ExactInv
<1>5. Undisturbed /\ Others(h) = {} /\ form = NoForm
  <2>1. ~raced' /\ cut' = {}
    BY <1>4 DEF Undisturbed
  <2>2. events # {}
    BY <1>1, <1>2, AtWork
  <2> QED
    BY <1>3, <2>1, <2>2 DEF Undisturbed, EventInv
<1>6. lead \in Lead /\ IsCopy(s.snap, lead) /\ ExactFor(lead, Done, counted)
  BY <1>1, <1>2, <1>5, NoLeadAssumption
     DEF ExactInv, Holds, EventInv, Undisturbed, Behind, Shows
<1>7. Done' = Done \cup {e} /\ e \notin Done /\ Rollup(s.snap, e) \in Lead
  BY <1>1, BumpInv
<1>8. u \in Lead /\ u.pack = s.snap.pack /\ ExactFor(u, Done', u.pack)
  <2>1. Done \subseteq Events /\ now \in Days /\ counted \in BOOLEAN
    BY DEF Done, EventInv, CountersOK
  <2>2. ExactFor(s.snap, Done, counted)
    BY <1>2, <1>6, <2>1, PackAside
  <2>3. /\ Scored(Rollup(s.snap, e), now) \in Lead
        /\ Scored(Rollup(s.snap, e), now).pack = s.snap.pack
        /\ ExactFor(Scored(Rollup(s.snap, e), now), Done \cup {e}, s.snap.pack)
    BY <1>2, <1>7, <2>1, <2>2, ExactAfterBump
  <2> QED
    BY <1>1, <1>7, <2>3
<1>9. ExactFor(lead', Done', counted')
  BY <1>3, <1>6, <1>8, StoredExact
<1>10. t.snap = None
  BY <1>1, <1>2, ProceedBetween, BetweenOK
<1>11. ses'[h] = t /\ \A g \in Handlers \ {h} : ses'[g] = ses[g] /\ ses[g].snap = None
  BY <1>3, <1>5 DEF EventInv, Others
<1> QED
  BY <1>3, <1>5, <1>9, <1>10, <1>11 DEF NoForm, Holds

LEMMA ResubmitExact ==
  ASSUME EventInv, ExactInv, ResubmitWrite
  PROVE  ExactInv'
<1>1. /\ form # NoForm /\ form' = NoForm /\ UNCHANGED <<ses, cut>>
      /\ raced' = (raced \/ \E h \in Handlers : ses[h].snap # None)
  BY DEF ResubmitWrite
<1>2. /\ form.snap \in Lead /\ form.form \in Forms /\ form.keeps \in BOOLEAN
      /\ now \in Days /\ counted \in BOOLEAN
  BY <1>1 DEF EventInv, FormOK, FormRecord, CountersOK
<1>3. SUFFICES ASSUME Undisturbed'
               PROVE  /\ ExactFor(lead', Done', counted')
                      /\ \A g \in Handlers : Holds(ses'[g].snap, lead')
                      /\ Holds(form'.snap, lead')
  BY DEF ExactInv
<1>4. Undisturbed /\ \A h \in Handlers : ses[h].snap = None
  BY <1>1, <1>3 DEF Undisturbed, ResubmitWrite
<1>5. lead \in Lead /\ IsCopy(form.snap, lead) /\ ExactFor(lead, Done, counted)
  BY <1>2, <1>4, NoLeadAssumption
     DEF ExactInv, Holds, EventInv, Undisturbed, Behind, Shows
<1>6. PICK u : u = Resubmitted(form.snap, form.form, form.keeps, now)
  OBVIOUS
<1>7. u \in Lead /\ ExactFor(u, Done, u.pack)
  <2>1. ExactFor(form.snap, Done, counted)
    BY <1>2, <1>5, PackAside
  <2> QED
    BY <1>2, <1>6, <2>1, ExactAfterResubmit
<1>8. lead' = Merge(lead, form.snap, u) /\ counted' = u.pack
  BY <1>4, <1>6 DEF ResubmitWrite, Undisturbed
<1>9. ExactFor(lead', Done, counted')
  BY <1>5, <1>7, <1>8, StoredExact
<1>10. Done' = Done
  BY ResubmitWriteInv
<1> QED
  BY <1>1, <1>4, <1>9, <1>10 DEF NoForm, Holds

\* A delivery commits the pack status and leaves the score as it is.
LEMMA DeliverExact ==
  ASSUME EventInv, ExactInv, NEW sent \in BOOLEAN, DeliverPack(sent)
  PROVE  ExactInv'
<1>1. /\ UNCHANGED <<ses, form, counted, raced, cut>> /\ lead # None
      /\ lead' = [lead EXCEPT !.pack = sent]
  BY DEF DeliverPack
<1>2. SUFFICES ASSUME Undisturbed'
               PROVE  /\ ExactFor(lead', Done', counted')
                      /\ \A g \in Handlers : Holds(ses'[g].snap, lead')
                      /\ Holds(form'.snap, lead')
  BY DEF ExactInv
<1>3. Undisturbed /\ lead \in Lead /\ counted \in BOOLEAN
  BY <1>1, <1>2 DEF Undisturbed, EventInv, CountersOK, Behind, Shows
<1>4. /\ ExactFor(lead, Done, counted)
      /\ \A g \in Handlers : Holds(ses[g].snap, lead)
      /\ Holds(form.snap, lead)
  BY <1>3 DEF ExactInv
<1>5. lead' \in Lead /\ IsCopy(lead', lead)
  BY <1>1, <1>3, OtherPack, CopiesOfSame
<1>6. Done' = Done
  BY DeliverInv
<1>7. ExactFor(lead', Done', counted')
  BY <1>1, <1>3, <1>4, <1>5, <1>6, PackAside
<1>8. ASSUME NEW c, Holds(c, lead) PROVE Holds(c, lead')
  <2>1. CASE c = None
    BY <2>1 DEF Holds
  <2>2. CASE IsCopy(c, lead)
    <3>1. IsCopy(c, lead')
      BY <1>3, <1>5, <2>2, CopyFields
    <3> QED
      BY <3>1 DEF Holds
  <2> QED
    BY <1>8, <2>1, <2>2 DEF Holds
<1> QED
  BY <1>1, <1>4, <1>7, <1>8

\* A crash that cuts no rollup off leaves the events as they were.
LEMMA CrashExact ==
  ASSUME EventInv, ExactInv, Crash
  PROVE  ExactInv'
<1>1. /\ ses' = [h \in Handlers |-> Closed] /\ form' = NoForm
      /\ UNCHANGED <<lead, counted, raced>>
      /\ cut \subseteq cut'
  BY DEF Crash
<1>2. SUFFICES ASSUME Undisturbed'
               PROVE  /\ ExactFor(lead', Done', counted')
                      /\ \A g \in Handlers : Holds(ses'[g].snap, lead')
                      /\ Holds(form'.snap, lead')
  BY DEF ExactInv
<1>3. Undisturbed /\ cut' = {}
  BY <1>1, <1>2 DEF Undisturbed
<1>4. Done' = Done
  BY <1>3, CrashInv DEF Done
<1>5. ExactFor(lead, Done, counted)
  BY <1>3 DEF ExactInv
<1> QED
  BY <1>1, <1>4, <1>5 DEF Closed, NoForm, Holds

LEMMA NextExact == EventInv /\ ExactInv /\ [Next]_vars => ExactInv'
<1> SUFFICES ASSUME EventInv, ExactInv, [Next]_vars
             PROVE  ExactInv'
  OBVIOUS
<1>1. CASE \E h \in Handlers, b \in Posts : Post(h, b)
  BY <1>1, PostExact
<1>2. CASE \E h \in Handlers : Handle(h)
  BY <1>2, LookExact, RecordExact, BumpExact DEF Handle
<1>3. ASSUME NEW f \in Forms, NEW k \in BOOLEAN, ResubmitRead(f, k) PROVE ExactInv'
  <2>1. /\ UNCHANGED <<lead, ses, counted, raced, cut>> /\ lead # None
        /\ form' = [snap |-> lead, form |-> f, keeps |-> k]
    BY <1>3 DEF ResubmitRead
  <2>2. Done' = Done
    BY <1>3, ResubmitReadInv
  <2>3. IsCopy(lead, lead)
    BY <2>1, CopiesOfSame DEF EventInv, Behind, Shows
  <2> QED
    BY <2>1, <2>2, <2>3 DEF ExactInv, Undisturbed, Holds
<1>4. CASE ResubmitWrite
  BY <1>4, ResubmitExact
<1>5. CASE \E sent \in BOOLEAN : DeliverPack(sent)
  BY <1>5, DeliverExact
<1>6. ASSUME NEW d \in Days, Later(d) PROVE ExactInv'
  <2>1. UNCHANGED <<lead, ses, form, counted, raced, cut>>
    BY <1>6 DEF Later
  <2>2. Done' = Done
    BY <1>6, LaterInv
  <2> QED
    BY <2>1, <2>2 DEF ExactInv, Undisturbed
<1>7. CASE DeleteLead
  BY <1>7 DEF DeleteLead, ExactInv, Undisturbed
<1>8. CASE Crash
  BY <1>8, CrashExact
<1>9. CASE UNCHANGED vars
  <2>1. UNCHANGED <<lead, ses, form, counted, raced, cut>>
    BY <1>9 DEF vars
  <2>2. Done' = Done
    BY <1>9, UnchangedInv
  <2> QED
    BY <2>1, <2>2 DEF ExactInv, Undisturbed
<1> QED
  BY <1>1, <1>2, <1>3, <1>4, <1>5, <1>6, <1>7, <1>8, <1>9 DEF Next

LEMMA InitExact ==
  ASSUME Init
  PROVE  ExactInv
<1>1. Done = {}
  BY InitInv
<1>2. Cardinality(Done \cap Opens) = 0 /\ MaterialsClicked(Done) = {}
  BY <1>1, FS_EmptySet DEF MaterialsClicked
<1>3. counted = FALSE /\ lead.score = EngagementScore([lead EXCEPT !.pack = counted], lead.computed)
  BY FirstRow, ScoreOfOwnPack DEF Init
<1>4. ExactFor(lead, Done, counted)
  BY <1>1, <1>2, <1>3, FirstRow DEF ExactFor
<1> QED
  BY <1>4 DEF Init, ExactInv, Closed, NoForm, Holds

\* Unless two sessions worked on the lead at once or a request was cut off, the
\* open count, the last open and the clicked documents are exactly what the
\* recorded events say, in whatever order and however often they came.  The
\* stored score is the row's own score of the day it was computed, with the pack
\* status of that moment: deliver_pack and the days gone by do not change it.
THEOREM ExactUnlessRaced == Spec => []RollupIsExactUnlessRaced
<1>1. EventInv /\ ExactInv => RollupIsExactUnlessRaced
  <2> SUFFICES ASSUME EventInv, ExactInv, Undisturbed
               PROVE  /\ lead.count = Cardinality(Done \cap Opens)
                      /\ lead.opened = Max({0} \cup {e.at : e \in Done \cap Opens})
                      /\ lead.clicked = MaterialsClicked(Done)
                      /\ lead.score = EngagementScore([lead EXCEPT !.pack = counted],
                                                      lead.computed)
    BY DEF RollupIsExactUnlessRaced, Undisturbed, Done
  <2>1. ExactFor(lead, Done, counted)
    BY DEF ExactInv
  <2>2. PICK S : S = {0} \cup {e.at : e \in Done \cap Opens}
    OBVIOUS
  <2>3. S \subseteq Nat
    BY <2>2, EventAssumptions DEF Done, EventInv
  <2>4. lead.opened \in S /\ \A y \in S : lead.opened >= y
    BY <2>1, <2>2, <2>3 DEF ExactFor
  <2>5. Max(S) = lead.opened
    <3>1. S \in SUBSET Int
      BY <2>3
    <3> QED
      BY <2>4, <3>1, MaxIs
  <2> QED
    BY <2>1, <2>2, <2>5 DEF ExactFor
<1>2. Init => ExactInv
  BY InitExact
<1> QED
  BY <1>1, <1>2, NextExact, InvHolds, PTL DEF Spec
=============================================================================
