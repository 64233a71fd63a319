-------------------------- MODULE BackOfficeProofs --------------------------
(***************************************************************************)
(* Proofs about the parts of the service around the pipelines: the accounts *)
(* of the dashboard, the eligibility documents of a trade registration, the *)
(* copies of Freshsales' records, the reports, and what operators run by    *)
(* hand: the scripts over leads and the transfer of exported registrations. *)
(* They hold for any number of accounts, keys, deals, records, leads, open  *)
(* requests, runs, failed calls and restarts.                               *)
(***************************************************************************)
EXTENDS MCBackOffice, SumTheorems

-----------------------------------------------------------------------------
(* The operators' scripts over leads                                        *)

\* A copy is of a lead that still exists (leads of a campaign stay).
CopiesOfLeads ==
    \A k \in Scripts, v \in Visitors : script[k].copy[v] # None => leads[v] # None

\* A script has loaded what it is about to write.
WorkIsLoaded ==
    /\ \A k \in Scripts \ {"import"} : \A v \in script[k].todo : script[k].copy[v] # None
    /\ \A k \in Scripts : script[k].pc = "write" =>
        /\ k \in {"import", "reconnect"} /\ script[k].at \in Visitors
        /\ k = "reconnect" => script[k].copy[script[k].at] # None

NoLeadNoAnswers == \A v \in Visitors : leads[v] = None => answers[v] = Blank

ScriptInv ==
    ScriptTypeOK /\ CopiesOfLeads /\ WorkIsLoaded /\ NoLeadNoAnswers /\ AnswersSurvive

\* What a commit that adds a mark to loaded leads does to the rows.
Marking(vs, mark) ==
    /\ leads' \in [Visitors -> LeadRow \cup {None}]
    /\ answers' \in [Visitors -> Responses]
    /\ raced' \subseteq Visitors /\ raced \subseteq raced'
    /\ \A v \in Visitors :
        /\ leads'[v] = None <=> leads[v] = None
        /\ leads[v] = None => answers'[v] = answers[v]
        /\ answers[v].marks \subseteq answers'[v].marks
        /\ v \in vs => mark \in answers'[v].marks
        /\ leads[v] # None /\ v \notin raced' /\ leads[v].responses = answers[v]
            => leads'[v].responses = answers'[v]

\* One row of such a commit.
LEMMA MarkedRow ==
    ASSUME NEW stored \in LeadRow, NEW copy \in LeadRow, NEW mark \in Marks
    PROVE  LET new == Flushed(stored, copy, [copy EXCEPT !.responses = WithMark(@, mark)])
           IN  /\ new \in LeadRow
               /\ stored.responses = copy.responses
                    => new.responses = [stored.responses EXCEPT !.marks = @ \cup {mark}]
<1> DEFINE r == [copy.responses EXCEPT !.marks = @ \cup {mark}]
           set == [copy EXCEPT !.responses = WithMark(@, mark)]
<1>1. copy.responses \in Responses /\ stored.responses \in Responses
  BY DEF LeadRow
<1>2. r \in Responses
  BY <1>1 DEF Responses, Marks
<1>3. set.responses = r /\ set.icp = copy.icp
  BY DEF LeadRow, WithMark
<1> HIDE DEF set
<1>4. Flushed(stored, copy, set) =
        [responses |-> IF set.responses # copy.responses THEN set.responses ELSE stored.responses,
         icp |-> IF set.icp # copy.icp THEN set.icp ELSE stored.icp]
  BY DEF Flushed, LeadRow
<1>5. Flushed(stored, copy, set) =
        [responses |-> IF r # copy.responses THEN r ELSE stored.responses, icp |-> stored.icp]
  BY <1>3, <1>4
<1>6. Flushed(stored, copy, set) \in LeadRow
  BY <1>1, <1>2, <1>5 DEF LeadRow
<1>7. stored.responses = copy.responses => Flushed(stored, copy, set).responses = r
  BY <1>5
<1> QED BY <1>6, <1>7 DEF set

LEMMA MarkingRows ==
    ASSUME NEW k \in Scripts, NEW vs \in SUBSET Visitors, NEW mark \in Marks
    PROVE  ScriptInv /\ (\A v \in vs : script[k].copy[v] # None) /\ MarkLeads(k, vs, mark)
            => Marking(vs, mark)
<1> SUFFICES ASSUME ScriptInv, \A v \in vs : script[k].copy[v] # None, MarkLeads(k, vs, mark)
             PROVE  Marking(vs, mark)
  OBVIOUS
<1> DEFINE copy == script[k].copy
           new(v) == Flushed(leads[v], copy[v], [copy[v] EXCEPT !.responses = WithMark(@, mark)])
           said(v) == [answers[v] EXCEPT !.marks = @ \cup {mark}]
<1>1. copy \in [Visitors -> LeadRow \cup {None}]
  BY DEF ScriptInv, ScriptTypeOK, ScriptRun
<1>2. \A v \in vs : copy[v] \in LeadRow /\ leads[v] \in LeadRow
  BY <1>1 DEF ScriptInv, ScriptTypeOK, CopiesOfLeads
<1>3. \A v \in vs : /\ new(v) \in LeadRow
                    /\ leads[v].responses = copy[v].responses
                        => new(v).responses = [leads[v].responses EXCEPT !.marks = @ \cup {mark}]
  BY <1>2, MarkedRow
<1>4. \A v \in Visitors : /\ said(v) \in Responses
                          /\ answers[v].marks \subseteq said(v).marks
                          /\ mark \in said(v).marks
  BY DEF ScriptInv, ScriptTypeOK, Responses
<1>5. /\ leads' = [v \in Visitors |-> IF v \in vs THEN new(v) ELSE leads[v]]
      /\ answers' = [v \in Visitors |-> IF v \in vs THEN said(v) ELSE answers[v]]
      /\ raced' = raced \cup {v \in vs : leads[v].responses # copy[v].responses}
  BY DEF MarkLeads
<1> HIDE DEF copy, new, said
<1>6. /\ leads' \in [Visitors -> LeadRow \cup {None}]
      /\ answers' \in [Visitors -> Responses]
      /\ raced' \subseteq Visitors /\ raced \subseteq raced'
  BY <1>3, <1>4, <1>5 DEF ScriptInv, ScriptTypeOK
<1>7. ASSUME NEW v \in Visitors
      PROVE  /\ leads'[v] = None <=> leads[v] = None
             /\ leads[v] = None => answers'[v] = answers[v]
             /\ answers[v].marks \subseteq answers'[v].marks
             /\ v \in vs => mark \in answers'[v].marks
             /\ leads[v] # None /\ v \notin raced' /\ leads[v].responses = answers[v]
                 => leads'[v].responses = answers'[v]
  <2>1. CASE v \notin vs
    BY <1>5, <2>1
  <2>2. CASE v \in vs
    <3>1. leads'[v] = new(v) /\ answers'[v] = said(v)
      BY <1>5, <2>2
    <3>2. leads[v] # None /\ new(v) # None
      BY <1>2, <1>3, <2>2, NoLeadRowAssumption
    <3>3. v \notin raced' => leads[v].responses = copy[v].responses
      BY <1>5, <2>2
    <3>4. v \notin raced' /\ leads[v].responses = answers[v] => new(v).responses = said(v)
      BY <1>3, <2>2, <3>3 DEF said
    <3> QED BY <1>4, <3>1, <3>2, <3>4
  <2> QED BY <2>1, <2>2
<1> QED BY <1>6, <1>7 DEF Marking

LEMMA ScriptInitInv == ScriptInit => ScriptInv
<1> SUFFICES ASSUME ScriptInit PROVE ScriptInv
  OBVIOUS
<1> USE ScriptAssumptions DEF ScriptInit
<1>1. Blank \in Responses
  BY DEF Blank, Responses, Marks
<1>2. NoScript \in ScriptRun
  BY DEF NoScript, NoLeads, ScriptRun
<1>3. ScriptTypeOK
  BY <1>1, <1>2 DEF ScriptTypeOK, NoLeads
<1>4. CopiesOfLeads /\ WorkIsLoaded
  BY DEF CopiesOfLeads, WorkIsLoaded, NoScript, NoLeads
<1>5. NoLeadNoAnswers /\ AnswersSurvive
  BY DEF NoLeadNoAnswers, AnswersSurvive, NoLeads
<1> QED BY <1>3, <1>4, <1>5 DEF ScriptInv

\* A script that ends has nothing loaded and nothing left.
LEMMA EndKept ==
    ASSUME NEW k \in Scripts
    PROVE  ScriptInv /\ EndScript(k)
            => /\ script' \in [Scripts -> ScriptRun]
               /\ \A v \in Visitors : script'[k].copy[v] = None
               /\ script'[k].todo = {} /\ script'[k].pc = "idle"
               /\ \A j \in Scripts \ {k} : script'[j] = script[j]
<1>1. NoScript \in ScriptRun
  BY DEF NoScript, NoLeads, ScriptRun
<1> QED BY <1>1 DEF EndScript, ScriptInv, ScriptTypeOK, NoScript, NoLeads

\* Rows that keep their existence keep the scripts' copies in order.
LEMMA OthersKept ==
    ASSUME NEW k \in Scripts,
           NEW copy, NEW todo, NEW pc, NEW at
    PROVE  /\ ScriptInv
           /\ \A v \in Visitors : leads[v] # None => leads'[v] # None
           /\ \A j \in Scripts \ {k} : script'[j] = script[j]
           /\ script'[k] = [pc |-> pc, copy |-> copy, todo |-> todo, at |-> at]
           /\ \A v \in Visitors : copy[v] # None => leads'[v] # None
           /\ k # "import" => \A v \in todo : copy[v] # None
           /\ pc = "write" => /\ k \in {"import", "reconnect"} /\ at \in Visitors
                              /\ k = "reconnect" => copy[at] # None
           => CopiesOfLeads' /\ WorkIsLoaded'
BY DEF ScriptInv, CopiesOfLeads, WorkIsLoaded

\* The rows after a step in which only marks were added, or nothing.
LEMMA MarkKept ==
    ASSUME NEW vs, NEW mark
    PROVE  ScriptInv /\ Marking(vs, mark) => NoLeadNoAnswers' /\ AnswersSurvive'
BY DEF ScriptInv, Marking, NoLeadNoAnswers, AnswersSurvive

\* A script record, taken apart.
LEMMA RunParts ==
    ASSUME NEW k \in Scripts
    PROVE  ScriptTypeOK =>
            /\ script[k].pc \in {"idle", "pick", "write"}
            /\ script[k].copy \in [Visitors -> LeadRow \cup {None}]
            /\ script[k].todo \subseteq Visitors
            /\ script[k].at \in Visitors \cup {None}
            /\ script[k] = [pc |-> script[k].pc, copy |-> script[k].copy,
                            todo |-> script[k].todo, at |-> script[k].at]
BY DEF ScriptTypeOK, ScriptRun

LEMMA ScriptStep == ScriptInv /\ [ScriptNext]_scriptVars => ScriptInv'
<1> SUFFICES ASSUME ScriptInv, [ScriptNext]_scriptVars PROVE ScriptInv'
  OBVIOUS
<1> USE ScriptAssumptions
<1>t. ScriptTypeOK
  BY DEF ScriptInv
<1>k. "import" \in Scripts /\ "enrich" \in Scripts /\ "score" \in Scripts /\ "reconnect" \in Scripts
  BY DEF Scripts
\* The rows are left alone.
<1>q. ASSUME UNCHANGED <<leads, answers, raced>> PROVE NoLeadNoAnswers' /\ AnswersSurvive'
  BY <1>q DEF ScriptInv, NoLeadNoAnswers, AnswersSurvive
<1>1. ASSUME NEW v \in Visitors, Submit(v) PROVE ScriptInv'
  <2> DEFINE filled == [form |-> forms + 1, marks |-> {}]
  <2>1. filled \in Responses
    BY <1>t, <1>1 DEF Submit, ScriptTypeOK, Responses
  <2> DEFINE row == [responses |-> filled, icp |-> IF leads[v] = None THEN None ELSE leads[v].icp]
  <2>2. row \in LeadRow /\ row.responses = filled
    BY <1>t, <2>1 DEF ScriptTypeOK, LeadRow
  <2>3. row # None
    BY <2>2, NoLeadRowAssumption
  <2>4. /\ leads' = [leads EXCEPT ![v] = row] /\ answers' = [answers EXCEPT ![v] = filled]
        /\ forms' \in 0 .. MaxForms /\ wiped' \subseteq Visitors
        /\ UNCHANGED <<script, mails, started, sfaults, unstamped, raced>>
    BY <1>t, <1>1 DEF Submit, ScriptTypeOK
  <2> HIDE DEF filled, row
  <2>5. ScriptTypeOK'
    BY <1>t, <2>1, <2>2, <2>4 DEF ScriptTypeOK
  <2>6. \A u \in Visitors : leads[u] # None => leads'[u] # None
    BY <1>t, <2>3, <2>4 DEF ScriptTypeOK
  <2>7. CopiesOfLeads' /\ WorkIsLoaded'
    BY <2>4, <2>6 DEF ScriptInv, CopiesOfLeads, WorkIsLoaded
  <2>8. NoLeadNoAnswers' /\ AnswersSurvive'
    BY <1>t, <2>2, <2>3, <2>4 DEF ScriptInv, ScriptTypeOK, NoLeadNoAnswers, AnswersSurvive
  <2> QED BY <2>5, <2>7, <2>8 DEF ScriptInv
<1>2. ASSUME NEW k \in Scripts, ScriptStarts(k) PROVE ScriptInv'
  <2> DEFINE copy == IF k = "import" THEN NoLeads ELSE leads
             todo == {v \in Visitors : Eligible(k, v)}
             begun == [pc |-> "pick", copy |-> copy, todo |-> todo, at |-> None]
  <2>1. copy \in [Visitors -> LeadRow \cup {None}] /\ todo \subseteq Visitors
    BY <1>t DEF ScriptTypeOK, NoLeads
  <2>2. begun \in ScriptRun
    BY <2>1 DEF ScriptRun
  <2>3. script' = [script EXCEPT ![k] = begun] /\ started' \in 0 .. MaxScripts
    BY <1>t, <1>2 DEF ScriptStarts, ScriptTypeOK
  <2>4. ScriptTypeOK'
    BY <1>t, <1>2, <2>2, <2>3 DEF ScriptStarts, ScriptTypeOK
  <2>5. UNCHANGED <<leads, answers, raced>>
    BY <1>2 DEF ScriptStarts
  <2>6. k # "import" => \A v \in todo : copy[v] # None
    BY DEF Eligible, Scripts, Enrichable, Reconnectable
  <2>7. \A v \in Visitors : copy[v] # None => leads'[v] # None
    BY <2>5 DEF NoLeads
  <2>8. script'[k] = begun /\ \A j \in Scripts \ {k} : script'[j] = script[j]
    BY <1>t, <2>3 DEF ScriptTypeOK
  <2> HIDE DEF copy, todo
  <2>9. CopiesOfLeads' /\ WorkIsLoaded'
    BY <2>5, <2>6, <2>7, <2>8, OthersKept
  <2> QED BY <1>q, <2>4, <2>5, <2>9 DEF ScriptInv
<1>3. ASSUME NEW k \in Scripts, ScriptEnds(k) \/ ScriptCut(k) PROVE ScriptInv'
  <2>1. EndScript(k) /\ UNCHANGED <<leads, answers, raced>>
    BY <1>3 DEF ScriptEnds, ScriptCut
  <2>2. /\ script' \in [Scripts -> ScriptRun]
        /\ \A v \in Visitors : script'[k].copy[v] = None
        /\ script'[k].todo = {} /\ script'[k].pc = "idle"
        /\ \A j \in Scripts \ {k} : script'[j] = script[j]
    BY <2>1, EndKept
  <2>3. unstamped' \subseteq Visitors
    BY <1>3, <1>t, <1>k DEF ScriptInv, WorkIsLoaded, ScriptTypeOK, ScriptEnds, ScriptCut
  <2>4. ScriptTypeOK'
    BY <1>3, <1>t, <2>2, <2>3 DEF ScriptEnds, ScriptCut, ScriptFault, ScriptTypeOK
  <2>5. CopiesOfLeads' /\ WorkIsLoaded'
    BY <2>1, <2>2 DEF ScriptInv, CopiesOfLeads, WorkIsLoaded
  <2> QED BY <1>q, <2>1, <2>4, <2>5 DEF ScriptInv
<1>4. ASSUME SendReconnect PROVE ScriptInv'
  <2> DEFINE s == script["reconnect"]
  <2>0. PICK v \in s.todo :
            \/ /\ mails' = [mails EXCEPT ![v] = IF @ = 2 THEN 2 ELSE @ + 1]
               /\ script' = [script EXCEPT !["reconnect"].todo = @ \ {v},
                                           !["reconnect"].pc = "write", !["reconnect"].at = v]
               /\ UNCHANGED <<sfaults, unstamped>>
            \/ /\ ScriptFault
               /\ mails' = [mails EXCEPT ![v] = IF @ = 2 THEN 2 ELSE @ + 1]
               /\ script' = [script EXCEPT !["reconnect"].todo = @ \ {v}]
               /\ unstamped' = unstamped \cup {v}
            \/ /\ ScriptFault
               /\ script' = [script EXCEPT !["reconnect"].todo = @ \ {v}]
               /\ UNCHANGED <<mails, unstamped>>
    BY <1>4 DEF SendReconnect
  <2>1.     /\ \/ script' = [script EXCEPT !["reconnect"].todo = @ \ {v},
                                           !["reconnect"].pc = "write", !["reconnect"].at = v]
               \/ script' = [script EXCEPT !["reconnect"].todo = @ \ {v}]
            /\ \/ mails' = [mails EXCEPT ![v] = IF @ = 2 THEN 2 ELSE @ + 1]
               \/ mails' = mails
            /\ unstamped' \in {unstamped, unstamped \cup {v}}
            /\ sfaults' \in 0 .. MaxScriptFaults
    BY <1>t, <2>0 DEF ScriptFault, ScriptTypeOK
  <2>2. s.todo \subseteq Visitors /\ s.copy \in [Visitors -> LeadRow \cup {None}]
        /\ s.pc \in {"idle", "pick", "write"} /\ s.at \in Visitors \cup {None}
    BY <1>t, <1>k, RunParts
  <2>3. \E pc \in {s.pc, "write"}, at \in {s.at, v} :
            /\ script'["reconnect"] = [pc |-> pc, copy |-> s.copy, todo |-> s.todo \ {v}, at |-> at]
            /\ pc = "write" => at = v
    <3>1. s.pc = "pick"
      BY <1>4 DEF SendReconnect
    <3>2. script \in [Scripts -> ScriptRun] /\ s \in ScriptRun
      BY <1>t, <1>k DEF ScriptTypeOK
    <3>3. CASE script' = [script EXCEPT !["reconnect"].todo = @ \ {v},
                                        !["reconnect"].pc = "write", !["reconnect"].at = v]
      <4>1. script'["reconnect"] = [pc |-> "write", copy |-> s.copy, todo |-> s.todo \ {v}, at |-> v]
        BY <1>k, <3>2, <3>3 DEF ScriptRun
      <4> QED BY <4>1
    <3>4. CASE script' = [script EXCEPT !["reconnect"].todo = @ \ {v}]
      <4>1. script'["reconnect"] = [pc |-> s.pc, copy |-> s.copy, todo |-> s.todo \ {v}, at |-> s.at]
        BY <1>k, <3>2, <3>4 DEF ScriptRun
      <4> QED BY <3>1, <4>1
    <3> QED BY <2>1, <3>3, <3>4
  <2>4. PICK pc \in {s.pc, "write"}, at \in {s.at, v} :
            /\ script'["reconnect"] = [pc |-> pc, copy |-> s.copy, todo |-> s.todo \ {v}, at |-> at]
            /\ pc = "write" => at = v
    BY <2>3
  <2>5. \A j \in Scripts \ {"reconnect"} : script'[j] = script[j]
    BY <1>t, <2>1 DEF ScriptTypeOK
  <2>6. script' \in [Scripts -> ScriptRun]
    <3>1. script'["reconnect"] \in ScriptRun
      BY <2>1, <2>2, <2>4 DEF ScriptRun
    <3>2. DOMAIN script' = Scripts /\ script' = [j \in Scripts |-> script'[j]]
      BY <1>t, <2>1 DEF ScriptTypeOK
    <3> QED BY <1>t, <2>5, <3>1, <3>2 DEF ScriptTypeOK
  <2>7. UNCHANGED <<leads, forms, started, answers, raced, wiped>>
    BY <1>4 DEF SendReconnect
  <2>8. mails' \in [Visitors -> 0 .. 2] /\ unstamped' \subseteq Visitors
    BY <1>t, <2>1, <2>2 DEF ScriptTypeOK
  <2>9. ScriptTypeOK'
    BY <1>t, <2>1, <2>6, <2>7, <2>8 DEF ScriptTypeOK
  <2>10. \A u \in s.todo : s.copy[u] # None
    BY <1>k DEF ScriptInv, WorkIsLoaded
  <2>11. \A u \in Visitors : s.copy[u] # None => leads'[u] # None
    BY <1>k, <2>7 DEF ScriptInv, CopiesOfLeads
  <2> HIDE DEF s
  <2>12. CopiesOfLeads' /\ WorkIsLoaded'
    BY <1>k, <2>1, <2>2, <2>4, <2>5, <2>7, <2>10, <2>11, OthersKept
  <2> QED BY <1>q, <2>7, <2>9, <2>12 DEF ScriptInv
<1>5. ASSUME StampReconnect PROVE ScriptInv'
  <2> DEFINE s == script["reconnect"]
  <2>1. s.pc = "write" /\ MarkLeads("reconnect", {s.at}, "reconnect_sent_at")
    BY <1>5 DEF StampReconnect
  <2>2. s.at \in Visitors /\ s.copy[s.at] # None
    BY <1>k, <2>1 DEF ScriptInv, WorkIsLoaded
  <2>3. Marking({s.at}, "reconnect_sent_at")
    BY <1>k, <2>1, <2>2, MarkingRows DEF Marks
  <2>4. /\ script'["reconnect"] = [pc |-> "pick", copy |-> s.copy, todo |-> s.todo, at |-> None]
        /\ \A j \in Scripts \ {"reconnect"} : script'[j] = script[j]
        /\ DOMAIN script' = Scripts /\ script' = [j \in Scripts |-> script'[j]]
    <3>1. script' = [script EXCEPT !["reconnect"].pc = "pick", !["reconnect"].at = None]
      BY <1>5 DEF StampReconnect
    <3>2. script \in [Scripts -> ScriptRun] /\ script["reconnect"] \in ScriptRun
      BY <1>t, <1>k DEF ScriptTypeOK
    <3>3. script'["reconnect"] = [pc |-> "pick", copy |-> s.copy, todo |-> s.todo, at |-> None]
      BY <1>k, <3>1, <3>2 DEF ScriptRun
    <3>4. /\ \A j \in Scripts \ {"reconnect"} : script'[j] = script[j]
          /\ DOMAIN script' = Scripts /\ script' = [j \in Scripts |-> script'[j]]
      BY <3>1, <3>2
    <3> QED BY <3>3, <3>4
  <2>5. s.todo \subseteq Visitors /\ s.copy \in [Visitors -> LeadRow \cup {None}]
    BY <1>t, <1>k, RunParts
  <2>6. \A u \in s.todo : s.copy[u] # None
    BY <1>k DEF ScriptInv, WorkIsLoaded
  <2>7. \A u \in Visitors : s.copy[u] # None => leads'[u] # None
    BY <1>k, <2>3 DEF ScriptInv, CopiesOfLeads, Marking
  <2> HIDE DEF s
  <2>8. script' \in [Scripts -> ScriptRun]
    <3>1. script'["reconnect"] \in ScriptRun
      BY <2>4, <2>5 DEF ScriptRun
    <3> QED BY <1>t, <2>4, <3>1 DEF ScriptTypeOK
  <2>9. ScriptTypeOK'
    BY <1>5, <1>t, <2>3, <2>8 DEF StampReconnect, Marking, ScriptTypeOK
  <2>10. \A v \in Visitors : leads[v] # None => leads'[v] # None
    BY <2>3 DEF Marking
  <2>11. CopiesOfLeads' /\ WorkIsLoaded'
    BY <1>k, <2>4, <2>6, <2>7, <2>10, OthersKept
  <2> QED BY <2>3, <2>9, <2>11, MarkKept DEF ScriptInv
<1>6. ASSUME EnrichDomain PROVE ScriptInv'
  <2> DEFINE s == script["enrich"]
  <2>1. s.todo \subseteq Visitors /\ \A v \in s.todo : s.copy[v] # None
    BY <1>t, <1>k, RunParts DEF ScriptInv, WorkIsLoaded
  <2>2. Marking(s.todo, "enrichment") \/ UNCHANGED <<leads, answers, raced>>
    BY <1>6, <1>k, <2>1, MarkingRows DEF EnrichDomain, Marks
  <2>3. /\ script' \in [Scripts -> ScriptRun]
        /\ \A v \in Visitors : script'["enrich"].copy[v] = None
        /\ script'["enrich"].todo = {} /\ script'["enrich"].pc = "idle"
        /\ \A j \in Scripts \ {"enrich"} : script'[j] = script[j]
    BY <1>6, <1>k, EndKept DEF EnrichDomain
  <2>4. UNCHANGED <<mails, forms, started, sfaults, unstamped, wiped>>
    BY <1>6 DEF EnrichDomain
  <2> HIDE DEF s
  <2>5. ScriptTypeOK'
    BY <1>t, <2>2, <2>3, <2>4 DEF ScriptTypeOK, Marking
  <2>6. \A v \in Visitors : leads[v] # None => leads'[v] # None
    BY <2>2 DEF Marking
  <2>7. CopiesOfLeads' /\ WorkIsLoaded'
    BY <2>3, <2>6 DEF ScriptInv, CopiesOfLeads, WorkIsLoaded
  <2>8. NoLeadNoAnswers' /\ AnswersSurvive'
    BY <1>q, <2>2, MarkKept
  <2> QED BY <2>5, <2>7, <2>8 DEF ScriptInv
<1>7. ASSUME ScoreNoData \/ ScoreCompany PROVE ScriptInv'
  <2> DEFINE s == script["score"]
  <2>1. s.todo \subseteq Visitors /\ \A v \in s.todo : leads[v] \in LeadRow
    BY <1>t, <1>k, RunParts DEF ScriptInv, WorkIsLoaded, CopiesOfLeads, ScriptTypeOK
  <2>2. PICK vs \in SUBSET s.todo, tier \in {"tier", "Skip"} :
            leads' = [v \in Visitors |-> IF v \in vs THEN [leads[v] EXCEPT !.icp = tier] ELSE leads[v]]
    <3>1. CASE ScoreNoData
      BY <3>1 DEF ScoreNoData, SetTier, NoData
    <3>2. CASE ScoreCompany
      <4>1. PICK tier \in ScoreLead : IF tier = None THEN UNCHANGED leads ELSE SetTier(s.todo, tier)
        BY <3>2 DEF ScoreCompany
      <4>2. CASE tier = None
        <5>1. leads' = [v \in Visitors |-> IF v \in {} THEN [leads[v] EXCEPT !.icp = "Skip"] ELSE leads[v]]
          BY <1>t, <4>1, <4>2 DEF ScriptTypeOK
        <5> WITNESS {} \in SUBSET s.todo, "Skip" \in {"tier", "Skip"}
        <5> QED BY <5>1
      <4>3. CASE tier # None
        <5> tier \in {"tier", "Skip"}
          BY <4>3 DEF ScoreLead
        <5>1. SetTier(s.todo, tier)
          BY <4>1, <4>3
        <5> WITNESS s.todo \in SUBSET s.todo, tier \in {"tier", "Skip"}
        <5> QED BY <5>1 DEF SetTier
      <4> QED BY <4>2, <4>3
    <3> QED BY <1>7, <3>1, <3>2
  <2>3. \A v \in vs : /\ [leads[v] EXCEPT !.icp = tier] \in LeadRow
                      /\ [leads[v] EXCEPT !.icp = tier].responses = leads[v].responses
    BY <2>1 DEF LeadRow
  <2>4. \A v \in Visitors : /\ leads'[v] \in LeadRow \cup {None}
                            /\ leads'[v] = None <=> leads[v] = None
                            /\ leads[v] # None => leads'[v].responses = leads[v].responses
    BY <1>t, <2>1, <2>2, <2>3, NoLeadRowAssumption DEF ScriptTypeOK
  <2>5. PICK todo \in SUBSET s.todo : script' = [script EXCEPT !["score"].todo = todo]
    BY <1>7 DEF ScoreNoData, ScoreCompany
  <2>6. /\ script'["score"] = [pc |-> s.pc, copy |-> s.copy, todo |-> todo, at |-> s.at]
        /\ \A j \in Scripts \ {"score"} : script'[j] = script[j]
        /\ DOMAIN script' = Scripts /\ script' = [j \in Scripts |-> script'[j]]
    BY <1>t, <1>k, <2>5 DEF ScriptTypeOK, ScriptRun
  <2>7. s.copy \in [Visitors -> LeadRow \cup {None}] /\ s.at \in Visitors \cup {None} /\ s.pc = "pick"
    BY <1>7, <1>t, <1>k, RunParts DEF ScoreNoData, ScoreCompany
  <2>8. UNCHANGED <<mails, forms, started, sfaults, answers, unstamped, raced, wiped>>
    BY <1>7 DEF ScoreNoData, ScoreCompany
  <2>9. (\A u \in s.todo : s.copy[u] # None) /\ \A u \in Visitors : s.copy[u] # None => leads[u] # None
    BY <1>k DEF ScriptInv, WorkIsLoaded, CopiesOfLeads
  <2> HIDE DEF s
  <2>10. script' \in [Scripts -> ScriptRun]
    <3>1. script'["score"] \in ScriptRun
      BY <2>1, <2>5, <2>6, <2>7 DEF ScriptRun
    <3> QED BY <1>t, <2>6, <3>1 DEF ScriptTypeOK
  <2>11. leads' \in [Visitors -> LeadRow \cup {None}]
    BY <2>2, <2>4
  <2>12. ScriptTypeOK'
    BY <1>t, <2>8, <2>10, <2>11 DEF ScriptTypeOK
  <2>13. CopiesOfLeads' /\ WorkIsLoaded'
    BY <1>k, <2>4, <2>6, <2>7, <2>9, OthersKept
  <2>14. NoLeadNoAnswers' /\ AnswersSurvive'
    BY <2>4, <2>8 DEF ScriptInv, NoLeadNoAnswers, AnswersSurvive
  <2> QED BY <2>12, <2>13, <2>14 DEF ScriptInv
<1>8. ASSUME ImportLooksUpLead PROVE ScriptInv'
  <2> DEFINE s == script["import"]
  <2>1. PICK v \in s.todo :
            script' = [script EXCEPT !["import"] = [pc |-> "write", todo |-> s.todo \ {v},
                                        at |-> v, copy |-> [NoLeads EXCEPT ![v] = leads[v]]]]
    BY <1>8 DEF ImportLooksUpLead
  <2> DEFINE copy == [NoLeads EXCEPT ![v] = leads[v]]
  <2>2. s.todo \subseteq Visitors
    BY <1>t, <1>k, RunParts
  <2>3. copy \in [Visitors -> LeadRow \cup {None}] /\ \A u \in Visitors : copy[u] # None => leads[u] # None
    BY <1>t, <2>2 DEF NoLeads, ScriptTypeOK
  <2>4. /\ script'["import"] = [pc |-> "write", copy |-> copy, todo |-> s.todo \ {v}, at |-> v]
        /\ \A j \in Scripts \ {"import"} : script'[j] = script[j]
        /\ DOMAIN script' = Scripts /\ script' = [j \in Scripts |-> script'[j]]
    BY <1>t, <1>k, <2>1 DEF ScriptTypeOK
  <2>5. UNCHANGED <<leads, mails, forms, started, sfaults, answers, unstamped, raced, wiped>>
    BY <1>8 DEF ImportLooksUpLead
  <2> HIDE DEF s, copy
  <2>6. script' \in [Scripts -> ScriptRun]
    <3>0. v \in Visitors /\ s.todo \ {v} \in SUBSET Visitors
      BY <2>1, <2>2
    <3>1. script'["import"] \in ScriptRun
      BY <2>3, <2>4, <3>0 DEF ScriptRun
    <3> QED BY <1>t, <2>4, <3>1 DEF ScriptTypeOK
  <2>7. ScriptTypeOK'
    BY <1>t, <2>5, <2>6 DEF ScriptTypeOK
  <2>8. CopiesOfLeads' /\ WorkIsLoaded'
    BY <1>k, <2>1, <2>2, <2>3, <2>4, <2>5, OthersKept
  <2> QED BY <1>q, <2>5, <2>7, <2>8 DEF ScriptInv
<1>9. ASSUME ImportWrites PROVE ScriptInv'
  <2> DEFINE s == script["import"]
             v == s.at
             captured == [form |-> 0, marks |-> {"captured_by"}]
             row == [responses |-> captured, icp |-> IF leads[v] = None THEN None ELSE leads[v].icp]
  <2>1. s.pc = "write" /\ v \in Visitors
    BY <1>9, <1>k DEF ImportWrites, ScriptInv, WorkIsLoaded
  <2>2. /\ script'["import"] = [pc |-> "pick", copy |-> NoLeads, todo |-> s.todo, at |-> None]
        /\ \A j \in Scripts \ {"import"} : script'[j] = script[j]
        /\ DOMAIN script' = Scripts /\ script' = [j \in Scripts |-> script'[j]]
    <3>1. script' = [script EXCEPT !["import"].pc = "pick", !["import"].at = None,
                                    !["import"].copy = NoLeads]
      BY <1>9 DEF ImportWrites
    <3>2. script \in [Scripts -> ScriptRun] /\ script["import"] \in ScriptRun
      BY <1>t, <1>k DEF ScriptTypeOK
    <3>3. script'["import"] = [pc |-> "pick", copy |-> NoLeads, todo |-> s.todo, at |-> None]
      BY <1>k, <3>1, <3>2 DEF ScriptRun
    <3>4. /\ \A j \in Scripts \ {"import"} : script'[j] = script[j]
          /\ DOMAIN script' = Scripts /\ script' = [j \in Scripts |-> script'[j]]
      BY <3>1, <3>2
    <3> QED BY <3>3, <3>4
  <2>3. s.todo \subseteq Visitors
    BY <1>t, <1>k, RunParts
  <2>4. script' \in [Scripts -> ScriptRun]
    <3>1. script'["import"] \in ScriptRun
      BY <2>2, <2>3 DEF ScriptRun, NoLeads
    <3> QED BY <1>t, <2>2, <3>1 DEF ScriptTypeOK
  <2>5. UNCHANGED <<mails, forms, started, sfaults, unstamped, wiped>>
    BY <1>9 DEF ImportWrites
  <2>6. /\ leads' \in [Visitors -> LeadRow \cup {None}] /\ answers' \in [Visitors -> Responses]
        /\ raced' \subseteq Visitors
        /\ \A u \in Visitors : leads[u] # None => leads'[u] # None
        /\ NoLeadNoAnswers' /\ AnswersSurvive'
    <3>1. CASE s.copy[v] = None
      <4>1. /\ leads' = [leads EXCEPT ![v] = row]
            /\ answers' = [answers EXCEPT ![v].marks = @ \cup {"captured_by"}]
            /\ raced' = IF leads[v] # None THEN raced \cup {v} ELSE raced
        BY <1>9, <3>1 DEF ImportWrites
      <4>2. captured \in Responses
        BY DEF Responses, Marks
      <4>3. row \in LeadRow /\ row.responses = captured
        BY <1>t, <2>1, <4>2 DEF ScriptTypeOK, LeadRow
      <4>4. row # None
        BY <4>3, NoLeadRowAssumption
      <4>5. answers' \in [Visitors -> Responses]
        BY <1>t, <2>1, <4>1 DEF ScriptTypeOK, Responses, Marks
      <4>6. ASSUME leads[v] = None PROVE answers'[v] = captured
        <5>1. answers[v] = Blank
          BY <2>1, <4>6 DEF ScriptInv, NoLeadNoAnswers
        <5>2. answers'[v] = [answers[v] EXCEPT !.marks = @ \cup {"captured_by"}]
          BY <1>t, <2>1, <4>1 DEF ScriptTypeOK
        <5>3. [Blank EXCEPT !.marks = @ \cup {"captured_by"}] = captured
          BY DEF Blank
        <5> QED BY <5>1, <5>2, <5>3
      <4>7. \A u \in Visitors \ {v} : answers'[u] = answers[u]
        BY <1>t, <4>1 DEF ScriptTypeOK
      <4> HIDE DEF row, captured, s, v
      <4>8. leads'[v] = row /\ \A u \in Visitors \ {v} : leads'[u] = leads[u]
        BY <1>t, <2>1, <4>1 DEF ScriptTypeOK
      <4>9. leads' \in [Visitors -> LeadRow \cup {None}] /\ raced' \subseteq Visitors
        BY <1>t, <2>1, <4>1, <4>3 DEF ScriptTypeOK
      <4>10. NoLeadNoAnswers'
        BY <4>4, <4>7, <4>8 DEF ScriptInv, NoLeadNoAnswers
      <4>11. AnswersSurvive'
        BY <2>1, <4>1, <4>3, <4>6, <4>7, <4>8 DEF ScriptInv, AnswersSurvive
      <4> QED BY <4>4, <4>5, <4>8, <4>9, <4>10, <4>11
    <3>2. CASE s.copy[v] # None
      <4>1. MarkLeads("import", {v}, "captured_by") \/ UNCHANGED <<leads, answers, raced>>
        BY <1>9, <3>2 DEF ImportWrites
      <4>2. Marking({v}, "captured_by") \/ UNCHANGED <<leads, answers, raced>>
        BY <1>k, <2>1, <3>2, <4>1, MarkingRows DEF Marks
      <4>3. NoLeadNoAnswers' /\ AnswersSurvive'
        BY <1>q, <4>2, MarkKept
      <4> QED BY <1>t, <4>2, <4>3 DEF Marking, ScriptTypeOK
    <3> QED BY <3>1, <3>2
  <2> HIDE DEF s
  <2>7. ScriptTypeOK'
    BY <1>t, <2>4, <2>5, <2>6 DEF ScriptTypeOK
  <2>8. \A u \in Visitors : NoLeads[u] = None
    BY DEF NoLeads
  <2>9. CopiesOfLeads' /\ WorkIsLoaded'
    BY <1>k, <2>2, <2>6, <2>8, OthersKept
  <2> QED BY <2>6, <2>7, <2>9 DEF ScriptInv
<1>10. CASE UNCHANGED scriptVars
  BY <1>10 DEF scriptVars, ScriptInv, ScriptTypeOK, CopiesOfLeads, WorkIsLoaded, NoLeadNoAnswers,
               AnswersSurvive
<1> QED
  BY <1>1, <1>2, <1>3, <1>4, <1>5, <1>6, <1>7, <1>8, <1>9, <1>10 DEF ScriptNext

\* The campaign's leads, the scripts' copies and the counts keep their types.
THEOREM ScriptTypeCorrect == ScriptSpec => []ScriptTypeOK
<1>1. ScriptInv => ScriptTypeOK
  BY DEF ScriptInv
<1> QED BY <1>1, ScriptInitInv, ScriptStep, PTL DEF ScriptSpec

\* No script overwrites the rest of `responses`, but for a write that came
\* between its load of a lead and its own write of it.
THEOREM AnswersAreKept == ScriptSpec => []AnswersSurvive
<1>1. ScriptInv => AnswersSurvive
  BY DEF ScriptInv
<1> QED BY <1>1, ScriptInitInv, ScriptStep, PTL DEF ScriptSpec

-----------------------------------------------------------------------------
(* The reconnect broadcast                                                  *)

Excepted == unstamped \cup wiped \cup raced

\* The broadcast has mailed v and is about to stamp it.
Stamping(v) == script["reconnect"].pc = "write" /\ script["reconnect"].at = v

\* A visitor who was mailed is stamped or about to be, and one the broadcast
\* still has on its list was not mailed yet.
MailedIsStamped ==
    \A v \in Visitors \ Excepted :
        /\ mails[v] <= 1
        /\ mails[v] = 1 => "reconnect_sent_at" \in answers[v].marks \/ Stamping(v)
        /\ v \in script["reconnect"].todo => mails[v] = 0

LEMMA MailedInit == ScriptInit => MailedIsStamped
BY DEF ScriptInit, MailedIsStamped, NoScript, Scripts

LEMMA MailedStep ==
    ScriptInv /\ ScriptInv' /\ MailedIsStamped /\ [ScriptNext]_scriptVars => MailedIsStamped'
<1> SUFFICES ASSUME ScriptInv, ScriptInv', MailedIsStamped, [ScriptNext]_scriptVars
             PROVE  MailedIsStamped'
  OBVIOUS
<1>t. ScriptTypeOK /\ ScriptTypeOK'
  BY DEF ScriptInv
<1>k. "import" \in Scripts /\ "enrich" \in Scripts /\ "score" \in Scripts /\ "reconnect" \in Scripts
  BY DEF Scripts
\* Another script works: rows stay, marks are only added.
<1>q. ASSUME mails' = mails, script'["reconnect"] = script["reconnect"], Excepted \subseteq Excepted',
             \A v \in Visitors : v \notin Excepted' => answers[v].marks \subseteq answers'[v].marks
                                                       \/ mails[v] = 0
      PROVE  MailedIsStamped'
  BY <1>q DEF MailedIsStamped, Stamping
<1>1. ASSUME NEW v \in Visitors, Submit(v) PROVE MailedIsStamped'
  <2>1. /\ \A u \in Visitors \ {v} : answers'[u] = answers[u]
        /\ wiped' = IF mails[v] > 0 THEN wiped \cup {v} ELSE wiped
        /\ UNCHANGED <<script, mails, unstamped, raced>>
    BY <1>1, <1>t DEF Submit, ScriptTypeOK
  <2>2. Excepted \subseteq Excepted' /\ (mails[v] > 0 => v \in Excepted')
    BY <2>1 DEF Excepted
  <2>3. mails[v] \in 0 .. 2
    BY <1>t DEF ScriptTypeOK
  <2> QED BY <1>q, <2>1, <2>2, <2>3
<1>2. ASSUME NEW k \in Scripts, ScriptStarts(k) PROVE MailedIsStamped'
  <2>1. UNCHANGED <<leads, mails, answers, unstamped, raced, wiped>> /\ Excepted' = Excepted
    BY <1>2 DEF ScriptStarts, Excepted
  <2>2. CASE k # "reconnect"
    <3>1. script'["reconnect"] = script["reconnect"]
      BY <1>2, <1>t, <1>k, <2>2 DEF ScriptStarts, ScriptTypeOK
    <3> QED BY <1>q, <2>1, <3>1
  <2>3. CASE k = "reconnect"
    <3>1. script["reconnect"].pc = "idle" /\ script'["reconnect"].pc = "pick"
          /\ script'["reconnect"].todo = {v \in Visitors : Reconnectable(v)}
      BY <1>2, <1>t, <1>k, <2>3 DEF ScriptStarts, Quiet, Eligible, ScriptTypeOK
    <3>2. ASSUME NEW v \in Visitors \ Excepted, v \in script'["reconnect"].todo PROVE mails[v] = 0
      <4>1. leads[v] # None /\ "reconnect_sent_at" \notin leads[v].responses.marks
        BY <3>1, <3>2 DEF Reconnectable, Marked
      <4>2. leads[v].responses = answers[v]
        BY <4>1 DEF ScriptInv, AnswersSurvive, Excepted
      <4>3. mails[v] # 1
        BY <3>1, <4>1, <4>2 DEF MailedIsStamped, Stamping
      <4> QED BY <1>t, <4>3 DEF MailedIsStamped, ScriptTypeOK
    <3> QED BY <2>1, <3>1, <3>2 DEF MailedIsStamped, Stamping
  <2> QED BY <2>2, <2>3
<1>3. ASSUME NEW k \in Scripts, ScriptEnds(k) \/ ScriptCut(k) PROVE MailedIsStamped'
  <2>1. EndScript(k) /\ UNCHANGED <<leads, mails, answers, raced, wiped>>
    BY <1>3 DEF ScriptEnds, ScriptCut
  <2>2. Excepted \subseteq Excepted'
    BY <1>3 DEF ScriptEnds, ScriptCut, Excepted
  <2>3. CASE k # "reconnect"
    <3>1. script'["reconnect"] = script["reconnect"]
      BY <1>k, <2>1, <2>3, EndKept
    <3> QED BY <1>q, <2>1, <2>2, <3>1
  <2>4. CASE k = "reconnect"
    <3>1. script'["reconnect"].todo = {}
      BY <1>k, <2>1, <2>4, EndKept
    <3>2. \A v \in Visitors \ Excepted' : ~Stamping(v)
      BY <1>3, <2>4 DEF ScriptEnds, ScriptCut, Stamping, Excepted
    <3> QED BY <2>1, <2>2, <3>1, <3>2 DEF MailedIsStamped
  <2> QED BY <2>3, <2>4
<1>4. ASSUME SendReconnect PROVE MailedIsStamped'
  <2> DEFINE s == script["reconnect"]
  <2>1. PICK v \in s.todo :
            \/ /\ mails' = [mails EXCEPT ![v] = IF @ = 2 THEN 2 ELSE @ + 1]
               /\ script' = [script EXCEPT !["reconnect"].todo = @ \ {v},
                                           !["reconnect"].pc = "write", !["reconnect"].at = v]
               /\ unstamped' = unstamped
            \/ /\ mails' = [mails EXCEPT ![v] = IF @ = 2 THEN 2 ELSE @ + 1]
               /\ script' = [script EXCEPT !["reconnect"].todo = @ \ {v}]
               /\ unstamped' = unstamped \cup {v}
            \/ /\ script' = [script EXCEPT !["reconnect"].todo = @ \ {v}]
               /\ UNCHANGED <<mails, unstamped>>
    BY <1>4 DEF SendReconnect
  <2>2. s.pc = "pick" /\ UNCHANGED <<leads, answers, raced, wiped>>
    BY <1>4 DEF SendReconnect
  <2>3. v \in Visitors
    BY <1>t, <1>k, RunParts
  <2>4. \A u \in Visitors \ {v} : mails'[u] = mails[u]
    BY <1>t, <2>1 DEF ScriptTypeOK
  <2>5. script'["reconnect"].todo = s.todo \ {v}
    BY <1>t, <1>k, <2>1 DEF ScriptTypeOK, ScriptRun
  <2>6. Excepted \subseteq Excepted'
    BY <2>1, <2>2 DEF Excepted
  <2>7. \A u \in Visitors : ~Stamping(u)
    BY <2>2 DEF Stamping
  <2>8. ASSUME v \notin Excepted'
        PROVE  /\ mails'[v] <= 1 /\ (mails'[v] = 1 => Stamping(v)')
    <3>1. mails[v] = 0
      BY <2>3, <2>6, <2>8 DEF MailedIsStamped
    <3>2. CASE mails' = mails
      BY <3>1, <3>2
    <3>3. CASE mails' = [mails EXCEPT ![v] = IF @ = 2 THEN 2 ELSE @ + 1] /\ unstamped' = unstamped
               /\ script' = [script EXCEPT !["reconnect"].todo = @ \ {v},
                                           !["reconnect"].pc = "write", !["reconnect"].at = v]
      <4>1. mails'[v] = 1
        BY <1>t, <2>3, <3>1, <3>3 DEF ScriptTypeOK
      <4>2. script'["reconnect"].pc = "write" /\ script'["reconnect"].at = v
        BY <1>t, <1>k, <3>3 DEF ScriptTypeOK, ScriptRun
      <4> QED BY <4>1, <4>2 DEF Stamping
    <3>4. unstamped' # unstamped \cup {v}
      BY <2>8 DEF Excepted
    <3> QED BY <2>1, <3>2, <3>3, <3>4
  <2> HIDE DEF s
  <2>9. ASSUME NEW u \in Visitors \ Excepted', u # v
        PROVE  /\ mails'[u] <= 1
               /\ mails'[u] = 1 => "reconnect_sent_at" \in answers'[u].marks
               /\ u \in script'["reconnect"].todo => mails'[u] = 0
    <3>1. u \notin Excepted /\ mails'[u] = mails[u]
      BY <2>4, <2>6, <2>9
    <3> QED BY <2>2, <2>5, <2>7, <2>9, <3>1 DEF MailedIsStamped, s
  <2> QED BY <2>2, <2>3, <2>5, <2>8, <2>9 DEF MailedIsStamped
<1>5. ASSUME StampReconnect PROVE MailedIsStamped'
  <2> DEFINE s == script["reconnect"]
  <2>1. s.pc = "write" /\ MarkLeads("reconnect", {s.at}, "reconnect_sent_at")
    BY <1>5 DEF StampReconnect
  <2>2. s.at \in Visitors /\ s.copy[s.at] # None
    BY <1>k, <2>1 DEF ScriptInv, WorkIsLoaded
  <2>3. Marking({s.at}, "reconnect_sent_at")
    BY <1>k, <2>1, <2>2, MarkingRows DEF Marks
  <2>4. script'["reconnect"].todo = s.todo
    BY <1>5, <1>t, <1>k DEF StampReconnect, ScriptTypeOK, ScriptRun
  <2>5. UNCHANGED <<mails, unstamped, wiped>>
    BY <1>5 DEF StampReconnect
  <2>6. Excepted \subseteq Excepted'
    BY <2>3, <2>5 DEF Excepted, Marking
  <2>7. \A v \in Visitors : /\ answers[v].marks \subseteq answers'[v].marks
                            /\ v = s.at => "reconnect_sent_at" \in answers'[v].marks
    BY <2>3 DEF Marking
  <2> QED BY <2>4, <2>5, <2>6, <2>7 DEF MailedIsStamped, Stamping
<1>6. ASSUME EnrichDomain PROVE MailedIsStamped'
  <2> DEFINE s == script["enrich"]
  <2>1. s.todo \subseteq Visitors /\ \A v \in s.todo : s.copy[v] # None
    BY <1>t, <1>k, RunParts DEF ScriptInv, WorkIsLoaded
  <2>2. Marking(s.todo, "enrichment") \/ UNCHANGED <<leads, answers, raced>>
    BY <1>6, <1>k, <2>1, MarkingRows DEF EnrichDomain, Marks
  <2>3. script'["reconnect"] = script["reconnect"] /\ UNCHANGED <<mails, unstamped, wiped>>
    BY <1>6, <1>k, EndKept DEF EnrichDomain
  <2> HIDE DEF s
  <2>4. Excepted \subseteq Excepted'
    BY <2>2, <2>3 DEF Excepted, Marking
  <2> QED BY <1>q, <2>2, <2>3, <2>4 DEF Marking
<1>7. ASSUME ScoreNoData \/ ScoreCompany PROVE MailedIsStamped'
  <2>1. UNCHANGED <<mails, answers, unstamped, raced, wiped>> /\ Excepted' = Excepted
    BY <1>7 DEF ScoreNoData, ScoreCompany, Excepted
  <2>2. script'["reconnect"] = script["reconnect"]
    BY <1>7, <1>t, <1>k DEF ScoreNoData, ScoreCompany, ScriptTypeOK
  <2> QED BY <1>q, <2>1, <2>2
<1>8. ASSUME ImportLooksUpLead PROVE MailedIsStamped'
  <2>1. UNCHANGED <<leads, mails, answers, unstamped, raced, wiped>> /\ Excepted' = Excepted
    BY <1>8 DEF ImportLooksUpLead, Excepted
  <2>2. script'["reconnect"] = script["reconnect"]
    BY <1>8, <1>t, <1>k DEF ImportLooksUpLead, ScriptTypeOK
  <2> QED BY <1>q, <2>1, <2>2
<1>9. ASSUME ImportWrites PROVE MailedIsStamped'
  <2> DEFINE s == script["import"]
             v == s.at
  <2>1. v \in Visitors
    BY <1>9, <1>k DEF ImportWrites, ScriptInv, WorkIsLoaded
  <2>2. script'["reconnect"] = script["reconnect"] /\ UNCHANGED <<mails, unstamped, wiped>>
    BY <1>9, <1>t, <1>k DEF ImportWrites, ScriptTypeOK
  <2>3. raced \subseteq raced' /\ \A u \in Visitors : answers[u].marks \subseteq answers'[u].marks
    <3>1. CASE s.copy[v] = None
      <4>1. /\ answers' = [answers EXCEPT ![v].marks = @ \cup {"captured_by"}]
            /\ raced' = IF leads[v] # None THEN raced \cup {v} ELSE raced
        BY <1>9, <3>1 DEF ImportWrites
      <4>2. answers'[v].marks = answers[v].marks \cup {"captured_by"}
        BY <1>t, <2>1, <4>1 DEF ScriptTypeOK, Responses
      <4>3. \A u \in Visitors \ {v} : answers'[u] = answers[u]
        BY <1>t, <4>1 DEF ScriptTypeOK
      <4> QED BY <4>1, <4>2, <4>3
    <3>2. CASE s.copy[v] # None
      <4>1. MarkLeads("import", {v}, "captured_by") \/ UNCHANGED <<leads, answers, raced>>
        BY <1>9, <3>2 DEF ImportWrites
      <4>2. Marking({v}, "captured_by") \/ UNCHANGED <<leads, answers, raced>>
        BY <1>k, <2>1, <3>2, <4>1, MarkingRows DEF Marks
      <4> QED BY <4>2 DEF Marking
    <3> QED BY <3>1, <3>2
  <2>4. Excepted \subseteq Excepted'
    BY <2>2, <2>3 DEF Excepted
  <2> QED BY <1>q, <2>2, <2>3, <2>4
<1>10. CASE UNCHANGED scriptVars
  BY <1>10 DEF scriptVars, MailedIsStamped, Stamping, Excepted
<1> QED
  BY <1>1, <1>2, <1>3, <1>4, <1>5, <1>6, <1>7, <1>8, <1>9, <1>10 DEF ScriptNext

\* scripts/send_nog_reconnect.py mails nobody twice, in any number of runs,
\* with the exceptions that ReconnectOnce names.
THEOREM ReconnectedOnce == ScriptSpec => []ReconnectOnce
<1>1. ScriptInit => ScriptInv /\ MailedIsStamped
  BY ScriptInitInv, MailedInit
<1>2. ScriptInv /\ MailedIsStamped /\ [ScriptNext]_scriptVars => (ScriptInv /\ MailedIsStamped)'
  BY ScriptStep, MailedStep
<1>3. ScriptInv /\ MailedIsStamped => ReconnectOnce
  <2> SUFFICES ASSUME ScriptInv, MailedIsStamped, NEW v \in Visitors, v \notin Excepted
               PROVE  ~(mails[v] > 1)
    BY DEF ReconnectOnce, Excepted
  <2>1. mails[v] \in 0 .. 2 /\ mails[v] <= 1
    BY DEF ScriptInv, ScriptTypeOK, MailedIsStamped
  <2> QED BY <2>1
<1> QED BY <1>1, <1>2, <1>3, PTL DEF ScriptSpec

-----------------------------------------------------------------------------
(* The transfer of a campaign's registrations to the trade tables.          *)

\* A run has begun with s and has not dealt with its second participant.
InHand(s) == transfer # None /\ transfer.pc \in {"events", "second"} /\ transfer.reg = s

\* The events that a run has re-pointed and not committed.
Pending(s) == IF transfer = None THEN {} ELSE transfer.pointing[s]

\* A registration that has rows has its primary; what it lacks besides is in
\* the hands of the run, or was when a run stopped.
WholeSoFar(s) ==
    RegistrationRows(s) # {} =>
        /\ BuildPrimary(s) \in trade
        /\ s \notin torn =>
            /\ second[s] # None => BuildSecond(s) \in trade \/ InHand(s)
            /\ due[s] \subseteq pointed[s] \cup Pending(s)

\* Only what has no row is to be done, and nothing of it was re-pointed.
TransferInv ==
    /\ TransferTypeOK
    /\ transfer # None =>
        /\ transfer.pc # "primary" =>
            transfer.reg \in Sources /\ RegistrationRows(transfer.reg) # {}
        /\ transfer.pc = "second" => second[transfer.reg] # None
        /\ \A s \in transfer.todo : RegistrationRows(s) = {}
    /\ \A s \in Sources : RegistrationRows(s) = {} => due[s] = {}
    /\ \A s \in Sources : WholeSoFar(s)

\* A row that is not from the campaign.
LEMMA OtherRowKept ==
  ASSUME NEW row, row.reg = None, trade' \in {trade, trade \cup {row}}
  PROVE  /\ trade \subseteq trade'
         /\ \A s \in Sources : RegistrationRows(s)' = RegistrationRows(s)
  BY TransferAssumptions DEF RegistrationRows

\* The steps of the rest of the service.
LEMMA OutsideInv ==
  ASSUME TransferInv, TransferTypeOK', UNCHANGED <<second, transfer, pointed, due, torn>>,
         trade \subseteq trade',
         \A s \in Sources : RegistrationRows(s)' = RegistrationRows(s)
  PROVE  TransferInv'
<1>1. \A s \in Sources : WholeSoFar(s)'
  <2> SUFFICES ASSUME NEW s \in Sources, RegistrationRows(s)' # {}
               PROVE  WholeSoFar(s)'
    BY DEF WholeSoFar
  <2>1. WholeSoFar(s) /\ RegistrationRows(s) # {}
    BY DEF TransferInv
  <2>2. BuildPrimary(s) \in trade' /\ (BuildSecond(s) \in trade => BuildSecond(s)' \in trade')
    BY <2>1 DEF WholeSoFar, BuildSecond
  <2> QED
    BY <2>1, <2>2 DEF WholeSoFar, InHand, Pending, BuildPrimary
<1>2. \A s \in Sources : RegistrationRows(s)' = {} => due'[s] = {}
  BY DEF TransferInv
<1>3. transfer' # None =>
        /\ transfer'.pc # "primary" =>
            transfer'.reg \in Sources /\ RegistrationRows(transfer.reg)' # {}
        /\ transfer'.pc = "second" => second'[transfer'.reg] # None
        /\ \A s \in transfer'.todo : RegistrationRows(s)' = {}
  <2>1. transfer # None => transfer.todo \subseteq Sources
    BY DEF TransferInv, TransferTypeOK, Transfer
  <2>2. \A s \in Sources : RegistrationRows(s)' # {} <=> RegistrationRows(s) # {}
    OBVIOUS
  <2>3. transfer.reg \in Sources /\ RegistrationRows(transfer.reg) # {}
            => RegistrationRows(transfer.reg)' # {}
    BY <2>2
  <2> QED
    BY <2>1, <2>3 DEF TransferInv
<1> QED
  BY <1>1, <1>2, <1>3 DEF TransferInv

LEMMA ArrivalInv ==
  ASSUME TransferInv, NEW s \in Sources, EmailEventArrives(s)
  PROVE  TransferInv'
<1>1. UNCHANGED <<second, trade, transfer, pointed, due, torn, archived, import, xfaults>>
  BY DEF EmailEventArrives
<1>2. events' \in [Sources -> SUBSET (1 .. MaxEvents)]
  BY DEF EmailEventArrives, TransferInv, TransferTypeOK
<1>3. TransferTypeOK'
  BY <1>1, <1>2 DEF TransferInv, TransferTypeOK
<1>4. trade \subseteq trade' /\ \A x \in Sources : RegistrationRows(x)' = RegistrationRows(x)
  BY <1>1 DEF RegistrationRows
<1> QED
  BY <1>1, <1>3, <1>4, OutsideInv

\* A row of the form or of the import.
LEMMA OtherRowType ==
  ASSUME NEW e \in Emails
  PROVE  [reg |-> None, index |-> 1, email |-> e, synced |-> FALSE] \in TradeRow
  BY DEF TradeRow

LEMMA FormRegistersInv ==
  ASSUME TransferInv, NEW e \in Emails, TradeFormRegisters(e)
  PROVE  TransferInv'
<1>1. PICK row : row = [reg |-> None, index |-> 1, email |-> e, synced |-> FALSE]
  OBVIOUS
<1>2. /\ UNCHANGED <<second, transfer, pointed, due, torn, archived, import, xfaults, events>>
      /\ trade' = trade \cup {row}
  BY <1>1 DEF TradeFormRegisters
<1>3. row \in TradeRow /\ row.reg = None
  BY <1>1, OtherRowType
<1>4. TransferTypeOK'
  BY <1>2, <1>3 DEF TransferInv, TransferTypeOK
<1>5. trade \subseteq trade' /\ \A s \in Sources : RegistrationRows(s)' = RegistrationRows(s)
  BY <1>2, <1>3, OtherRowKept
<1> QED
  BY <1>2, <1>4, <1>5, OutsideInv

LEMMA ImportInv ==
  ASSUME TransferInv, ImportInserts
  PROVE  TransferInv'
<1>1. UNCHANGED <<second, transfer, pointed, due, torn, archived, xfaults, events>>
  BY DEF ImportInserts
<1>2. import \subseteq Emails
  BY DEF ImportInserts, TransferInv, TransferTypeOK
<1>3. CASE UNCHANGED trade /\ import' = None
  <2>1. TransferTypeOK'
    BY <1>1, <1>3 DEF TransferInv, TransferTypeOK
  <2>2. trade \subseteq trade' /\ \A s \in Sources : RegistrationRows(s)' = RegistrationRows(s)
    BY <1>3 DEF RegistrationRows
  <2> QED
    BY <1>1, <2>1, <2>2, OutsideInv
<1>4. ASSUME NEW e \in import,
             trade' = trade \cup {[reg |-> None, index |-> 1, email |-> e, synced |-> FALSE]},
             import' = import \ {e}
      PROVE  TransferInv'
  <2>1. PICK row : row = [reg |-> None, index |-> 1, email |-> e, synced |-> FALSE]
    OBVIOUS
  <2>2. row \in TradeRow /\ row.reg = None /\ trade' = trade \cup {row}
    BY <1>2, <1>4, <2>1, OtherRowType
  <2>3. TransferTypeOK'
    BY <1>1, <1>2, <1>4, <2>2 DEF TransferInv, TransferTypeOK
  <2>4. trade \subseteq trade' /\ \A s \in Sources : RegistrationRows(s)' = RegistrationRows(s)
    BY <2>2, OtherRowKept
  <2> QED
    BY <1>1, <2>3, <2>4, OutsideInv
<1> QED
  BY <1>3, <1>4 DEF ImportInserts

\* Looking rows up, archiving the campaign.
LEMMA OtherStepsInv ==
  ASSUME TransferInv, UNCHANGED <<second, trade, events, pointed, transfer, xfaults, due, torn>>,
         import' \in (SUBSET Emails) \cup {None}, archived' \in BOOLEAN
  PROVE  TransferInv'
<1>1. TransferTypeOK'
  BY DEF TransferInv, TransferTypeOK
<1>2. trade \subseteq trade' /\ \A s \in Sources : RegistrationRows(s)' = RegistrationRows(s)
  BY DEF RegistrationRows
<1> QED
  BY <1>1, <1>2, OutsideInv

-----------------------------------------------------------------------------
\* The run at work.
LEMMA RunAtWork ==
  ASSUME TransferInv, transfer # None
  PROVE  /\ transfer \in Transfer
         /\ transfer.pc \in {"primary", "events", "second"} /\ transfer.todo \subseteq Sources
         /\ transfer.pointing \in [Sources -> SUBSET (1 .. MaxEvents)]
         /\ transfer.pc # "primary" =>
                /\ transfer.reg \in Sources /\ BuildPrimary(transfer.reg) \in trade
                /\ RegistrationRows(transfer.reg) # {}
         /\ transfer.pc = "second" => second[transfer.reg] # None
         /\ \A s \in transfer.todo : RegistrationRows(s) = {}
<1>1. transfer \in Transfer
  BY DEF TransferInv, TransferTypeOK
<1>2. \A s \in Sources : RegistrationRows(s) # {} => BuildPrimary(s) \in trade
  BY DEF TransferInv, WholeSoFar
<1> QED
  BY <1>1, <1>2 DEF TransferInv, Transfer

\* A new state of the run, and a row that it adds, if any, for s.
LEMMA TransferStep ==
  ASSUME TransferInv, NEW t \in Transfer, transfer' = t, NEW s \in Sources,
         UNCHANGED <<second, torn, archived, import, xfaults, events>>,
         trade' \in {trade, trade \cup {BuildPrimary(s)}, trade \cup {BuildSecond(s)}},
         pointed' \in [Sources -> SUBSET (1 .. MaxEvents)],
         due' \in [Sources -> SUBSET (1 .. MaxEvents)],
         t.pc # "primary" => t.reg = s,
         t.pc = "second" => second[s] # None,
         \A x \in t.todo : RegistrationRows(x) = {} /\ x # s,
         \A x \in Sources \ {s} :
            /\ due'[x] = due[x]
            /\ pointed[x] \cup Pending(x) \subseteq pointed'[x] \cup t.pointing[x]
            /\ ~InHand(x),
         BuildPrimary(s) \in trade',
         s \notin torn =>
            /\ second[s] # None => BuildSecond(s) \in trade' \/ t.pc # "primary"
            /\ due'[s] \subseteq pointed'[s] \cup t.pointing[s]
  PROVE  TransferInv'
<1>1. t # None
  BY NoTransferAssumption
<1>2. TransferTypeOK'
  <2>1. BuildPrimary(s) \in TradeRow /\ BuildSecond(s) \in TradeRow
    BY DEF BuildPrimary, BuildSecond, TradeRow, Emails, TransferInv, TransferTypeOK
  <2>2. trade' \subseteq TradeRow
    BY <2>1 DEF TransferInv, TransferTypeOK
  <2> QED
    BY <2>2 DEF TransferInv, TransferTypeOK
<1>3. BuildPrimary(s).reg = s /\ BuildSecond(s).reg = s
  BY DEF BuildPrimary, BuildSecond
<1>4. \A x \in Sources \ {s} : RegistrationRows(x)' = RegistrationRows(x)
  BY <1>3 DEF RegistrationRows
<1>5. RegistrationRows(s)' # {}
  BY <1>3 DEF RegistrationRows
<1>6. \A x \in Sources : RegistrationRows(x)' = {} => due'[x] = {}
  BY <1>4, <1>5 DEF TransferInv
<1>7. ASSUME NEW x \in Sources PROVE WholeSoFar(x)'
  <2>1. CASE x = s
    <3>1. BuildPrimary(s)' = BuildPrimary(s) /\ BuildSecond(s)' = BuildSecond(s)
      BY DEF BuildPrimary, BuildSecond
    <3>2. Pending(s)' = t.pointing[s] /\ (t.pc # "primary" => InHand(s)')
      BY <1>1 DEF Pending, InHand, Transfer
    <3> QED
      BY <2>1, <3>1, <3>2 DEF WholeSoFar
  <2>2. CASE x # s
    <3>1. WholeSoFar(x) /\ ~InHand(x) /\ RegistrationRows(x)' = RegistrationRows(x)
      BY <1>4, <2>2 DEF TransferInv
    <3>2. /\ BuildPrimary(x)' = BuildPrimary(x) /\ BuildSecond(x)' = BuildSecond(x)
          /\ trade \subseteq trade'
      BY DEF BuildPrimary, BuildSecond
    <3>3. Pending(x)' = t.pointing[x]
      BY <1>1 DEF Pending
    <3>4. due'[x] = due[x] /\ pointed[x] \cup Pending(x) \subseteq pointed'[x] \cup Pending(x)'
      BY <2>2, <3>3
    <3> QED
      BY <3>1, <3>2, <3>4 DEF WholeSoFar
  <2> QED
    BY <2>1, <2>2
<1>8. /\ t.pc # "primary" => t.reg \in Sources /\ RegistrationRows(t.reg)' # {}
      /\ t.pc = "second" => second'[t.reg] # None
      /\ \A x \in t.todo : RegistrationRows(x)' = {}
  BY <1>4, <1>5 DEF Transfer
<1> QED
  BY <1>2, <1>6, <1>7, <1>8 DEF TransferInv

LEMMA PointedType ==
  ASSUME TransferInv, transfer # None, CommitEvents
  PROVE  /\ pointed' \in [Sources -> SUBSET (1 .. MaxEvents)]
         /\ \A s \in Sources : pointed'[s] = pointed[s] \cup Pending(s)
<1>1. transfer.pointing \in [Sources -> SUBSET (1 .. MaxEvents)]
  BY RunAtWork
<1>2. pointed \in [Sources -> SUBSET (1 .. MaxEvents)]
  BY DEF TransferInv, TransferTypeOK
<1> QED
  BY <1>1, <1>2 DEF CommitEvents, Pending

\* A run that ends or stops, and what it is torn from.
LEMMA EndInv ==
  ASSUME TransferInv, transfer # None, transfer' = None,
         UNCHANGED <<second, trade, archived, import, events, due>>,
         xfaults' \in 0 .. MaxTransferFaults,
         pointed' \in [Sources -> SUBSET (1 .. MaxEvents)],
         torn \subseteq torn', torn' \subseteq Sources,
         \A s \in Sources \ torn' : pointed[s] \cup Pending(s) \subseteq pointed'[s] /\ ~InHand(s)
  PROVE  TransferInv'
<1>1. TransferTypeOK'
  BY DEF TransferInv, TransferTypeOK
<1>2. \A s \in Sources : RegistrationRows(s)' = RegistrationRows(s)
  BY DEF RegistrationRows
<1>3. ASSUME NEW s \in Sources PROVE WholeSoFar(s)'
  <2>1. WholeSoFar(s)
    BY DEF TransferInv
  <2>2. BuildPrimary(s)' = BuildPrimary(s) /\ BuildSecond(s)' = BuildSecond(s)
    BY DEF BuildPrimary, BuildSecond
  <2> QED
    BY <1>2, <2>1, <2>2 DEF WholeSoFar, Pending
<1>4. \A s \in Sources : RegistrationRows(s)' = {} => due'[s] = {}
  BY <1>2 DEF TransferInv
<1> QED
  BY <1>1, <1>3, <1>4 DEF TransferInv

LEMMA StopInv ==
  ASSUME TransferInv, transfer # None, NEW lost \in SUBSET Sources, TransferStops(lost),
         UNCHANGED <<second, trade, pointed, archived, import, events, due>>,
         xfaults' \in 0 .. MaxTransferFaults,
         \A s \in Sources : InHand(s) => s \in lost
  PROVE  TransferInv'
<1>1. pointed' \in [Sources -> SUBSET (1 .. MaxEvents)] /\ torn \subseteq Sources
  BY DEF TransferInv, TransferTypeOK
<1>2. torn \subseteq torn' /\ torn' \subseteq Sources /\ transfer' = None
  BY <1>1 DEF TransferStops
<1>3. \A s \in Sources \ torn' : pointed[s] \cup Pending(s) \subseteq pointed'[s] /\ ~InHand(s)
  BY DEF TransferStops, Pending
<1> QED
  BY <1>1, <1>2, <1>3, EndInv

LEMMA ListsInv ==
  ASSUME TransferInv, TransferLists
  PROVE  TransferInv'
<1>1. PICK t : t = [pc |-> "primary", todo |-> {s \in Sources : RegistrationRows(s) = {}},
                    reg |-> None, pointing |-> NoPointing]
  OBVIOUS
<1>2. /\ transfer = None /\ transfer' = t
      /\ UNCHANGED <<second, trade, events, pointed, archived, import, xfaults, due, torn>>
  BY <1>1 DEF TransferLists
<1>3. t \in Transfer /\ t.pc = "primary" /\ t.todo = {s \in Sources : RegistrationRows(s) = {}}
  BY <1>1 DEF Transfer, NoPointing
<1>4. \A s \in Sources : RegistrationRows(s)' = RegistrationRows(s)
  BY <1>2 DEF RegistrationRows
<1>5. TransferTypeOK'
  BY <1>2, <1>3 DEF TransferInv, TransferTypeOK
<1>6. ASSUME NEW s \in Sources PROVE WholeSoFar(s)'
  <2>1. WholeSoFar(s) /\ ~InHand(s) /\ Pending(s) = {}
    BY <1>2 DEF TransferInv, InHand, Pending
  <2>2. BuildPrimary(s)' = BuildPrimary(s) /\ BuildSecond(s)' = BuildSecond(s)
    BY <1>2 DEF BuildPrimary, BuildSecond
  <2> QED
    BY <1>2, <1>4, <2>1, <2>2 DEF WholeSoFar
<1>7. \A s \in t.todo : RegistrationRows(s)' = {}
  BY <1>3, <1>4
<1>8. \A s \in Sources : RegistrationRows(s)' = {} => due'[s] = {}
  BY <1>2, <1>4 DEF TransferInv
<1> QED
  BY <1>2, <1>3, <1>5, <1>6, <1>7, <1>8 DEF TransferInv

LEMMA PrimaryInv ==
  ASSUME TransferInv, TransferPrimary
  PROVE  TransferInv'
<1>1. PICK s \in transfer.todo :
        \/ /\ Insertable(BuildPrimary(s))
           /\ trade' = trade \cup {BuildPrimary(s)}
           /\ CommitEvents
           /\ transfer' = [pc |-> "events", todo |-> transfer.todo \ {s}, reg |-> s,
                           pointing |-> NoPointing]
           /\ UNCHANGED torn
        \/ ~Insertable(BuildPrimary(s)) /\ TransferStops({}) /\ UNCHANGED <<trade, pointed>>
  BY DEF TransferPrimary
<1>2. /\ transfer # None /\ transfer.pc = "primary"
      /\ UNCHANGED <<second, events, archived, import, xfaults, due>>
  BY DEF TransferPrimary
<1>3. /\ s \in Sources /\ transfer.todo \subseteq Sources /\ RegistrationRows(s) = {}
      /\ \A x \in transfer.todo : RegistrationRows(x) = {}
  BY <1>2, RunAtWork
<1>4. \A x \in Sources : ~InHand(x)
  BY <1>2 DEF InHand
<1>5. CASE TransferStops({}) /\ UNCHANGED <<trade, pointed>>
  <2>1. xfaults' \in 0 .. MaxTransferFaults
    BY <1>2 DEF TransferInv, TransferTypeOK
  <2> QED
    BY <1>2, <1>4, <1>5, <2>1, StopInv
<1>6. CASE /\ trade' = trade \cup {BuildPrimary(s)}
           /\ CommitEvents
           /\ transfer' = [pc |-> "events", todo |-> transfer.todo \ {s}, reg |-> s,
                           pointing |-> NoPointing]
           /\ UNCHANGED torn
  <2>1. PICK t : t = [pc |-> "events", todo |-> transfer.todo \ {s}, reg |-> s,
                      pointing |-> NoPointing]
    OBVIOUS
  <2>2. /\ t \in Transfer /\ t.pc = "events" /\ t.reg = s /\ t.todo = transfer.todo \ {s}
    BY <1>3, <2>1 DEF Transfer, NoPointing
  <2>3. /\ pointed' \in [Sources -> SUBSET (1 .. MaxEvents)]
        /\ \A x \in Sources : pointed'[x] = pointed[x] \cup Pending(x)
    BY <1>2, <1>6, PointedType
  <2>4. /\ due' \in [Sources -> SUBSET (1 .. MaxEvents)] /\ due'[s] = {}
        /\ \A x \in Sources : due'[x] = due[x]
    BY <1>2, <1>3 DEF TransferInv, TransferTypeOK
  <2>5. \A x \in t.todo : RegistrationRows(x) = {} /\ x # s
    BY <1>3, <2>2
  <2>6. BuildPrimary(s) \in trade'
    BY <1>6
  <2>7. \A x \in Sources \ {s} :
            /\ due'[x] = due[x]
            /\ pointed[x] \cup Pending(x) \subseteq pointed'[x] \cup t.pointing[x]
            /\ ~InHand(x)
    BY <1>4, <2>3, <2>4
  <2> QED
    BY <1>2, <1>3, <1>6, <2>1, <2>2, <2>3, <2>4, <2>5, <2>6, <2>7, TransferStep
<1> QED
  BY <1>1, <1>5, <1>6

LEMMA RepointInv ==
  ASSUME TransferInv, RepointEvents
  PROVE  TransferInv'
<1>1. PICK s, t : /\ s = transfer.reg
                  /\ t = [transfer EXCEPT !.pc = IF second[transfer.reg] = None THEN "primary"
                                                 ELSE "second",
                                          !.pointing[transfer.reg] = events[transfer.reg]]
  OBVIOUS
<1>2. /\ transfer # None /\ transfer.pc = "events" /\ transfer' = t
      /\ due' = [due EXCEPT ![s] = events[s]]
      /\ UNCHANGED <<second, trade, events, pointed, archived, import, xfaults, torn>>
  BY <1>1 DEF RepointEvents
<1>3. /\ transfer \in Transfer /\ s \in Sources
      /\ \A x \in transfer.todo : RegistrationRows(x) = {}
  BY <1>1, <1>2, RunAtWork
<1>4. events[s] \subseteq 1 .. MaxEvents /\ due \in [Sources -> SUBSET (1 .. MaxEvents)]
  BY <1>3 DEF TransferInv, TransferTypeOK
<1>5. /\ t.pc = (IF second[s] = None THEN "primary" ELSE "second")
      /\ t.reg = s /\ t.todo = transfer.todo
      /\ t.pointing = [transfer.pointing EXCEPT ![s] = events[s]]
      /\ t = [pc |-> t.pc, todo |-> t.todo, reg |-> t.reg, pointing |-> t.pointing]
  BY <1>1, <1>3 DEF Transfer
<1>6. /\ t.pointing \in [Sources -> SUBSET (1 .. MaxEvents)] /\ t.pointing[s] = events[s]
      /\ \A x \in Sources \ {s} : t.pointing[x] = transfer.pointing[x]
  BY <1>3, <1>4, <1>5 DEF Transfer
<1>7. t \in Transfer
  BY <1>3, <1>5, <1>6 DEF Transfer
<1>8. /\ due' \in [Sources -> SUBSET (1 .. MaxEvents)] /\ due'[s] = events[s]
      /\ \A x \in Sources \ {s} : due'[x] = due[x]
  BY <1>2, <1>3, <1>4
<1>9. BuildPrimary(s) \in trade /\ RegistrationRows(s) # {}
  <2>1. BuildPrimary(transfer.reg) \in trade /\ RegistrationRows(transfer.reg) # {}
    BY <1>2, RunAtWork
  <2> QED
    BY <1>1, <2>1
<1>10. \A x \in Sources \ {s} :
            /\ due'[x] = due[x]
            /\ pointed[x] \cup Pending(x) \subseteq pointed'[x] \cup t.pointing[x]
            /\ ~InHand(x)
  BY <1>1, <1>2, <1>6, <1>8 DEF Pending, InHand
<1>11. \A x \in t.todo : RegistrationRows(x) = {} /\ x # s
  BY <1>3, <1>5, <1>9
<1>12. pointed' \in [Sources -> SUBSET (1 .. MaxEvents)] /\ trade' = trade
  BY <1>2 DEF TransferInv, TransferTypeOK
<1>13. /\ t.pc # "primary" => t.reg = s
       /\ t.pc = "second" => second[s] # None
       /\ second[s] # None => t.pc # "primary"
       /\ due'[s] \subseteq pointed'[s] \cup t.pointing[s]
  BY <1>5, <1>6, <1>8
<1> QED
  BY <1>2, <1>3, <1>7, <1>8, <1>9, <1>10, <1>11, <1>12, <1>13, TransferStep

LEMMA SecondInv ==
  ASSUME TransferInv, TransferSecond
  PROVE  TransferInv'
<1>1. PICK s : s = transfer.reg
  OBVIOUS
<1>2. /\ transfer # None /\ transfer.pc = "second"
      /\ UNCHANGED <<second, events, archived, import, xfaults, due>>
  BY DEF TransferSecond
<1>3. /\ transfer \in Transfer /\ s \in Sources /\ BuildPrimary(s) \in trade
      /\ RegistrationRows(s) # {}
      /\ \A x \in transfer.todo : RegistrationRows(x) = {}
  <2>1. /\ transfer \in Transfer /\ transfer.reg \in Sources
        /\ BuildPrimary(transfer.reg) \in trade /\ RegistrationRows(transfer.reg) # {}
        /\ \A x \in transfer.todo : RegistrationRows(x) = {}
    BY <1>2, RunAtWork
  <2> QED
    BY <1>1, <2>1
<1>4. \A x \in Sources : InHand(x) => x = s
  BY <1>1 DEF InHand
<1>5. CASE TransferStops({s}) /\ UNCHANGED <<trade, pointed>>
  <2>1. xfaults' \in 0 .. MaxTransferFaults /\ {s} \in SUBSET Sources
    BY <1>2, <1>3 DEF TransferInv, TransferTypeOK
  <2>2. \A x \in Sources : InHand(x) => x \in {s}
    BY <1>4
  <2> QED
    BY <1>2, <1>5, <2>1, <2>2, StopInv
<1>6. CASE /\ trade' = trade \cup {BuildSecond(s)}
           /\ CommitEvents
           /\ transfer' = [transfer EXCEPT !.pc = "primary", !.pointing = NoPointing]
           /\ UNCHANGED torn
  <2>1. PICK t : t = [transfer EXCEPT !.pc = "primary", !.pointing = NoPointing]
    OBVIOUS
  <2>2. t \in Transfer /\ t.pc = "primary" /\ t.todo = transfer.todo
    BY <1>3, <2>1 DEF Transfer, NoPointing
  <2>3. /\ pointed' \in [Sources -> SUBSET (1 .. MaxEvents)]
        /\ \A x \in Sources : pointed'[x] = pointed[x] \cup Pending(x)
    BY <1>2, <1>6, PointedType
  <2>4. /\ due' \in [Sources -> SUBSET (1 .. MaxEvents)]
        /\ \A x \in Sources : due'[x] = due[x]
    BY <1>2 DEF TransferInv, TransferTypeOK
  <2>5. \A x \in t.todo : RegistrationRows(x) = {} /\ x # s
    BY <1>3, <2>2
  <2>6. BuildPrimary(s) \in trade' /\ BuildSecond(s) \in trade'
    BY <1>3, <1>6
  <2>7. \A x \in Sources \ {s} :
            /\ due'[x] = due[x]
            /\ pointed[x] \cup Pending(x) \subseteq pointed'[x] \cup t.pointing[x]
            /\ ~InHand(x)
    BY <1>4, <2>3, <2>4
  <2>8. s \notin torn => due'[s] \subseteq pointed'[s] \cup t.pointing[s]
    <3>1. WholeSoFar(s)
      BY <1>3 DEF TransferInv
    <3> QED
      BY <1>3, <2>3, <2>4, <3>1 DEF WholeSoFar
  <2> QED
    BY <1>2, <1>3, <1>6, <2>1, <2>2, <2>3, <2>4, <2>5, <2>6, <2>7, <2>8, TransferStep
<1> QED
  BY <1>1, <1>5, <1>6 DEF TransferSecond

LEMMA EndsInv ==
  ASSUME TransferInv, TransferEnds
  PROVE  TransferInv'
<1>1. /\ transfer # None /\ transfer.pc = "primary" /\ transfer' = None /\ CommitEvents
      /\ UNCHANGED <<second, trade, events, archived, import, xfaults, due, torn>>
  BY DEF TransferEnds
<1>2. /\ pointed' \in [Sources -> SUBSET (1 .. MaxEvents)]
      /\ \A s \in Sources : pointed'[s] = pointed[s] \cup Pending(s)
  BY <1>1, PointedType
<1>3. \A s \in Sources \ torn' : pointed[s] \cup Pending(s) \subseteq pointed'[s] /\ ~InHand(s)
  BY <1>1, <1>2 DEF InHand
<1>4. xfaults' \in 0 .. MaxTransferFaults /\ torn \subseteq torn' /\ torn' \subseteq Sources
  BY <1>1 DEF TransferInv, TransferTypeOK
<1> QED
  BY <1>1, <1>2, <1>3, <1>4, EndInv

LEMMA CutInv ==
  ASSUME TransferInv, TransferCut
  PROVE  TransferInv'
<1>1. PICK lost :
        lost = IF transfer.pc \in {"events", "second"} THEN {transfer.reg} ELSE {}
  OBVIOUS
<1>2. /\ transfer # None /\ TransferStops(lost)
      /\ UNCHANGED <<second, trade, events, pointed, archived, import, due>>
  BY <1>1 DEF TransferCut
<1>3. lost \in SUBSET Sources /\ \A s \in Sources : InHand(s) => s \in lost
  BY <1>1, <1>2, RunAtWork DEF InHand
<1>4. xfaults' \in 0 .. MaxTransferFaults
  BY TransferAssumptions DEF TransferCut, TransferInv, TransferTypeOK
<1> QED
  BY <1>2, <1>3, <1>4, StopInv

LEMMA TransferInitInv == TransferInit => TransferInv
<1> SUFFICES ASSUME TransferInit
             PROVE  TransferInv
  OBVIOUS
<1>1. \A s \in Sources : RegistrationRows(s) = {} /\ due[s] = {}
  BY DEF TransferInit, RegistrationRows, NoPointing
<1>2. 0 \in 0 .. MaxTransferFaults
  BY TransferAssumptions
<1>3. TransferTypeOK
  BY <1>2 DEF TransferInit, TransferTypeOK, NoPointing
<1>4. transfer = None
  BY DEF TransferInit
<1> QED
  BY <1>1, <1>3, <1>4 DEF TransferInv, WholeSoFar

LEMMA TransferNextInv == TransferInv /\ [TransferNext]_transferVars => TransferInv'
<1> SUFFICES ASSUME TransferInv, [TransferNext]_transferVars
             PROVE  TransferInv'
  OBVIOUS
<1>1. CASE \E s \in Sources : EmailEventArrives(s)
  BY <1>1, ArrivalInv
<1>2. CASE \E e \in Emails : TradeFormRegisters(e)
  BY <1>2, FormRegistersInv
<1>3. CASE \E file \in SUBSET Emails : ImportLooksUp(file)
  <2>1. /\ UNCHANGED <<second, trade, events, pointed, transfer, xfaults, due, torn>>
        /\ import' \in (SUBSET Emails) \cup {None} /\ archived' = archived
    BY <1>3 DEF ImportLooksUp
  <2>2. archived' \in BOOLEAN
    BY <2>1 DEF TransferInv, TransferTypeOK
  <2> QED
    BY <2>1, <2>2, OtherStepsInv
<1>4. CASE ImportInserts
  BY <1>4, ImportInv
<1>5. CASE ArchiveSource \/ UNCHANGED transferVars
  <2>1. /\ UNCHANGED <<second, trade, events, pointed, transfer, xfaults, due, torn>>
        /\ import' = import /\ archived' \in {archived, TRUE}
    BY <1>5 DEF ArchiveSource, transferVars
  <2>2. import' \in (SUBSET Emails) \cup {None} /\ archived' \in BOOLEAN
    BY <2>1 DEF TransferInv, TransferTypeOK
  <2> QED
    BY <2>1, <2>2, OtherStepsInv
<1>6. CASE TransferLists
  BY <1>6, ListsInv
<1>7. CASE TransferPrimary
  BY <1>7, PrimaryInv
<1>8. CASE RepointEvents
  BY <1>8, RepointInv
<1>9. CASE TransferSecond
  BY <1>9, SecondInv
<1>10. CASE TransferEnds
  BY <1>10, EndsInv
<1>11. CASE TransferCut
  BY <1>11, CutInv
<1> QED
  BY <1>1, <1>2, <1>3, <1>4, <1>5, <1>6, <1>7, <1>8, <1>9, <1>10, <1>11 DEF TransferNext

LEMMA TransferInvariant == TransferSpec => []TransferInv
  BY TransferInitInv, TransferNextInv, PTL DEF TransferSpec

\* The tables, the run and the histories of the transfer hold values of their
\* types, whatever the form and the import write meanwhile.
THEOREM TransferTypeCorrect == TransferSpec => []TransferTypeOK
<1>1. TransferInv => TransferTypeOK
  BY DEF TransferInv
<1> QED
  BY <1>1, TransferInvariant, PTL

\* For any number of registrations, e-mail events and repeated runs of
\* transfer_export_launchpad.py, and whatever the form and the import insert
\* meanwhile: outside a run, what a registration has in the trade tables is
\* complete, unless a run stopped in the middle of it.
THEOREM TransferredWhole == TransferSpec => []TransferIsWhole
<1>1. TransferInv => TransferIsWhole
  BY DEF TransferInv, WholeSoFar, InHand, Pending, TransferIsWhole
<1> QED
  BY <1>1, TransferInvariant, PTL

-----------------------------------------------------------------------------
(* The accounts: typing                                                     *)

\* What an open request has loaded and checked when it gets to a label.
RequestOK(s) ==
    /\ s.pc = "target" =>
        /\ s.op \in AdminOps /\ s.caller \in Staff /\ s.target \in Staff
        /\ s.me \in DashboardUser
        /\ s.op \in {"create", "update"} => s.role \in Roles
    /\ s.pc = "commit" =>
        /\ s.op \in AdminOps \cup {"password"} /\ s.target \in Staff
        /\ s.op \in AdminOps => s.caller \in Staff
        /\ s.op # "create" => s.copy \in DashboardUser
        /\ s.op = "create" => s.copy = None
        /\ s.op \in {"create", "update"} => s.role \in Roles
        /\ s.op \in {"update", "delete"} => s.target # s.caller
    /\ s.pc = "tell" => s.target \in Staff

UserTyped == UserTypeOK /\ \A r \in UserRequests : RequestOK(ureq[r])

\* A flush over a loaded account writes the columns that were changed
\* (SQLAlchemy's unit of work).
LEMMA FlushedUser ==
    ASSUME NEW stored \in DashboardUser, NEW loaded \in DashboardUser,
           NEW set \in DashboardUser
    PROVE  LET f == Flushed(stored, loaded, set)
           IN  /\ f \in DashboardUser
               /\ f.role = IF set.role # loaded.role THEN set.role ELSE stored.role
               /\ f.password = IF set.password # loaded.password
                               THEN set.password ELSE stored.password
               /\ f.must_change = IF set.must_change # loaded.must_change
                                  THEN set.must_change ELSE stored.must_change
BY DEF Flushed, DashboardUser

\* users_repo.set_password keeps the role of the row and sets the password;
\* over a current copy it sets the flag as well.
LEMMA SetPasswordUser ==
    ASSUME NEW stored \in DashboardUser, NEW copy \in DashboardUser,
           NEW password \in Passwords, NEW flag \in BOOLEAN
    PROVE  LET f == SetPassword(stored, copy, password, flag)
           IN  /\ f \in DashboardUser
               /\ f.role = stored.role
               /\ f.password = password
               /\ stored = copy => f.must_change = flag
<1> DEFINE set == [copy EXCEPT !.must_change = flag]
           g == Flushed(stored, copy, set)
<1>1. /\ set \in DashboardUser
      /\ set.role = copy.role
      /\ set.must_change = flag
  BY DEF DashboardUser
<1>3. SetPassword(stored, copy, password, flag) = [g EXCEPT !.password = password]
  BY DEF SetPassword
<1> HIDE DEF set
<1>2. /\ g \in DashboardUser
      /\ g.role = stored.role
      /\ g.must_change = IF flag # copy.must_change THEN flag ELSE stored.must_change
  BY <1>1, FlushedUser
<1> HIDE DEF g
<1>4. /\ [g EXCEPT !.password = password] \in DashboardUser
      /\ [g EXCEPT !.password = password].role = g.role
      /\ [g EXCEPT !.password = password].password = password
      /\ [g EXCEPT !.password = password].must_change = g.must_change
  BY <1>2 DEF DashboardUser
<1> QED BY <1>2, <1>3, <1>4

\* An account is never None.
LEMMA UserNotNone == None \notin DashboardUser
BY NoUserAssumption

\* What a step has to show of the request it moves on.
LEMMA MoveRequest ==
    ASSUME UserTyped, NEW r \in UserRequests, NEW s \in UserRequest, RequestOK(s),
           ureq' = [ureq EXCEPT ![r] = s]
    PROVE  /\ ureq' \in [UserRequests -> UserRequest]
           /\ \A q \in UserRequests : RequestOK(ureq'[q])
BY DEF UserTyped, UserTypeOK

\* A closed request.
LEMMA ClosedRequest == NoUserRequest \in UserRequest /\ RequestOK(NoUserRequest)
BY UserAssumptions DEF NoUserRequest, UserRequest, RequestOK, Passwords, AdminOps

\* A write of a row keeps the table and the history well typed.
LEMMA WriteUserTyped ==
    ASSUME UserTyped, NEW r, NEW e \in Staff, NEW row \in DashboardUser \cup {None},
           WriteUser(r, e, row)
    PROVE  users' \in [Staff -> DashboardUser \cup {None}] /\ crossed' \subseteq Staff
BY DEF UserTyped, UserTypeOK, WriteUser

LEMMA InitTyped == UserInit => UserTyped
<1> SUFFICES ASSUME UserInit PROVE UserTyped
  OBVIOUS
<1>0. [role: Roles, owner: {None}, password: {0}, must_change: {FALSE}] \subseteq DashboardUser
  <2>1. 0 \in Passwords
    BY UserAssumptions DEF Passwords
  <2> QED BY <2>1 DEF DashboardUser
<1>1. users \in [Staff -> DashboardUser \cup {None}]
  BY <1>0 DEF UserInit
<1>2. ureq \in [UserRequests -> UserRequest] /\ \A r \in UserRequests : RequestOK(ureq[r])
  BY ClosedRequest DEF UserInit
<1>3. cookies \in [Staff -> {"none", "refresh", "both"}]
  BY DEF UserInit
<1>4. calls \in Passwords /\ ucrashes \in 0 .. MaxUserCrashes
  BY UserAssumptions DEF UserInit, Passwords
<1>5. told \subseteq Passwords /\ overlap \in BOOLEAN /\ crossed \subseteq Staff /\ cut \subseteq Staff
  BY DEF UserInit
<1> QED
  BY <1>1, <1>2, <1>3, <1>4, <1>5 DEF UserTyped, UserTypeOK

\* No step of UserAdmin leaves the types, or moves a request on without what
\* its next label needs.
LEMMA StepTyped == UserTyped /\ [UserNext]_userVars => UserTyped'
<1> SUFFICES ASSUME UserTyped, [UserNext]_userVars PROVE UserTyped'
  OBVIOUS
<1>0. Call => calls' \in Passwords /\ calls + 1 \in Passwords
  BY UserAssumptions DEF Call, UserTyped, UserTypeOK, Passwords
<1>1. ASSUME NEW e \in Staff, Login(e) \/ Refresh(e) \/ Logout(e) \/ TokenExpires(e)
      PROVE  UserTyped'
  <2>1. cookies' \in [Staff -> {"none", "refresh", "both"}]
    BY <1>1 DEF Login, Refresh, Logout, TokenExpires, UserTyped, UserTypeOK
  <2> QED BY <1>0, <1>1, <2>1 DEF Login, Refresh, Logout, TokenExpires, UserTyped, UserTypeOK
<1>2. ASSUME NEW e \in Staff, NEW role \in Roles, SeedUser(e, role)
      PROVE  UserTyped'
  <2> DEFINE row == IF users[e] = None
                THEN [role |-> role, owner |-> None, password |-> 0, must_change |-> FALSE]
                ELSE [users[e] EXCEPT !.role = role, !.owner = None, !.password = 0]
  <2>1. 0 \in Passwords
    BY UserAssumptions DEF Passwords
  <2>2. users[e] \in DashboardUser \cup {None}
    BY DEF UserTyped, UserTypeOK
  <2>3. row \in DashboardUser
    BY <2>1, <2>2 DEF DashboardUser
  <2>4. users' = [users EXCEPT ![e] = row]
    BY <1>2 DEF SeedUser
  <2> HIDE DEF row
  <2>5. users' \in [Staff -> DashboardUser \cup {None}]
    BY <2>3, <2>4 DEF UserTyped, UserTypeOK
  <2>6. crossed' \subseteq Staff
    BY <1>2 DEF SeedUser, UserTyped, UserTypeOK
  <2>7. overlap' \in BOOLEAN
    BY <1>2 DEF SeedUser
  <2> QED BY <1>0, <1>2, <2>5, <2>6, <2>7 DEF SeedUser, UserTyped, UserTypeOK
<1>3. ASSUME NEW r \in UserRequests, NEW c \in Staff, NEW t \in Staff, NEW op \in AdminOps,
             NEW role \in Roles \cup {None}, NEW owner \in Owners \cup {None},
             op \in {"create", "update"} => role \in Roles,
             StartAdmin(r, c, op, t, role, owner)
      PROVE  UserTyped'
  <2> DEFINE s == [pc |-> "target", op |-> op,
                   no |-> IF op \in {"create", "reset"} THEN calls + 1 ELSE 0,
                   caller |-> c, target |-> t, role |-> role, owner |-> owner,
                   me |-> users[c], copy |-> None]
  <2>1. users[c] \in DashboardUser
    BY <1>3 DEF StartAdmin, CurrentUser, UserTyped, UserTypeOK
  <2>2. (IF op \in {"create", "reset"} THEN calls + 1 ELSE 0) \in Passwords
    BY <1>0, <1>3, UserAssumptions DEF StartAdmin, Passwords
  <2>3. s \in UserRequest /\ RequestOK(s)
    BY <1>3, <2>1, <2>2 DEF UserRequest, RequestOK, AdminOps
  <2>4. ureq' = [ureq EXCEPT ![r] = s]
    BY <1>3 DEF StartAdmin
  <2> HIDE DEF s
  <2>5. /\ ureq' \in [UserRequests -> UserRequest]
        /\ \A q \in UserRequests : RequestOK(ureq'[q])
    BY <2>3, <2>4, MoveRequest
  <2>6. overlap' \in BOOLEAN
    BY <1>3 DEF StartAdmin
  <2> QED BY <1>0, <1>3, <2>5, <2>6 DEF StartAdmin, UserTyped, UserTypeOK
<1>4. ASSUME NEW r \in UserRequests, NEW c \in Staff, StartChange(r, c)
      PROVE  UserTyped'
  <2> DEFINE s == [NoUserRequest EXCEPT !.pc = "commit", !.op = "password",
                        !.caller = c, !.target = c, !.copy = users[c]]
  <2>1. users[c] \in DashboardUser
    BY <1>4 DEF StartChange, CurrentUser, UserTyped, UserTypeOK
  <2>2. s \in UserRequest /\ RequestOK(s)
    <3>1. /\ s \in UserRequest
          /\ s.pc = "commit" /\ s.op = "password" /\ s.target = c /\ s.copy = users[c]
      BY <2>1, ClosedRequest DEF UserRequest
    <3> HIDE DEF s
    <3> QED BY <2>1, <3>1 DEF RequestOK, AdminOps
  <2>3. ureq' = [ureq EXCEPT ![r] = s]
    BY <1>4 DEF StartChange
  <2> HIDE DEF s
  <2>4. /\ ureq' \in [UserRequests -> UserRequest]
        /\ \A q \in UserRequests : RequestOK(ureq'[q])
    BY <2>2, <2>3, MoveRequest
  <2> QED BY <1>0, <1>4, <2>4 DEF StartChange, UserTyped, UserTypeOK
<1>5. ASSUME NEW r \in UserRequests, CloseUser(r)
      PROVE  /\ ureq' \in [UserRequests -> UserRequest]
             /\ \A q \in UserRequests : RequestOK(ureq'[q])
  BY <1>5, ClosedRequest, MoveRequest DEF CloseUser
<1>6. ASSUME NEW r \in UserRequests, ureq[r].target \in Staff,
             ureq' = [ureq EXCEPT ![r] = Telling(ureq[r])]
      PROVE  /\ ureq' \in [UserRequests -> UserRequest]
             /\ \A q \in UserRequests : RequestOK(ureq'[q])
  <2>1. ureq[r] \in UserRequest
    BY DEF UserTyped, UserTypeOK
  <2>2. Telling(ureq[r]) \in UserRequest /\ RequestOK(Telling(ureq[r]))
    <3> DEFINE n == Telling(ureq[r])
    <3>0. ureq[r].no \in Passwords /\ ureq[r].target \in Staff \cup {None}
      BY <2>1 DEF UserRequest
    <3>1. n \in UserRequest /\ n.pc = "tell" /\ n.target = ureq[r].target
      BY <3>0, ClosedRequest DEF Telling, UserRequest
    <3> HIDE DEF n
    <3>2. n \in UserRequest /\ RequestOK(n)
      BY <1>6, <3>1 DEF RequestOK
    <3> QED BY <3>2 DEF n
  <2> QED BY <1>6, <2>2, MoveRequest
<1>7. ASSUME NEW r \in UserRequests, LoadTarget(r)
      PROVE  UserTyped'
  <2> DEFINE s == ureq[r]
             n == [s EXCEPT !.pc = "commit", !.copy = LoadedTarget(s), !.me = None]
  <2>1. s \in UserRequest /\ RequestOK(s) /\ s.pc = "target"
    BY <1>7 DEF LoadTarget, UserTyped, UserTypeOK
  <2>2. LoadedTarget(s) \in DashboardUser \cup {None}
    BY <2>1 DEF LoadedTarget, RequestOK, UserTyped, UserTypeOK
  <2>3. ~RefusedTarget(s) => /\ s.op = "create" => LoadedTarget(s) = None
                             /\ s.op # "create" => LoadedTarget(s) # None
                             /\ s.op \in {"update", "delete"} => s.target # s.caller
    BY <2>1 DEF RefusedTarget, RequestOK, AdminOps
  <2>4. ~RefusedTarget(s) => n \in UserRequest /\ RequestOK(n)
    BY <2>1, <2>2, <2>3 DEF RequestOK, UserRequest, AdminOps
  <2>5. CASE RefusedTarget(s)
    BY <1>5, <1>7, <2>5 DEF LoadTarget, UserTyped, UserTypeOK
  <2>6. CASE ~RefusedTarget(s)
    <3>1. ureq' = [ureq EXCEPT ![r] = n]
      BY <1>7, <2>6 DEF LoadTarget, UserTyped, UserTypeOK
    <3>2. /\ ureq' \in [UserRequests -> UserRequest]
          /\ \A q \in UserRequests : RequestOK(ureq'[q])
      BY <2>4, <2>6, <3>1, MoveRequest
    <3> QED BY <1>7, <3>2 DEF LoadTarget, UserTyped, UserTypeOK
  <2> QED BY <2>5, <2>6
<1>8. ASSUME NEW r \in UserRequests, CommitCreate(r)
      PROVE  UserTyped'
  <2> DEFINE s == ureq[r]
             row == [role |-> s.role, owner |-> s.owner, password |-> s.no,
                     must_change |-> TRUE]
  <2>1. s \in UserRequest /\ s.target \in Staff /\ s.role \in Roles
    BY <1>8 DEF CommitCreate, RequestOK, UserTyped, UserTypeOK
  <2>2. row \in DashboardUser
    BY <2>1 DEF UserRequest, DashboardUser
  <2>3. /\ users' \in [Staff -> DashboardUser \cup {None}] /\ crossed' \subseteq Staff
        /\ ureq' \in [UserRequests -> UserRequest]
        /\ \A q \in UserRequests : RequestOK(ureq'[q])
    <3>1. CASE users[s.target] = None
      BY <1>6, <1>8, <2>1, <2>2, <3>1, WriteUserTyped DEF CommitCreate
    <3>2. CASE users[s.target] # None
      BY <1>5, <1>8, <3>2 DEF CommitCreate, UserTyped, UserTypeOK
    <3> QED BY <3>1, <3>2
  <2> QED BY <1>8, <2>3 DEF CommitCreate, UserTyped, UserTypeOK
<1>9. ASSUME NEW r \in UserRequests, CommitReset(r)
      PROVE  UserTyped'
  <2> DEFINE s == ureq[r]
  <2>1. /\ s \in UserRequest /\ s.target \in Staff /\ s.copy \in DashboardUser
        /\ s.no \in Passwords
    BY <1>9 DEF CommitReset, RequestOK, UserTyped, UserTypeOK, UserRequest, AdminOps
  <2>2. /\ users' \in [Staff -> DashboardUser \cup {None}] /\ crossed' \subseteq Staff
        /\ ureq' \in [UserRequests -> UserRequest]
        /\ \A q \in UserRequests : RequestOK(ureq'[q])
    <3>1. CASE users[s.target] # None
      <4>1. users[s.target] \in DashboardUser
        BY <2>1, <3>1 DEF UserTyped, UserTypeOK
      <4>2. SetPassword(users[s.target], s.copy, s.no, TRUE) \in DashboardUser
        BY <2>1, <4>1, SetPasswordUser
      <4> QED BY <1>6, <1>9, <2>1, <3>1, <4>2, WriteUserTyped DEF CommitReset
    <3>2. CASE users[s.target] = None
      BY <1>5, <1>9, <3>2 DEF CommitReset, UserTyped, UserTypeOK
    <3> QED BY <3>1, <3>2
  <2> QED BY <1>9, <2>2 DEF CommitReset, UserTyped, UserTypeOK
<1>10. ASSUME NEW r \in UserRequests, CommitChange(r)
       PROVE  UserTyped'
  <2> DEFINE s == ureq[r]
  <2>1. s \in UserRequest /\ s.target \in Staff /\ s.copy \in DashboardUser
    BY <1>10 DEF CommitChange, RequestOK, UserTyped, UserTypeOK
  <2>2. 0 \in Passwords
    BY UserAssumptions DEF Passwords
  <2>3. users' \in [Staff -> DashboardUser \cup {None}] /\ crossed' \subseteq Staff
    <3>1. CASE users[s.target] # None
      <4>1. users[s.target] \in DashboardUser
        BY <2>1, <3>1 DEF UserTyped, UserTypeOK
      <4>2. SetPassword(users[s.target], s.copy, 0, FALSE) \in DashboardUser
        BY <2>1, <2>2, <4>1, SetPasswordUser
      <4> QED BY <1>10, <2>1, <3>1, <4>2, WriteUserTyped DEF CommitChange
    <3>2. CASE users[s.target] = None
      BY <1>10, <3>2 DEF CommitChange, UserTyped, UserTypeOK
    <3> QED BY <3>1, <3>2
  <2>4. /\ ureq' \in [UserRequests -> UserRequest]
        /\ \A q \in UserRequests : RequestOK(ureq'[q])
    BY <1>5, <1>10 DEF CommitChange
  <2> QED BY <1>10, <2>3, <2>4 DEF CommitChange, UserTyped, UserTypeOK
<1>11. ASSUME NEW r \in UserRequests, CommitUpdate(r)
       PROVE  UserTyped'
  <2> DEFINE s == ureq[r]
             set == [s.copy EXCEPT !.role = s.role, !.owner = NewOwner(s)]
  <2>1. /\ s \in UserRequest /\ s.target \in Staff /\ s.copy \in DashboardUser
        /\ s.role \in Roles
    BY <1>11 DEF CommitUpdate, RequestOK, UserTyped, UserTypeOK, AdminOps
  <2>2. NewOwner(s) \in Owners \cup {None}
    BY <2>1 DEF NewOwner, UserRequest, DashboardUser
  <2>3. set \in DashboardUser
    BY <2>1, <2>2 DEF DashboardUser
  <2>4. users' \in [Staff -> DashboardUser \cup {None}] /\ crossed' \subseteq Staff
    <3>1. CASE users[s.target] # None
      <4>1. users[s.target] \in DashboardUser
        BY <2>1, <3>1 DEF UserTyped, UserTypeOK
      <4>2. Flushed(users[s.target], s.copy, set) \in DashboardUser
        BY <2>1, <2>3, <4>1, FlushedUser
      <4> QED BY <1>11, <2>1, <3>1, <4>2, WriteUserTyped DEF CommitUpdate
    <3>2. CASE users[s.target] = None
      BY <1>11, <3>2 DEF CommitUpdate, UserTyped, UserTypeOK
    <3> QED BY <3>1, <3>2
  <2>5. /\ ureq' \in [UserRequests -> UserRequest]
        /\ \A q \in UserRequests : RequestOK(ureq'[q])
    BY <1>5, <1>11 DEF CommitUpdate
  <2> QED BY <1>11, <2>4, <2>5 DEF CommitUpdate, UserTyped, UserTypeOK
<1>12. ASSUME NEW r \in UserRequests, CommitDelete(r)
       PROVE  UserTyped'
  <2>1. ureq[r].target \in Staff
    BY <1>12 DEF CommitDelete, RequestOK, UserTyped
  <2>2. users' \in [Staff -> DashboardUser \cup {None}] /\ crossed' \subseteq Staff
    BY <1>12, <2>1, WriteUserTyped DEF CommitDelete
  <2>3. /\ ureq' \in [UserRequests -> UserRequest]
        /\ \A q \in UserRequests : RequestOK(ureq'[q])
    BY <1>5, <1>12 DEF CommitDelete
  <2> QED BY <1>12, <2>2, <2>3 DEF CommitDelete, UserTyped, UserTypeOK
<1>13. ASSUME NEW r \in UserRequests, Tell(r)
       PROVE  UserTyped'
  <2>1. ureq[r].no \in Passwords
    BY DEF UserTyped, UserTypeOK, UserRequest
  <2>2. /\ ureq' \in [UserRequests -> UserRequest]
        /\ \A q \in UserRequests : RequestOK(ureq'[q])
    BY <1>5, <1>13 DEF Tell
  <2> QED BY <1>13, <2>1, <2>2 DEF Tell, UserTyped, UserTypeOK
<1>14. CASE UserCrash
  <2>1. cut' \subseteq Staff
    <3>1. \A q \in UserRequests : ureq[q].pc # "idle" => ureq[q].target \in Staff
      BY DEF UserTyped, UserTypeOK, RequestOK, UserRequest
    <3> QED BY <1>14, <3>1 DEF UserCrash, UserTyped, UserTypeOK
  <2>2. /\ ureq' \in [UserRequests -> UserRequest]
        /\ \A q \in UserRequests : RequestOK(ureq'[q])
    BY <1>14, ClosedRequest DEF UserCrash
  <2>3. ucrashes' \in 0 .. MaxUserCrashes
    BY <1>14, UserAssumptions DEF UserCrash, UserTyped, UserTypeOK
  <2> QED BY <1>14, <2>1, <2>2, <2>3 DEF UserCrash, UserTyped, UserTypeOK
<1>15. CASE UNCHANGED userVars
  BY <1>15 DEF userVars, UserTyped, UserTypeOK
<1>16. ASSUME NEW r \in UserRequests, NEW c \in Staff, NEW t \in Staff,
              NEW op \in {"reset", "delete"}, StartAdmin(r, c, op, t, None, None)
       PROVE  UserTyped'
  BY <1>3, <1>16 DEF AdminOps
<1>17. ASSUME NEW r \in UserRequests, NEW c \in Staff, NEW t \in Staff,
              NEW op \in {"create", "update"}, NEW role \in Roles,
              NEW owner \in Owners \cup {None}, StartAdmin(r, c, op, t, role, owner)
       PROVE  UserTyped'
  BY <1>3, <1>17 DEF AdminOps
<1> QED
  BY <1>1, <1>2, <1>4, <1>7, <1>8, <1>9, <1>10, <1>11, <1>12, <1>13, <1>14, <1>15,
     <1>16, <1>17 DEF UserNext

\* Every account, cookie and open request of the service keeps its type, and
\* a request is never moved on without the rows its next step needs
\* (api/v1/endpoints/admin.py and auth.py).
THEOREM UserTypeCorrect == UserSpec => []UserTypeOK
<1>1. UserTyped => UserTypeOK
  BY DEF UserTyped
<1> QED BY <1>1, InitTyped, StepTyped, PTL DEF UserSpec

-----------------------------------------------------------------------------
(* The last superadmin                                                      *)

IsSuper(e) == users[e] # None /\ users[e].role = "superadmin"

\* Unless requests have overlapped, at most one administers, and the caller it
\* has loaded is still a superadmin: no one else could change that.
AdminInv ==
    overlap \/ /\ \E e \in Staff : IsSuper(e)
               /\ \A q, r \in UserRequests : Administers(q) /\ Administers(r) => q = r
               /\ \A r \in UserRequests : Administers(r) => IsSuper(ureq[r].caller)

\* A step that demotes nobody and starts no administrative request.
LEMMA AdminKept ==
    ASSUME UserTyped, AdminInv, ~overlap' => ~overlap,
           ~overlap' => \A e \in Staff : IsSuper(e) => IsSuper(e)',
           \A r \in UserRequests :
                Administers(r)' => Administers(r) /\ ureq'[r].caller = ureq[r].caller
    PROVE  AdminInv'
<1> SUFFICES ASSUME ~overlap' PROVE AdminInv'
  BY DEF AdminInv
<1>1. ~overlap
  OBVIOUS
<1>2. (\E e \in Staff : IsSuper(e))'
  BY <1>1 DEF AdminInv
<1>3. (\A q, r \in UserRequests : Administers(q) /\ Administers(r) => q = r)'
  BY <1>1 DEF AdminInv
<1>4. (\A r \in UserRequests : Administers(r) => IsSuper(ureq[r].caller))'
  <2> SUFFICES ASSUME NEW r \in UserRequests, Administers(r)'
               PROVE  IsSuper(ureq[r].caller)'
    OBVIOUS
  <2>1. Administers(r) /\ ureq'[r].caller = ureq[r].caller
    OBVIOUS
  <2>2. ureq[r].caller \in Staff
    BY <2>1 DEF Administers, Working, UserTyped, RequestOK
  <2>3. IsSuper(ureq[r].caller)
    BY <1>1, <2>1 DEF AdminInv
  <2>4. IsSuper(ureq[r].caller)'
    <3> DEFINE c == ureq[r].caller
    <3>1. users'[c] # None /\ users'[c].role = "superadmin"
      BY <2>2, <2>3 DEF IsSuper
    <3> QED BY <2>1, <3>1 DEF IsSuper
  <2> QED BY <2>4
<1> QED BY <1>2, <1>3, <1>4 DEF AdminInv

\* A closed request administers nothing.
LEMMA ClosedAdministers ==
    ASSUME UserTyped, NEW r \in UserRequests, CloseUser(r)
    PROVE  /\ ~Administers(r)'
           /\ \A q \in UserRequests \ {r} : ureq'[q] = ureq[q]
           /\ \A q \in UserRequests :
                Administers(q)' => Administers(q) /\ ureq'[q].caller = ureq[q].caller
BY DEF CloseUser, UserTyped, UserTypeOK, Administers, Working, NoUserRequest

\* A request that goes on to mail its password administers nothing.
LEMMA TellingAdministers ==
    ASSUME UserTyped, NEW r \in UserRequests,
           ureq' = [ureq EXCEPT ![r] = Telling(ureq[r])]
    PROVE  \A q \in UserRequests :
                Administers(q)' => Administers(q) /\ ureq'[q].caller = ureq[q].caller
<1>1. ureq'[r].pc = "tell"
  BY DEF Telling, NoUserRequest, UserTyped, UserTypeOK
<1> QED BY <1>1 DEF UserTyped, UserTypeOK, Administers, Working

\* A password change keeps every role.
LEMMA PasswordKeepsRoles ==
    ASSUME UserTyped, NEW r \in UserRequests, NEW t \in Staff, users[t] # None,
           NEW copy \in DashboardUser, NEW password \in Passwords, NEW flag \in BOOLEAN,
           WriteUser(r, t, SetPassword(users[t], copy, password, flag))
    PROVE  \A e \in Staff : IsSuper(e) => IsSuper(e)'
<1> DEFINE row == SetPassword(users[t], copy, password, flag)
<1>1. users[t] \in DashboardUser
  BY DEF UserTyped, UserTypeOK
<1>2. row \in DashboardUser /\ row.role = users[t].role
  BY <1>1, SetPasswordUser
<1>3. users' = [users EXCEPT ![t] = row]
  BY DEF WriteUser
<1> HIDE DEF row
<1>4. \A e \in Staff : users[e] # None /\ users[e].role = "superadmin"
                       => users'[e] # None /\ users'[e].role = "superadmin"
  BY <1>2, <1>3, UserNotNone DEF UserTyped, UserTypeOK
<1> QED BY <1>4 DEF IsSuper

\* An administrative request that is alone and writes its target's row leaves
\* its caller the superadmin it was when the request began.
LEMMA AloneRemains ==
    ASSUME UserTyped, AdminInv, NEW r \in UserRequests, Administers(r), NEW row,
           overlap' = overlap, ureq[r].target # ureq[r].caller,
           WriteUser(r, ureq[r].target, row), CloseUser(r)
    PROVE  AdminInv'
<1> SUFFICES ASSUME ~overlap' PROVE AdminInv'
  BY DEF AdminInv
<1> DEFINE c == ureq[r].caller
<1>1. c \in Staff /\ users[c] # None /\ users[c].role = "superadmin"
  BY DEF AdminInv, Administers, Working, UserTyped, RequestOK, IsSuper
<1>2. users'[c] = users[c]
  BY <1>1 DEF WriteUser, UserTyped, UserTypeOK
<1>3. (\E e \in Staff : IsSuper(e))'
  BY <1>1, <1>2 DEF IsSuper
<1>4. \A q \in UserRequests : ~Administers(q)'
  BY ClosedAdministers DEF AdminInv
<1> QED BY <1>3, <1>4 DEF AdminInv

LEMMA AdminStep == UserTyped /\ AdminInv /\ [UserNext]_userVars => AdminInv'
<1> SUFFICES ASSUME UserTyped, AdminInv, [UserNext]_userVars PROVE AdminInv'
  OBVIOUS
<1>0. ASSUME users' = users PROVE \A e \in Staff : IsSuper(e) => IsSuper(e)'
  BY <1>0 DEF IsSuper
<1>1. ASSUME NEW e \in Staff, Login(e) \/ Refresh(e) \/ Logout(e) \/ TokenExpires(e)
      PROVE  AdminInv'
  <2>1. users' = users /\ ureq' = ureq /\ overlap' = overlap
    BY <1>1 DEF Login, Refresh, Logout, TokenExpires
  <2>2. \A r \in UserRequests :
            Administers(r)' => Administers(r) /\ ureq'[r].caller = ureq[r].caller
    BY <2>1 DEF Administers, Working
  <2> QED BY <1>0, <2>1, <2>2, AdminKept
<1>2. ASSUME NEW t \in Staff, NEW role \in Roles, SeedUser(t, role)
      PROVE  AdminInv'
  <2>1. ureq' = ureq /\ (~overlap' => ~overlap)
    BY <1>2 DEF SeedUser
  <2>2. \A r \in UserRequests :
            Administers(r)' => Administers(r) /\ ureq'[r].caller = ureq[r].caller
    BY <2>1 DEF Administers, Working
  <2>3. ASSUME ~overlap', NEW e \in Staff, IsSuper(e) PROVE IsSuper(e)'
    <3>1. CASE e # t
      <4>1. users'[e] = users[e]
        BY <1>2, <3>1 DEF SeedUser, UserTyped, UserTypeOK
      <4> QED BY <2>3, <4>1 DEF IsSuper
    <3>2. CASE e = t
      <4>1. role = "superadmin" /\ users[t] # None
        BY <1>2, <2>3, <3>2 DEF SeedUser, IsSuper
      <4>2. users[t] \in DashboardUser
        BY <4>1 DEF UserTyped, UserTypeOK
      <4>3. 0 \in Passwords
        BY UserAssumptions DEF Passwords
      <4> DEFINE row == [users[t] EXCEPT !.role = role, !.owner = None, !.password = 0]
      <4>4. row \in DashboardUser /\ row.role = role
        BY <4>2, <4>3 DEF DashboardUser
      <4>5. users'[t] = row
        BY <1>2, <4>1 DEF SeedUser, UserTyped, UserTypeOK
      <4> HIDE DEF row
      <4> QED BY <3>2, <4>1, <4>4, <4>5, UserNotNone DEF IsSuper
    <3> QED BY <3>1, <3>2
  <2> QED BY <2>1, <2>2, <2>3, AdminKept
<1>3. ASSUME NEW r \in UserRequests, NEW c \in Staff, NEW t \in Staff, NEW op \in AdminOps,
             NEW role \in Roles \cup {None}, NEW owner \in Owners \cup {None},
             StartAdmin(r, c, op, t, role, owner)
      PROVE  AdminInv'
  <2> SUFFICES ASSUME ~overlap' PROVE AdminInv'
    BY DEF AdminInv
  <2>1. ~overlap /\ \A q \in UserRequests \ {r} : ~Administers(q)
    BY <1>3 DEF StartAdmin
  <2>2. IsSuper(c) /\ users' = users
    BY <1>3 DEF StartAdmin, CurrentUser, IsSuper
  <2>3. ureq'[r].caller = c /\ \A q \in UserRequests \ {r} : ureq'[q] = ureq[q]
    BY <1>3 DEF StartAdmin, UserTyped, UserTypeOK
  <2>4. \A q \in UserRequests \ {r} : ~Administers(q)'
    BY <2>1, <2>3 DEF Administers, Working
  <2>5. IsSuper(c)'
    BY <2>2 DEF IsSuper
  <2>6. (\E e \in Staff : IsSuper(e))'
    BY <2>2 DEF IsSuper
  <2>7. \A q \in UserRequests : Administers(q)' => IsSuper(ureq[q].caller)'
    BY <2>2, <2>3, <2>4 DEF IsSuper
  <2> QED BY <2>4, <2>6, <2>7 DEF AdminInv
<1>4. ASSUME NEW r \in UserRequests, NEW c \in Staff, StartChange(r, c)
      PROVE  AdminInv'
  <2>1. users' = users /\ overlap' = overlap
    BY <1>4 DEF StartChange
  <2>2. ureq'[r].op = "password" /\ \A q \in UserRequests \ {r} : ureq'[q] = ureq[q]
    BY <1>4 DEF StartChange, NoUserRequest, UserTyped, UserTypeOK
  <2>3. \A q \in UserRequests :
            Administers(q)' => Administers(q) /\ ureq'[q].caller = ureq[q].caller
    BY <2>2 DEF Administers, Working, AdminOps
  <2> QED BY <1>0, <2>1, <2>3, AdminKept
<1>5. ASSUME NEW r \in UserRequests, LoadTarget(r)
      PROVE  AdminInv'
  <2>1. users' = users /\ overlap' = overlap
    BY <1>5 DEF LoadTarget
  <2>2. \A q \in UserRequests :
            Administers(q)' => Administers(q) /\ ureq'[q].caller = ureq[q].caller
    <3>1. CASE RefusedTarget(ureq[r])
      BY <1>5, <3>1, ClosedAdministers DEF LoadTarget
    <3>2. CASE ~RefusedTarget(ureq[r])
      BY <1>5, <3>2 DEF LoadTarget, UserTyped, UserTypeOK, UserRequest, Administers, Working
    <3> QED BY <3>1, <3>2
  <2> QED BY <1>0, <2>1, <2>2, AdminKept
<1>6. ASSUME NEW r \in UserRequests, CommitCreate(r)
      PROVE  AdminInv'
  <2>1. CASE users[ureq[r].target] = None
    <3>1. overlap' = overlap /\ ureq' = [ureq EXCEPT ![r] = Telling(ureq[r])]
      BY <1>6, <2>1 DEF CommitCreate
    <3>2. \A e \in Staff : users[e] # None => users'[e] = users[e]
      BY <1>6, <2>1 DEF CommitCreate, WriteUser, UserTyped, UserTypeOK
    <3>3. \A e \in Staff : IsSuper(e) => IsSuper(e)'
      BY <3>2 DEF IsSuper
    <3> QED BY <3>1, <3>3, TellingAdministers, AdminKept
  <2>2. CASE users[ureq[r].target] # None
    <3>1. users' = users /\ overlap' = overlap /\ CloseUser(r)
      BY <1>6, <2>2 DEF CommitCreate
    <3> QED BY <1>0, <3>1, ClosedAdministers, AdminKept
  <2> QED BY <2>1, <2>2
<1>7. ASSUME NEW r \in UserRequests, CommitReset(r)
      PROVE  AdminInv'
  <2> DEFINE s == ureq[r]
  <2>1. s.target \in Staff /\ s.copy \in DashboardUser /\ s.no \in Passwords
    BY <1>7 DEF CommitReset, RequestOK, UserTyped, UserTypeOK, UserRequest, AdminOps
  <2>2. CASE users[s.target] # None
    <3>1. /\ overlap' = overlap /\ ureq' = [ureq EXCEPT ![r] = Telling(s)]
          /\ WriteUser(r, s.target, SetPassword(users[s.target], s.copy, s.no, TRUE))
      BY <1>7, <2>2 DEF CommitReset
    <3>2. \A e \in Staff : IsSuper(e) => IsSuper(e)'
      BY <2>1, <2>2, <3>1, PasswordKeepsRoles
    <3> QED BY <3>1, <3>2, TellingAdministers, AdminKept
  <2>3. CASE users[s.target] = None
    <3>1. users' = users /\ overlap' = overlap /\ CloseUser(r)
      BY <1>7, <2>3 DEF CommitReset
    <3> QED BY <1>0, <3>1, ClosedAdministers, AdminKept
  <2> QED BY <2>2, <2>3
<1>8. ASSUME NEW r \in UserRequests, CommitChange(r)
      PROVE  AdminInv'
  <2> DEFINE s == ureq[r]
  <2>1. s.target \in Staff /\ s.copy \in DashboardUser
    BY <1>8 DEF CommitChange, RequestOK, UserTyped
  <2>2. 0 \in Passwords
    BY UserAssumptions DEF Passwords
  <2>3. overlap' = overlap /\ CloseUser(r)
    BY <1>8 DEF CommitChange
  <2>4. \A e \in Staff : IsSuper(e) => IsSuper(e)'
    <3>1. CASE users[s.target] # None
      <4>1. WriteUser(r, s.target, SetPassword(users[s.target], s.copy, 0, FALSE))
        BY <1>8, <3>1 DEF CommitChange
      <4> QED BY <2>1, <2>2, <3>1, <4>1, PasswordKeepsRoles
    <3>2. CASE users[s.target] = None
      BY <1>0, <1>8, <3>2 DEF CommitChange
    <3> QED BY <3>1, <3>2
  <2> QED BY <2>3, <2>4, ClosedAdministers, AdminKept
<1>9. ASSUME NEW r \in UserRequests, CommitUpdate(r)
      PROVE  AdminInv'
  <2> DEFINE s == ureq[r]
             set == [s.copy EXCEPT !.role = s.role, !.owner = NewOwner(s)]
  <2>1. Administers(r) /\ s.target # s.caller
    BY <1>9 DEF CommitUpdate, Administers, Working, AdminOps, UserTyped, RequestOK
  <2>2. overlap' = overlap /\ CloseUser(r)
    BY <1>9 DEF CommitUpdate
  <2>3. CASE users[s.target] # None
    <3>1. WriteUser(r, s.target, Flushed(users[s.target], s.copy, set))
      BY <1>9, <2>3 DEF CommitUpdate
    <3> HIDE DEF set
    <3> QED BY <2>1, <2>2, <3>1, AloneRemains
  <2>4. CASE users[s.target] = None
    <3>1. users' = users
      BY <1>9, <2>4 DEF CommitUpdate
    <3> QED BY <1>0, <2>2, <3>1, ClosedAdministers, AdminKept
  <2> QED BY <2>3, <2>4
<1>10. ASSUME NEW r \in UserRequests, CommitDelete(r)
       PROVE  AdminInv'
  <2>1. Administers(r) /\ ureq[r].target # ureq[r].caller
    BY <1>10 DEF CommitDelete, Administers, Working, AdminOps, UserTyped, RequestOK
  <2>2. overlap' = overlap /\ CloseUser(r) /\ WriteUser(r, ureq[r].target, None)
    BY <1>10 DEF CommitDelete
  <2> QED BY <2>1, <2>2, AloneRemains
<1>11. ASSUME NEW r \in UserRequests, Tell(r)
       PROVE  AdminInv'
  <2>1. users' = users /\ overlap' = overlap /\ CloseUser(r)
    BY <1>11 DEF Tell
  <2> QED BY <1>0, <2>1, ClosedAdministers, AdminKept
<1>12. CASE UserCrash
  <2>1. users' = users /\ overlap' = overlap
    BY <1>12 DEF UserCrash
  <2>2. \A q \in UserRequests : ~Administers(q)'
    BY <1>12 DEF UserCrash, Administers, Working, NoUserRequest
  <2> QED BY <1>0, <2>1, <2>2, AdminKept
<1>13. CASE UNCHANGED userVars
  <2>1. users' = users /\ ureq' = ureq /\ overlap' = overlap
    BY <1>13 DEF userVars
  <2>2. \A r \in UserRequests :
            Administers(r)' => Administers(r) /\ ureq'[r].caller = ureq[r].caller
    BY <2>1 DEF Administers, Working
  <2> QED BY <1>0, <2>1, <2>2, AdminKept
<1> QED
  BY <1>1, <1>2, <1>3, <1>4, <1>5, <1>6, <1>7, <1>8, <1>9, <1>10, <1>11, <1>12, <1>13
  DEF UserNext, AdminOps

\* A superadmin always remains unless administrative requests overlapped or
\* the seed script demoted one: the own-account check of update_user and
\* delete_user is enough for requests that run one after the other, whatever
\* the number of accounts (api/v1/endpoints/admin.py).
THEOREM SuperadminKept == UserSpec => []SuperadminRemains
<1>1. UserInit => AdminInv
  BY DEF UserInit, AdminInv, IsSuper, Administers, Working, NoUserRequest
<1>2. AdminInv => SuperadminRemains
  BY DEF AdminInv, IsSuper, SuperadminRemains
<1> QED BY <1>1, <1>2, InitTyped, StepTyped, AdminStep, PTL DEF UserSpec

-----------------------------------------------------------------------------
(* Temporary passwords                                                      *)

\* The copies a request holds are those of the table, unless someone wrote
\* the row in between.
CopyOK(r) ==
    LET s == ureq[r]
    IN  /\ s.pc = "commit" /\ s.copy # None =>
            s.target \in crossed \/ users[s.target] = s.copy
        /\ s.pc = "target" => s.caller \in crossed \/ users[s.caller] = s.me

Tells(r, e) ==
    ureq[r].pc = "tell" /\ ureq[r].no = users[e].password /\ ureq[r].target = e

TempOK(e) ==
    users[e] # None /\ users[e].password # 0
        => /\ users[e].must_change \/ e \in crossed
           /\ users[e].password \in told \/ e \in cut \/ \E r \in UserRequests : Tells(r, e)

TempInv == (\A e \in Staff : TempOK(e)) /\ (\A r \in UserRequests : CopyOK(r))

\* A step that writes rows only under requests it notes as crossed, and
\* closes a request or leaves it as it is, leaves no stale copy unnoticed.
LEMMA CopiesKept ==
    ASSUME UserTyped, TempInv, crossed \subseteq crossed',
           \A q \in UserRequests :
              \/ ureq'[q].pc \in {"idle", "tell"}
              \/ /\ ureq'[q] = ureq[q]
                 /\ \A e \in Staff : \/ users'[e] = users[e]
                                     \/ e \in crossed'
                                     \/ ~HoldsUser(q, e)
    PROVE  (\A r \in UserRequests : CopyOK(r))'
<1> SUFFICES ASSUME NEW r \in UserRequests PROVE CopyOK(r)'
  OBVIOUS
<1>1. CASE ureq'[r].pc \in {"idle", "tell"}
  BY <1>1 DEF CopyOK
<1>2. CASE ureq'[r] = ureq[r] /\ \A e \in Staff : \/ users'[e] = users[e]
                                                  \/ e \in crossed'
                                                  \/ ~HoldsUser(r, e)
  <2>1. ureq[r].pc = "commit" => ureq[r].target \in Staff
    BY DEF UserTyped, RequestOK
  <2>2. ureq[r].pc = "target" => ureq[r].caller \in Staff
    BY DEF UserTyped, RequestOK
  <2> QED BY <1>2, <2>1, <2>2 DEF CopyOK, HoldsUser, TempInv
<1> QED BY <1>1, <1>2

\* An account whose password and flag a step leaves alone keeps its promise if
\* no request forgets to tell.
LEMMA TempKept ==
    ASSUME UserTyped, NEW e \in Staff, TempOK(e),
           crossed \subseteq crossed', told \subseteq told', cut \subseteq cut',
           users'[e] # None => /\ users[e] # None
                               /\ users'[e].password = users[e].password
                               /\ users'[e].must_change = users[e].must_change,
           \A q \in UserRequests : ureq[q].pc = "tell" =>
              ureq'[q] = ureq[q] \/ ureq[q].no \in told' \/ ureq[q].target \in cut'
    PROVE  TempOK(e)'
<1> SUFFICES ASSUME users'[e] # None /\ users'[e].password # 0
             PROVE  /\ users'[e].must_change \/ e \in crossed'
                    /\ \/ users'[e].password \in told' \/ e \in cut'
                       \/ \E r \in UserRequests : Tells(r, e)'
  BY DEF TempOK
<1>1. users[e] # None /\ users[e].password # 0
  OBVIOUS
<1>2. users'[e].must_change \/ e \in crossed'
  BY <1>1, Zenon DEF TempOK
<1>3. ASSUME NEW r \in UserRequests, Tells(r, e)
      PROVE  users'[e].password \in told' \/ e \in cut' \/ Tells(r, e)'
  BY <1>3, <1>1 DEF Tells
<1> QED BY <1>1, <1>2, <1>3 DEF TempOK

\* A request's write of one row, after which the request is over but for the
\* telling.
LEMMA WriteKeepsTemp ==
    ASSUME UserTyped, TempInv, NEW r \in UserRequests, NEW t \in Staff,
           NEW row \in DashboardUser \cup {None}, WriteUser(r, t, row),
           ureq[r].pc = "commit", ureq'[r].pc \in {"idle", "tell"},
           \A q \in UserRequests \ {r} : ureq'[q] = ureq[q],
           told' = told, cut' = cut, TempOK(t)'
    PROVE  TempInv'
<1>1. \A e \in Staff : e # t => users'[e] = users[e]
  BY DEF WriteUser, UserTyped, UserTypeOK
<1>2. crossed \subseteq crossed' /\ \A q \in UserRequests \ {r} : HoldsUser(q, t) => t \in crossed'
  BY DEF WriteUser
<1>3. (\A q \in UserRequests : CopyOK(q))'
  BY <1>1, <1>2, CopiesKept
<1>4. ASSUME NEW e \in Staff PROVE TempOK(e)'
  <2>1. CASE e = t
    BY <2>1
  <2>2. CASE e # t
    BY <1>1, <1>2, <2>2, TempKept DEF TempInv
  <2> QED BY <2>1, <2>2
<1> QED BY <1>3, <1>4 DEF TempInv

\* A step that writes no account and closes or leaves each request.
LEMMA NoWriteKeepsTemp ==
    ASSUME UserTyped, TempInv, users' = users, crossed' = crossed,
           told \subseteq told', cut \subseteq cut',
           \A q \in UserRequests :
              /\ ureq'[q].pc = "idle" \/ ureq'[q] = ureq[q]
              /\ ureq[q].pc = "tell" =>
                    ureq'[q] = ureq[q] \/ ureq[q].no \in told' \/ ureq[q].target \in cut'
    PROVE  TempInv'
<1>1. (\A q \in UserRequests : CopyOK(q))'
  BY CopiesKept
<1>2. ASSUME NEW e \in Staff PROVE TempOK(e)'
  BY TempKept DEF TempInv
<1> QED BY <1>1, <1>2 DEF TempInv

\* A request that takes up a copy of a row as it is in the table.
LEMMA LoadKeepsTemp ==
    ASSUME UserTyped, TempInv, NEW r \in UserRequests,
           users' = users, crossed' = crossed, told' = told, cut' = cut,
           ureq[r].pc # "tell", CopyOK(r)',
           \A q \in UserRequests \ {r} : ureq'[q] = ureq[q]
    PROVE  TempInv'
<1>1. ASSUME NEW q \in UserRequests PROVE CopyOK(q)'
  BY DEF TempInv, CopyOK
<1>2. ASSUME NEW e \in Staff PROVE TempOK(e)'
  BY TempKept DEF TempInv
<1> QED BY <1>1, <1>2 DEF TempInv

LEMMA TempStep == UserTyped /\ TempInv /\ [UserNext]_userVars => TempInv'
<1> SUFFICES ASSUME UserTyped, TempInv, [UserNext]_userVars PROVE TempInv'
  OBVIOUS
<1>0. ASSUME NEW r \in UserRequests, CloseUser(r)
      PROVE  ureq'[r].pc = "idle" /\ \A q \in UserRequests \ {r} : ureq'[q] = ureq[q]
  BY <1>0 DEF CloseUser, NoUserRequest, UserTyped, UserTypeOK
<1>1. ASSUME NEW e \in Staff, Login(e) \/ Refresh(e) \/ Logout(e) \/ TokenExpires(e)
      PROVE  TempInv'
  BY <1>1, NoWriteKeepsTemp DEF Login, Refresh, Logout, TokenExpires
<1>2. ASSUME NEW t \in Staff, NEW role \in Roles, SeedUser(t, role)
      PROVE  TempInv'
  <2>1. ureq' = ureq /\ told' = told /\ cut' = cut
    BY <1>2 DEF SeedUser
  <2>2. \A e \in Staff : e # t => users'[e] = users[e]
    BY <1>2 DEF SeedUser, UserTyped, UserTypeOK
  <2>3. crossed \subseteq crossed' /\ \A q \in UserRequests : HoldsUser(q, t) => t \in crossed'
    BY <1>2 DEF SeedUser
  <2>4. users'[t].password = 0
    <3>1. CASE users[t] = None
      BY <1>2, <3>1 DEF SeedUser, UserTyped, UserTypeOK
    <3>2. CASE users[t] # None
      <4>1. users[t] \in DashboardUser
        BY <3>2 DEF UserTyped, UserTypeOK
      <4> DEFINE row == [users[t] EXCEPT !.role = role, !.owner = None, !.password = 0]
      <4>2. row.password = 0
        BY <4>1 DEF DashboardUser
      <4>3. users'[t] = row
        BY <1>2, <3>2 DEF SeedUser, UserTyped, UserTypeOK
      <4> HIDE DEF row
      <4> QED BY <4>2, <4>3
    <3> QED BY <3>1, <3>2
  <2>5. (\A q \in UserRequests : CopyOK(q))'
    BY <2>1, <2>2, <2>3, CopiesKept
  <2>6. ASSUME NEW e \in Staff PROVE TempOK(e)'
    <3>1. CASE e = t
      BY <2>4, <3>1 DEF TempOK
    <3>2. CASE e # t
      BY <2>1, <2>2, <2>3, <3>2, TempKept DEF TempInv
    <3> QED BY <3>1, <3>2
  <2> QED BY <2>5, <2>6 DEF TempInv
<1>3. ASSUME NEW r \in UserRequests, NEW c \in Staff, NEW t \in Staff, NEW op \in AdminOps,
             NEW role \in Roles \cup {None}, NEW owner \in Owners \cup {None},
             StartAdmin(r, c, op, t, role, owner)
      PROVE  TempInv'
  <2>1. /\ ureq'[r].pc = "target" /\ ureq'[r].caller = c /\ ureq'[r].me = users[c]
        /\ \A q \in UserRequests \ {r} : ureq'[q] = ureq[q]
    BY <1>3 DEF StartAdmin, UserTyped, UserTypeOK
  <2>2. /\ users' = users /\ crossed' = crossed /\ told' = told /\ cut' = cut
        /\ ureq[r].pc # "tell"
    BY <1>3 DEF StartAdmin
  <2>3. CopyOK(r)'
    BY <2>1, <2>2 DEF CopyOK
  <2> QED BY <2>1, <2>2, <2>3, LoadKeepsTemp
<1>4. ASSUME NEW r \in UserRequests, NEW c \in Staff, StartChange(r, c)
      PROVE  TempInv'
  <2>1. /\ ureq'[r].pc = "commit" /\ ureq'[r].target = c /\ ureq'[r].copy = users[c]
        /\ \A q \in UserRequests \ {r} : ureq'[q] = ureq[q]
    BY <1>4 DEF StartChange, NoUserRequest, UserTyped, UserTypeOK
  <2>2. /\ users' = users /\ crossed' = crossed /\ told' = told /\ cut' = cut
        /\ ureq[r].pc # "tell"
    BY <1>4 DEF StartChange
  <2>3. CopyOK(r)'
    BY <2>1, <2>2 DEF CopyOK
  <2> QED BY <2>1, <2>2, <2>3, LoadKeepsTemp
<1>5. ASSUME NEW r \in UserRequests, LoadTarget(r)
      PROVE  TempInv'
  <2> DEFINE s == ureq[r]
  <2>1. /\ users' = users /\ crossed' = crossed /\ told' = told /\ cut' = cut
        /\ s.pc = "target"
    BY <1>5 DEF LoadTarget
  <2>2. CASE RefusedTarget(s)
    <3>1. CloseUser(r)
      BY <1>5, <2>2 DEF LoadTarget
    <3> QED BY <1>0, <2>1, <3>1, NoWriteKeepsTemp
  <2>3. CASE ~RefusedTarget(s)
    <3>1. /\ ureq'[r].pc = "commit" /\ ureq'[r].target = s.target
          /\ ureq'[r].copy = LoadedTarget(s)
          /\ \A q \in UserRequests \ {r} : ureq'[q] = ureq[q]
      BY <1>5, <2>3 DEF LoadTarget, UserTyped, UserTypeOK, UserRequest
    <3>2. s.target \in crossed \/ users[s.target] = LoadedTarget(s)
      BY <2>1 DEF LoadedTarget, TempInv, CopyOK
    <3>3. CopyOK(r)'
      BY <2>1, <3>1, <3>2 DEF CopyOK
    <3> QED BY <2>1, <3>1, <3>3, LoadKeepsTemp
  <2> QED BY <2>2, <2>3
<1>6. ASSUME NEW r \in UserRequests, ureq' = [ureq EXCEPT ![r] = Telling(ureq[r])]
      PROVE  /\ ureq'[r].pc = "tell" /\ ureq'[r].no = ureq[r].no
             /\ ureq'[r].target = ureq[r].target
             /\ \A q \in UserRequests \ {r} : ureq'[q] = ureq[q]
  BY <1>6 DEF Telling, NoUserRequest, UserTyped, UserTypeOK
<1>7. ASSUME NEW r \in UserRequests, CommitCreate(r)
      PROVE  TempInv'
  <2> DEFINE s == ureq[r]
             row == [role |-> s.role, owner |-> s.owner, password |-> s.no,
                     must_change |-> TRUE]
  <2>1. /\ s \in UserRequest /\ s.target \in Staff /\ s.role \in Roles
        /\ s.pc = "commit" /\ told' = told /\ cut' = cut
    BY <1>7 DEF CommitCreate, RequestOK, UserTyped, UserTypeOK
  <2>t. PICK t \in Staff : t = ureq[r].target
    BY <2>1
  <2>2. row \in DashboardUser /\ row.password = s.no /\ row.must_change
    BY <2>1 DEF UserRequest, DashboardUser
  <2>3. CASE users[s.target] = None
    <3>1. WriteUser(r, s.target, row) /\ ureq' = [ureq EXCEPT ![r] = Telling(s)]
      BY <1>7, <2>3 DEF CommitCreate
    <3> HIDE DEF row
    <3>2. users'[t] = row
      BY <2>t, <2>1, <3>1 DEF WriteUser, UserTyped, UserTypeOK
    <3>3. Tells(r, t)'
      BY <2>t, <1>6, <2>2, <3>1, <3>2 DEF Tells
    <3>4. TempOK(t)'
      BY <2>2, <3>2, <3>3 DEF TempOK
    <3> QED BY <2>t, <1>6, <2>1, <2>2, <3>1, <3>4, WriteKeepsTemp
  <2>4. CASE users[s.target] # None
    <3>1. users' = users /\ crossed' = crossed /\ CloseUser(r)
      BY <1>7, <2>4 DEF CommitCreate
    <3> QED BY <1>0, <2>1, <3>1, NoWriteKeepsTemp
  <2> QED BY <2>3, <2>4
<1>8. ASSUME NEW r \in UserRequests, CommitReset(r)
      PROVE  TempInv'
  <2> DEFINE s == ureq[r]
             row == SetPassword(users[s.target], s.copy, s.no, TRUE)
  <2>1. /\ s.target \in Staff /\ s.copy \in DashboardUser /\ s.no \in Passwords
        /\ s.pc = "commit" /\ told' = told /\ cut' = cut
    BY <1>8 DEF CommitReset, RequestOK, UserTyped, UserTypeOK, UserRequest, AdminOps
  <2>t. PICK t \in Staff : t = ureq[r].target
    BY <2>1
  <2>2. CASE users[s.target] # None
    <3>1. users[s.target] \in DashboardUser
      BY <2>1, <2>2 DEF UserTyped, UserTypeOK
    <3>2. /\ row \in DashboardUser /\ row.password = s.no
          /\ users[s.target] = s.copy => row.must_change = TRUE
      BY <2>1, <3>1, SetPasswordUser
    <3>3. WriteUser(r, s.target, row) /\ ureq' = [ureq EXCEPT ![r] = Telling(s)]
      BY <1>8, <2>2 DEF CommitReset
    <3> HIDE DEF row
    <3>4. users'[t] = row /\ crossed \subseteq crossed'
      BY <2>t, <2>1, <3>3 DEF WriteUser, UserTyped, UserTypeOK
    <3>5. s.target \in crossed \/ users[s.target] = s.copy
      BY <2>1, UserNotNone DEF TempInv, CopyOK
    <3>6. Tells(r, t)'
      BY <2>t, <1>6, <3>2, <3>3, <3>4 DEF Tells
    <3>7. users'[t].must_change \/ t \in crossed'
      BY <2>t, <3>2, <3>4, <3>5
    <3>8. TempOK(t)'
      BY <3>6, <3>7 DEF TempOK
    <3> QED BY <2>t, <1>6, <2>1, <3>2, <3>3, <3>8, WriteKeepsTemp
  <2>3. CASE users[s.target] = None
    <3>1. users' = users /\ crossed' = crossed /\ CloseUser(r)
      BY <1>8, <2>3 DEF CommitReset
    <3> QED BY <1>0, <2>1, <3>1, NoWriteKeepsTemp
  <2> QED BY <2>2, <2>3
<1>9. ASSUME NEW r \in UserRequests, CommitChange(r)
      PROVE  TempInv'
  <2> DEFINE s == ureq[r]
             row == SetPassword(users[s.target], s.copy, 0, FALSE)
  <2>1. /\ s.target \in Staff /\ s.copy \in DashboardUser
        /\ s.pc = "commit" /\ told' = told /\ cut' = cut /\ CloseUser(r)
    BY <1>9 DEF CommitChange, RequestOK, UserTyped
  <2>t. PICK t \in Staff : t = ureq[r].target
    BY <2>1
  <2>2. CASE users[s.target] # None
    <3>1. users[s.target] \in DashboardUser /\ 0 \in Passwords
      BY <2>1, <2>2, UserAssumptions DEF UserTyped, UserTypeOK, Passwords
    <3>2. row \in DashboardUser /\ row.password = 0
      BY <2>1, <3>1, SetPasswordUser
    <3>3. WriteUser(r, s.target, row)
      BY <1>9, <2>2 DEF CommitChange
    <3> HIDE DEF row
    <3>4. TempOK(t)'
      BY <2>t, <2>1, <3>2, <3>3 DEF WriteUser, UserTyped, UserTypeOK, TempOK
    <3> QED BY <2>t, <1>0, <2>1, <3>2, <3>3, <3>4, WriteKeepsTemp
  <2>3. CASE users[s.target] = None
    <3>1. users' = users /\ crossed' = crossed
      BY <1>9, <2>3 DEF CommitChange
    <3> QED BY <1>0, <2>1, <3>1, NoWriteKeepsTemp
  <2> QED BY <2>2, <2>3
<1>10. ASSUME NEW r \in UserRequests, CommitUpdate(r)
       PROVE  TempInv'
  <2> DEFINE s == ureq[r]
             set == [s.copy EXCEPT !.role = s.role, !.owner = NewOwner(s)]
             row == Flushed(users[s.target], s.copy, set)
  <2>1. /\ s \in UserRequest /\ s.target \in Staff /\ s.copy \in DashboardUser
        /\ s.role \in Roles /\ s.pc = "commit" /\ told' = told /\ cut' = cut
        /\ CloseUser(r)
    BY <1>10 DEF CommitUpdate, RequestOK, UserTyped, UserTypeOK, AdminOps
  <2>t. PICK t \in Staff : t = ureq[r].target
    BY <2>1
  <2>2. CASE users[s.target] # None
    <3>1. users[s.target] \in DashboardUser
      BY <2>1, <2>2 DEF UserTyped, UserTypeOK
    <3>2. NewOwner(s) \in Owners \cup {None}
      BY <2>1 DEF NewOwner, UserRequest, DashboardUser
    <3>3. /\ set \in DashboardUser /\ set.password = s.copy.password
          /\ set.must_change = s.copy.must_change
      BY <2>1, <3>2 DEF DashboardUser
    <3>4. WriteUser(r, s.target, row)
      BY <1>10, <2>2 DEF CommitUpdate
    <3> HIDE DEF set
    <3>5. /\ row \in DashboardUser /\ row.password = users[s.target].password
          /\ row.must_change = users[s.target].must_change
      BY <2>1, <3>1, <3>3, FlushedUser
    <3> HIDE DEF row
    <3>6. users'[t] = row /\ crossed \subseteq crossed'
      BY <2>t, <2>1, <3>4 DEF WriteUser, UserTyped, UserTypeOK
    <3>7. TempOK(t)'
      BY <2>t, <1>0, <2>1, <2>2, <3>5, <3>6, TempKept DEF TempInv
    <3> QED BY <2>t, <1>0, <2>1, <3>4, <3>5, <3>7, WriteKeepsTemp
  <2>3. CASE users[s.target] = None
    <3>1. users' = users /\ crossed' = crossed
      BY <1>10, <2>3 DEF CommitUpdate
    <3> QED BY <1>0, <2>1, <3>1, NoWriteKeepsTemp
  <2> QED BY <2>2, <2>3
<1>11. ASSUME NEW r \in UserRequests, CommitDelete(r)
       PROVE  TempInv'
  <2>1. /\ ureq[r].target \in Staff /\ ureq[r].pc = "commit" /\ told' = told /\ cut' = cut
        /\ CloseUser(r) /\ WriteUser(r, ureq[r].target, None)
    BY <1>11 DEF CommitDelete, RequestOK, UserTyped
  <2>t. PICK t \in Staff : t = ureq[r].target
    BY <2>1
  <2>2. TempOK(t)'
    BY <2>t, <2>1 DEF WriteUser, UserTyped, UserTypeOK, TempOK
  <2> QED BY <2>t, <1>0, <2>1, <2>2, WriteKeepsTemp
<1>12. ASSUME NEW r \in UserRequests, Tell(r)
       PROVE  TempInv'
  <2>1. /\ users' = users /\ crossed' = crossed /\ cut' = cut
        /\ told \subseteq told' /\ ureq[r].no \in told' /\ CloseUser(r)
    BY <1>12 DEF Tell
  <2> QED BY <1>0, <2>1, NoWriteKeepsTemp
<1>13. CASE UserCrash
  <2>1. /\ users' = users /\ crossed' = crossed /\ told' = told /\ cut \subseteq cut'
        /\ \A q \in UserRequests : ureq'[q].pc = "idle"
        /\ \A q \in UserRequests : ureq[q].pc = "tell" => ureq[q].target \in cut'
    BY <1>13 DEF UserCrash, NoUserRequest
  <2> QED BY <2>1, NoWriteKeepsTemp
<1>14. CASE UNCHANGED userVars
  BY <1>14, NoWriteKeepsTemp DEF userVars
<1> QED
  BY <1>1, <1>2, <1>3, <1>4, <1>5, <1>7, <1>8, <1>9, <1>10, <1>11, <1>12, <1>13, <1>14
  DEF UserNext, AdminOps

\* A temporary password must be changed by its user and is answered or mailed
\* by the request that generated it, with the exceptions TemporaryPasswords
\* names (create_user and reset_user_password of api/v1/endpoints/admin.py).
THEOREM TemporaryPasswordsTold == UserSpec => []TemporaryPasswords
<1>1. UserInit => TempInv
  <2> SUFFICES ASSUME UserInit PROVE TempInv
    OBVIOUS
  <2>1. \A e \in Staff : users[e] # None => users[e].password = 0
    BY DEF UserInit
  <2>2. \A r \in UserRequests : ureq[r].pc = "idle"
    BY DEF UserInit, NoUserRequest
  <2> QED BY <2>1, <2>2 DEF TempInv, TempOK, CopyOK
<1>2. TempInv => TemporaryPasswords
  BY DEF TempInv, TempOK, Tells, TemporaryPasswords
<1> QED BY <1>1, <1>2, InitTyped, StepTyped, TempStep, PTL DEF UserSpec

-----------------------------------------------------------------------------
(* The eligibility documents: typing                                        *)

\* What an upload has when it gets to a label.
UploadOK(s) ==
    /\ s.pc # "idle" => s.key \in DocKeys /\ s.new \in Objects
    /\ s.pc \in {"delete", "replace"} => s.existing \in TradeDocument
    /\ s.pc = "update" => \A p \in s.todo : s.copy[p] \in Participant

DocTyped == DocTypeOK /\ \A r \in Uploaders : UploadOK(up[r])

\* What a step has to show of the upload it moves on.
LEMMA MoveUpload ==
    ASSUME DocTyped, NEW r \in Uploaders, NEW s \in Upload, UploadOK(s),
           up' = [up EXCEPT ![r] = s]
    PROVE  up' \in [Uploaders -> Upload] /\ \A q \in Uploaders : UploadOK(up'[q])
BY DEF DocTyped, DocTypeOK

LEMMA ClosedUpload == NoUpload \in Upload /\ UploadOK(NoUpload)
BY DEF NoUpload, Upload, UploadOK

\* A flush over a loaded participant writes the columns that were changed.
LEMMA FlushedParticipant ==
    ASSUME NEW stored \in Participant, NEW loaded \in Participant, NEW set \in Participant
    PROVE  Flushed(stored, loaded, set) \in Participant
BY DEF Flushed, Participant

LEMMA DocInitTyped == DocInit => DocTyped
<1> SUFFICES ASSUME DocInit PROVE DocTyped
  OBVIOUS
<1>1. up \in [Uploaders -> Upload] /\ \A r \in Uploaders : UploadOK(up[r])
  BY ClosedUpload DEF DocInit
<1>2. people \in [Participants -> Participant \cup {None}]
  BY DEF DocInit, NewParticipant, Participant
<1>3. uploads \in 0 .. MaxUploads /\ dfaults \in 0 .. MaxDocFaults
  BY DocAssumptions DEF DocInit
<1> QED BY <1>1, <1>2, <1>3 DEF DocInit, DocTyped, DocTypeOK

LEMMA DocStepTyped == DocTyped /\ [DocNext]_docVars => DocTyped'
<1> SUFFICES ASSUME DocTyped, [DocNext]_docVars PROVE DocTyped'
  OBVIOUS
<1>0. ASSUME NEW r \in Uploaders, CloseUpload(r)
      PROVE  up' \in [Uploaders -> Upload] /\ \A q \in Uploaders : UploadOK(up'[q])
  BY <1>0, ClosedUpload, MoveUpload DEF CloseUpload
<1>f. DocFault => dfaults' \in 0 .. MaxDocFaults
  BY DocAssumptions DEF DocFault, DocTyped, DocTypeOK
<1>1. ASSUME NEW r \in Uploaders, NEW k \in DocKeys, SubmitStart(r, k)
      PROVE  DocTyped'
  <2> DEFINE s == [NoUpload EXCEPT !.pc = "upload", !.key = k,
                        !.new = BuildStorageKey(k), !.copy = people]
  <2>1. BuildStorageKey(k) \in Objects /\ uploads' \in 0 .. MaxUploads
    BY <1>1, DocAssumptions DEF SubmitStart, BuildStorageKey, Objects, DocTyped, DocTypeOK
  <2>2. people \in [Participants -> Participant \cup {None}]
    BY DEF DocTyped, DocTypeOK
  <2>3. /\ s \in Upload
        /\ s.pc = "upload" /\ s.key = k /\ s.new = BuildStorageKey(k)
    BY <2>1, <2>2 DEF Upload, NoUpload
  <2>4. up' = [up EXCEPT ![r] = s]
    BY <1>1 DEF SubmitStart
  <2> HIDE DEF s
  <2>5. UploadOK(s)
    BY <2>1, <2>3 DEF UploadOK
  <2>6. up' \in [Uploaders -> Upload] /\ \A q \in Uploaders : UploadOK(up'[q])
    BY <2>3, <2>4, <2>5, MoveUpload
  <2>7. unrolled' \in BOOLEAN
    BY <1>1 DEF SubmitStart
  <2> QED BY <1>1, <2>1, <2>6, <2>7 DEF SubmitStart, DocTyped, DocTypeOK
<1>2. ASSUME NEW r \in Uploaders, UploadDocument(r)
      PROVE  DocTyped'
  <2>1. up[r] \in Upload /\ up[r].key \in DocKeys /\ up[r].new \in Objects
    BY <1>2 DEF UploadDocument, DocTyped, DocTypeOK, UploadOK
  <2>2. objects' \subseteq Objects
    BY <1>2, <2>1 DEF UploadDocument, DocTyped, DocTypeOK
  <2>3. up' \in [Uploaders -> Upload] /\ \A q \in Uploaders : UploadOK(up'[q])
    <3>1. CASE up' = [up EXCEPT ![r].pc = "lookup"]
      <4> DEFINE s == [up[r] EXCEPT !.pc = "lookup"]
      <4>1. s \in Upload /\ UploadOK(s)
        BY <2>1 DEF Upload, UploadOK
      <4>2. up' = [up EXCEPT ![r] = s]
        BY <3>1
      <4> HIDE DEF s
      <4> QED BY <4>1, <4>2, MoveUpload
    <3>2. CASE CloseUpload(r)
      BY <1>0, <3>2
    <3> QED BY <1>2, <3>1, <3>2 DEF UploadDocument
  <2> QED BY <1>2, <1>f, <2>2, <2>3 DEF UploadDocument, DocTyped, DocTypeOK
<1>3. ASSUME NEW r \in Uploaders, GetDocument(r)
      PROVE  DocTyped'
  <2> DEFINE row == docs[up[r].key]
             s == [up[r] EXCEPT !.pc = IF row = None THEN "insert" ELSE "delete",
                                !.existing = row]
  <2>1. up[r] \in Upload /\ up[r].key \in DocKeys /\ up[r].new \in Objects
    BY <1>3 DEF GetDocument, DocTyped, DocTypeOK, UploadOK
  <2>2. row \in TradeDocument \cup {None}
    BY <2>1 DEF DocTyped, DocTypeOK
  <2>3. s \in Upload /\ UploadOK(s)
    BY <2>1, <2>2 DEF Upload, UploadOK
  <2>4. up' = [up EXCEPT ![r] = s]
    BY <1>3 DEF GetDocument, DocTyped, DocTypeOK
  <2> HIDE DEF s
  <2> QED BY <1>3, <2>3, <2>4, MoveUpload DEF GetDocument, DocTyped, DocTypeOK
<1>4. ASSUME NEW r \in Uploaders, DeleteDocument(r)
      PROVE  DocTyped'
  <2> DEFINE s == [up[r] EXCEPT !.pc = "replace"]
  <2>1. up[r] \in Upload /\ UploadOK(up[r]) /\ up[r].pc = "delete"
    BY <1>4 DEF DeleteDocument, DocTyped, DocTypeOK
  <2>2. s \in Upload /\ UploadOK(s)
    BY <2>1 DEF Upload, UploadOK
  <2>3. up' = [up EXCEPT ![r] = s]
    BY <1>4 DEF DeleteDocument
  <2> HIDE DEF s
  <2> QED BY <1>4, <1>f, <2>2, <2>3, MoveUpload DEF DeleteDocument, DocTyped, DocTypeOK
<1>5. ASSUME NEW r \in Uploaders, ReplaceDocument(r)
      PROVE  DocTyped'
  <2>1. up[r] \in Upload /\ up[r].key \in DocKeys /\ up[r].new \in Objects
    BY <1>5 DEF ReplaceDocument, DocTyped, DocTypeOK, UploadOK
  <2>2. CASE /\ docs[up[r].key] # None
             /\ docs' = [docs EXCEPT ![up[r].key].object = up[r].new]
             /\ up' = [up EXCEPT ![r].pc = "list", ![r].existing = None]
    <3> DEFINE s == [up[r] EXCEPT !.pc = "list", !.existing = None]
               row == [docs[up[r].key] EXCEPT !.object = up[r].new]
    <3>1. s \in Upload /\ UploadOK(s)
      BY <2>1 DEF Upload, UploadOK
    <3>2. row \in TradeDocument
      BY <2>1, <2>2 DEF TradeDocument, DocTyped, DocTypeOK
    <3>3. up' = [up EXCEPT ![r] = s] /\ docs' = [docs EXCEPT ![up[r].key] = row]
      BY <2>2 DEF DocTyped, DocTypeOK
    <3> HIDE DEF s, row
    <3>4. docs' \in [DocKeys -> TradeDocument \cup {None}]
      BY <2>1, <3>2, <3>3 DEF DocTyped, DocTypeOK
    <3> QED BY <1>5, <3>1, <3>3, <3>4, MoveUpload DEF ReplaceDocument, DocTyped, DocTypeOK
  <2>3. CASE CloseUpload(r) /\ docs' = docs
    BY <1>0, <1>5, <2>3 DEF ReplaceDocument, DocTyped, DocTypeOK
  <2> QED BY <1>5, <2>2, <2>3 DEF ReplaceDocument
<1>6. ASSUME NEW r \in Uploaders, InsertDocument(r)
      PROVE  DocTyped'
  <2>1. up[r] \in Upload /\ up[r].key \in DocKeys /\ up[r].new \in Objects
    BY <1>6 DEF InsertDocument, DocTyped, DocTypeOK, UploadOK
  <2>2. CASE /\ docs' = [docs EXCEPT ![up[r].key] = [id |-> up[r].new, object |-> up[r].new]]
             /\ up' = [up EXCEPT ![r].pc = "list"]
    <3> DEFINE s == [up[r] EXCEPT !.pc = "list"]
    <3>1. s \in Upload /\ UploadOK(s)
      BY <2>1 DEF Upload, UploadOK
    <3>2. up' = [up EXCEPT ![r] = s]
      BY <2>2
    <3> HIDE DEF s
    <3>3. docs' \in [DocKeys -> TradeDocument \cup {None}]
      BY <2>1, <2>2 DEF TradeDocument, DocTyped, DocTypeOK
    <3> QED BY <1>6, <3>1, <3>2, <3>3, MoveUpload DEF InsertDocument, DocTyped, DocTypeOK
  <2>3. CASE CloseUpload(r) /\ docs' = docs
    BY <1>0, <1>6, <2>3 DEF InsertDocument, DocTyped, DocTypeOK
  <2> QED BY <1>6, <2>2, <2>3 DEF InsertDocument
<1>7. ASSUME NEW r \in Uploaders, ListDocuments(r)
      PROVE  DocTyped'
  <2> DEFINE todo == {p \in Participants : up[r].copy[p] # None}
             status == ComputeEligibilityStatus(Present)
             s == [up[r] EXCEPT !.pc = "update", !.status = status, !.todo = todo]
  <2>1. up[r] \in Upload /\ up[r].key \in DocKeys /\ up[r].new \in Objects
    BY <1>7 DEF ListDocuments, DocTyped, DocTypeOK, UploadOK
  <2>2. status \in {"not_requested", "pending", "submitted"}
    BY DEF ComputeEligibilityStatus
  <2>3. todo \subseteq Participants /\ \A p \in todo : up[r].copy[p] \in Participant
    BY <2>1 DEF Upload
  <2>4. up' = [up EXCEPT ![r] = s]
    BY <1>7 DEF ListDocuments, DocTyped, DocTypeOK
  <2> HIDE DEF status, todo
  <2>5. s \in Upload /\ UploadOK(s)
    BY <2>1, <2>2, <2>3 DEF Upload, UploadOK
  <2> HIDE DEF s
  <2> QED BY <1>7, <2>4, <2>5, MoveUpload DEF ListDocuments, DocTyped, DocTypeOK
<1>8. ASSUME NEW r \in Uploaders, UpdateParticipant(r)
      PROVE  DocTyped'
  <2> DEFINE s == up[r]
             set(p) == [s.copy[p] EXCEPT !.status = s.status,
                                         !.stamped = @ \/ s.status = "submitted"]
  <2>1. s \in Upload /\ UploadOK(s) /\ s.pc = "update"
    BY <1>8 DEF UpdateParticipant, DocTyped, DocTypeOK
  <2>2. PICK p \in s.todo :
            \/ /\ people[p] # None
               /\ people' = [people EXCEPT ![p] = Flushed(people[p], s.copy[p], set(p))]
               /\ IF s.todo = {p} THEN CloseUpload(r)
                  ELSE up' = [up EXCEPT ![r].todo = @ \ {p}]
            \/ people[p] = None /\ CloseUpload(r) /\ UNCHANGED people
    BY <1>8 DEF UpdateParticipant
  <2>3. p \in Participants /\ s.copy[p] \in Participant /\ s.status \in {"not_requested", "pending", "submitted"}
    BY <2>1 DEF Upload, UploadOK
  <2>4. set(p) \in Participant
    BY <2>3 DEF Participant
  <2>5. people' \in [Participants -> Participant \cup {None}]
    <3>1. CASE people[p] = None
      BY <2>2, <3>1 DEF DocTyped, DocTypeOK
    <3>2. CASE people[p] # None
      <4>1. people[p] \in Participant
        BY <2>3, <3>2 DEF DocTyped, DocTypeOK
      <4>2. Flushed(people[p], s.copy[p], set(p)) \in Participant
        BY <2>3, <2>4, <4>1, FlushedParticipant
      <4>3. people' = [people EXCEPT ![p] = Flushed(people[p], s.copy[p], set(p))]
        BY <2>2, <3>2
      <4> HIDE DEF set
      <4> QED BY <2>3, <4>2, <4>3 DEF DocTyped, DocTypeOK
    <3> QED BY <3>1, <3>2
  <2>6. up' \in [Uploaders -> Upload] /\ \A q \in Uploaders : UploadOK(up'[q])
    <3>1. CASE CloseUpload(r)
      BY <1>0, <3>1
    <3>2. CASE up' = [up EXCEPT ![r].todo = @ \ {p}]
      <4> DEFINE n == [s EXCEPT !.todo = s.todo \ {p}]
      <4>1. n \in Upload /\ UploadOK(n)
        BY <2>1 DEF Upload, UploadOK
      <4>2. up' = [up EXCEPT ![r] = n]
        BY <3>2
      <4> HIDE DEF n
      <4> QED BY <4>1, <4>2, MoveUpload
    <3> HIDE DEF set
    <3> QED BY <2>2, <3>1, <3>2
  <2> QED BY <1>8, <2>5, <2>6 DEF UpdateParticipant, DocTyped, DocTypeOK
<1>9. CASE SecondJoins
  <2>1. people' \in [Participants -> Participant \cup {None}]
    BY <1>9 DEF SecondJoins, NewParticipant, Participant, Participants, DocTyped, DocTypeOK
  <2>2. unrolled' \in BOOLEAN
    BY <1>9 DEF SecondJoins
  <2> QED BY <1>9, <2>1, <2>2 DEF SecondJoins, DocTyped, DocTypeOK
<1>10. CASE CleanupLoads
  <2>1. unrolled' \in BOOLEAN
    BY <1>10 DEF CleanupLoads
  <2> QED BY <1>10, <2>1 DEF CleanupLoads, DocTyped, DocTypeOK
<1>11. CASE CleanupDeletes
  <2>1. unrolled' \in BOOLEAN
    BY <1>11 DEF CleanupDeletes
  <2>2. people' \in [Participants -> Participant \cup {None}]
    BY <1>11 DEF CleanupDeletes, DocTyped, DocTypeOK
  <2> QED BY <1>11, <2>1, <2>2 DEF CleanupDeletes, DocTyped, DocTypeOK
<1>12. CASE DocCrash
  <2>1. unrolled' \in BOOLEAN
    BY <1>12 DEF DocCrash
  <2>2. dangling' \subseteq DocKeys
    BY <1>12 DEF DocCrash, DocTyped, DocTypeOK, UploadOK
  <2>3. up' \in [Uploaders -> Upload] /\ \A q \in Uploaders : UploadOK(up'[q])
    BY <1>12, ClosedUpload DEF DocCrash
  <2> QED BY <1>12, <1>f, <2>1, <2>2, <2>3 DEF DocCrash, DocTyped, DocTypeOK
<1>13. CASE UNCHANGED docVars
  BY <1>13 DEF docVars, DocTyped, DocTypeOK
<1> QED
  BY <1>1, <1>2, <1>3, <1>4, <1>5, <1>6, <1>7, <1>8, <1>9, <1>10, <1>11, <1>12, <1>13
  DEF DocNext

\* The tables, the store and the open uploads keep their types, and an upload
\* is never moved on without the row its next step needs
\* (services/trade_eligibility.py).
THEOREM DocTypeCorrect == DocSpec => []DocTypeOK
<1>1. DocTyped => DocTypeOK
  BY DEF DocTyped
<1> QED BY <1>1, DocInitTyped, DocStepTyped, PTL DEF DocSpec

-----------------------------------------------------------------------------
(* Rows and objects                                                         *)

\* The upload's own object is not yet named by a row.
Storing(r) == up[r].pc \in {"upload", "lookup", "delete", "replace", "insert"}

\* The upload has found a row and will point it at its own object.
Replacing(r) == up[r].pc \in {"delete", "replace"}

\* Objects are named after uploads that have begun.
NamesBegun ==
    /\ \A r \in Uploaders : up[r].pc # "idle" => up[r].new <= uploads
    /\ \A r \in Uploaders : Replacing(r) => up[r].existing.object <= uploads
    /\ \A k \in DocKeys : docs[k] # None => docs[k].object <= uploads

\* The object of an upload under way is its own.
NewIsOwn ==
    /\ \A q, r \in Uploaders : Storing(q) /\ Storing(r) /\ q # r => up[q].new # up[r].new
    /\ \A r \in Uploaders, k \in DocKeys :
            Storing(r) /\ docs[k] # None => docs[k].object # up[r].new
    /\ \A q, r \in Uploaders :
            Storing(r) /\ Replacing(q) => up[q].existing.object # up[r].new

\* No object belongs to two keys.
KeysAreApart ==
    /\ \A j, k \in DocKeys :
            docs[j] # None /\ docs[k] # None /\ j # k => docs[j].object # docs[k].object
    /\ \A r \in Uploaders, k \in DocKeys :
            Replacing(r) /\ docs[k] # None /\ k # up[r].key
            => docs[k].object # up[r].existing.object

\* An upload past the store has its object there.
NewIsStored ==
    \A r \in Uploaders : Storing(r) /\ up[r].pc # "upload" => up[r].new \in objects

\* A row that still names the object an upload found is the row it found.
SameObjectSameRow ==
    \A r \in Uploaders :
        Replacing(r) /\ docs[up[r].key] # None
                     /\ docs[up[r].key].object = up[r].existing.object
        => docs[up[r].key].id = up[r].existing.id

DocInv ==
    /\ NamesBegun
    /\ NewIsOwn
    /\ KeysAreApart
    /\ NewIsStored
    /\ SameObjectSameRow
    /\ RowHasObject

\* An upload that ends, or goes on past the commit of its row, changes no
\* name; a row in want of its object must not be the one it was replacing.
LEMMA UploadLeaves ==
    ASSUME DocTyped, DocInv, NEW r \in Uploaders,
           docs' = docs, objects \subseteq objects', uploads' = uploads,
           dangling \subseteq dangling',
           up'[r].pc \in {"idle", "list", "update"},
           up'[r].pc # "idle" => up'[r].new = up[r].new /\ up[r].pc # "idle",
           \A q \in Uploaders \ {r} : up'[q] = up[q],
           up[r].pc = "replace" => \/ docs[up[r].key] = None
                                   \/ docs[up[r].key].object # up[r].existing.object
    PROVE  DocInv'
<1>1. NamesBegun'
  BY DEF DocInv, NamesBegun, Replacing
<1>2. NewIsOwn'
  BY DEF DocInv, NewIsOwn, Storing, Replacing
<1>3. KeysAreApart'
  BY DEF DocInv, KeysAreApart, Replacing
<1>4. NewIsStored'
  BY DEF DocInv, NewIsStored, Storing
<1>5. SameObjectSameRow'
  BY DEF DocInv, SameObjectSameRow, Replacing
<1>6. RowHasObject'
  BY DEF DocInv, RowHasObject
<1> QED BY <1>1, <1>2, <1>3, <1>4, <1>5, <1>6 DEF DocInv

\* A commit points a row of the upload's key at the upload's object.
LEMMA RowTakesNew ==
    ASSUME DocTyped, DocInv, NEW r \in Uploaders, NEW row \in TradeDocument,
           up[r].pc \in {"replace", "insert"}, row.object = up[r].new,
           docs' = [docs EXCEPT ![up[r].key] = row],
           objects' = objects, uploads' = uploads, dangling' = dangling,
           up'[r].pc = "list", up'[r].new = up[r].new,
           \A q \in Uploaders \ {r} : up'[q] = up[q]
    PROVE  DocInv'
<1>k. PICK key \in DocKeys : key = up[r].key
  BY DEF DocTyped, UploadOK
<1>0. /\ docs'[key] = row /\ row # None
      /\ \A k \in DocKeys : k # key => docs'[k] = docs[k]
  BY <1>k, NoDocAssumption DEF DocTyped, DocTypeOK
<1>n. /\ Storing(r) /\ up[r].pc # "idle" /\ up[r].pc # "upload"
      /\ ~Storing(r)' /\ ~Replacing(r)'
      /\ \A q \in Uploaders \ {r} : (Storing(q)' <=> Storing(q)) /\ (Replacing(q)' <=> Replacing(q))
  BY DEF Storing, Replacing
<1>1. NamesBegun'
  BY <1>0, <1>n DEF DocInv, NamesBegun
<1>2. NewIsOwn'
  BY <1>0, <1>n DEF DocInv, NewIsOwn
<1>3. KeysAreApart'
  BY <1>0, <1>n DEF DocInv, NewIsOwn, KeysAreApart
<1>4. NewIsStored'
  BY <1>n DEF DocInv, NewIsStored
<1>5. SameObjectSameRow'
  <2> SUFFICES ASSUME NEW q \in Uploaders \ {r}, Replacing(q), docs'[up[q].key] # None,
                      docs'[up[q].key].object = up[q].existing.object
               PROVE  docs'[up[q].key].id = up[q].existing.id
    BY <1>n DEF SameObjectSameRow
  <2>1. up[q].key \in DocKeys
    BY DEF DocTyped, UploadOK, Replacing
  <2>2. up[q].key # key
    BY <1>0, <1>n DEF DocInv, NewIsOwn
  <2> QED BY <1>0, <2>1, <2>2 DEF DocInv, SameObjectSameRow
<1>6. RowHasObject'
  <2> SUFFICES ASSUME NEW k \in DocKeys, docs'[k] # None, docs'[k].object \notin objects,
                      k \notin dangling
               PROVE  \E q \in Uploaders : /\ up'[q].pc = "replace" /\ up'[q].key = k
                                           /\ up'[q].existing.object = docs'[k].object
    BY DEF RowHasObject
  <2>1. k # key
    BY <1>0, <1>n DEF DocInv, NewIsStored
  <2>2. PICK q \in Uploaders : /\ up[q].pc = "replace" /\ up[q].key = k
                               /\ up[q].existing.object = docs[k].object
    BY <1>0, <2>1 DEF DocInv, RowHasObject
  <2>3. q # r
    BY <1>k, <2>1, <2>2
  <2> QED BY <1>0, <2>1, <2>2, <2>3
<1> QED BY <1>1, <1>2, <1>3, <1>4, <1>5, <1>6 DEF DocInv

LEMMA DocInvStep == DocTyped /\ DocInv /\ [DocNext]_docVars => DocInv'
<1> SUFFICES ASSUME DocTyped, DocInv, [DocNext]_docVars PROVE DocInv'
  OBVIOUS
<1>0. ASSUME NEW r \in Uploaders, CloseUpload(r)
      PROVE  up'[r].pc = "idle" /\ \A q \in Uploaders \ {r} : up'[q] = up[q]
  BY <1>0 DEF CloseUpload, NoUpload, DocTyped, DocTypeOK
<1>1. ASSUME NEW r \in Uploaders, NEW k \in DocKeys, SubmitStart(r, k)
      PROVE  DocInv'
  <2>1. /\ up'[r].pc = "upload" /\ up'[r].new = uploads + 1
        /\ \A q \in Uploaders \ {r} : up'[q] = up[q]
    BY <1>1 DEF SubmitStart, BuildStorageKey, NoUpload, DocTyped, DocTypeOK
  <2>2. /\ docs' = docs /\ objects' = objects /\ dangling' = dangling
        /\ uploads' = uploads + 1 /\ uploads \in Nat /\ up[r].pc = "idle"
    BY <1>1, DocAssumptions DEF SubmitStart, DocTyped, DocTypeOK
  <2>o. /\ \A q \in Uploaders : up[q].pc # "idle" => up[q].new \in Nat
        /\ \A q \in Uploaders : Replacing(q) => up[q].existing.object \in Nat
        /\ \A j \in DocKeys : docs[j] # None => docs[j].object \in Nat
    BY DEF DocTyped, DocTypeOK, UploadOK, Replacing, Objects, TradeDocument
  <2>n. /\ Storing(r)' /\ ~Replacing(r)' /\ up'[r].pc # "replace"
        /\ \A q \in Uploaders \ {r} : (Storing(q)' <=> Storing(q)) /\ (Replacing(q)' <=> Replacing(q))
        /\ \A q \in Uploaders : Storing(q) => up[q].pc # "idle"
    BY <2>1 DEF Storing, Replacing
  <2>3. NamesBegun'
    BY <2>1, <2>2, <2>o, <2>n DEF DocInv, NamesBegun
  <2>4. NewIsOwn'
    BY <2>1, <2>2, <2>o, <2>n DEF DocInv, NamesBegun, NewIsOwn
  <2>5. KeysAreApart'
    BY <2>1, <2>2, <2>n DEF DocInv, KeysAreApart
  <2>6. NewIsStored'
    BY <2>1, <2>2, <2>n DEF DocInv, NewIsStored
  <2>7. SameObjectSameRow'
    BY <2>1, <2>2, <2>n DEF DocInv, SameObjectSameRow
  <2>8. RowHasObject'
    BY <2>1, <2>2 DEF DocInv, RowHasObject
  <2> QED BY <2>3, <2>4, <2>5, <2>6, <2>7, <2>8 DEF DocInv
<1>2. ASSUME NEW r \in Uploaders, UploadDocument(r)
      PROVE  DocInv'
  <2>1. /\ docs' = docs /\ objects \subseteq objects' /\ dangling' = dangling
        /\ uploads' = uploads /\ up[r].pc = "upload"
    BY <1>2 DEF UploadDocument
  <2>2. CASE CloseUpload(r)
    BY <1>0, <2>1, <2>2, UploadLeaves
  <2>3. CASE up' = [up EXCEPT ![r].pc = "lookup"] /\ up[r].new \in objects'
    <3>1. /\ up'[r].pc = "lookup" /\ up'[r].new = up[r].new
          /\ \A q \in Uploaders \ {r} : up'[q] = up[q]
      BY <2>3 DEF DocTyped, DocTypeOK, Upload
    <3>n. /\ \A q \in Uploaders : Storing(q)' => Storing(q) /\ up'[q].new = up[q].new
          /\ \A q \in Uploaders : Replacing(q)' => Replacing(q) /\ up'[q] = up[q]
      BY <2>1, <3>1 DEF Storing, Replacing
    <3>2. NamesBegun'
      BY <2>1, <3>1, <3>n DEF DocInv, NamesBegun
    <3>3. NewIsOwn'
      BY <2>1, <3>n DEF DocInv, NewIsOwn
    <3>4. KeysAreApart'
      BY <2>1, <3>n DEF DocInv, KeysAreApart
    <3>5. NewIsStored'
      BY <2>1, <2>3, <3>1, <3>n DEF DocInv, NewIsStored
    <3>6. SameObjectSameRow'
      BY <2>1, <3>n DEF DocInv, SameObjectSameRow
    <3>7. RowHasObject'
      BY <2>1, <3>1 DEF DocInv, RowHasObject
    <3> QED BY <3>2, <3>3, <3>4, <3>5, <3>6, <3>7 DEF DocInv
  <2> QED BY <1>2, <2>2, <2>3 DEF UploadDocument
<1>3. ASSUME NEW r \in Uploaders, GetDocument(r)
      PROVE  DocInv'
  <2>k. PICK key \in DocKeys : key = up[r].key
    BY <1>3 DEF GetDocument, DocTyped, UploadOK
  <2>1. /\ docs' = docs /\ objects' = objects /\ dangling' = dangling
        /\ uploads' = uploads /\ up[r].pc = "lookup"
    BY <1>3 DEF GetDocument
  <2>2. /\ up'[r].pc = (IF docs[key] = None THEN "insert" ELSE "delete")
        /\ up'[r].new = up[r].new /\ up'[r].key = key /\ up'[r].existing = docs[key]
        /\ \A q \in Uploaders \ {r} : up'[q] = up[q]
    BY <1>3, <2>k DEF GetDocument, DocTyped, DocTypeOK, Upload
  <2>n. /\ \A q \in Uploaders : Storing(q)' => Storing(q) /\ up'[q].new = up[q].new
        /\ \A q \in Uploaders \ {r} : Replacing(q)' => Replacing(q)
        /\ Storing(r) /\ up[r].pc # "upload" /\ up[r].pc # "idle"
        /\ Replacing(r)' => docs[key] # None
    BY <2>1, <2>2 DEF Storing, Replacing
  <2>3. NamesBegun'
    BY <2>1, <2>2, <2>n DEF DocInv, NamesBegun
  <2>4. NewIsOwn'
    BY <2>1, <2>2, <2>n DEF DocInv, NewIsOwn
  <2>5. KeysAreApart'
    BY <2>1, <2>2, <2>n DEF DocInv, KeysAreApart
  <2>6. NewIsStored'
    BY <2>1, <2>2, <2>n DEF DocInv, NewIsStored
  <2>7. SameObjectSameRow'
    BY <2>1, <2>2, <2>n DEF DocInv, SameObjectSameRow
  <2>8. RowHasObject'
    BY <2>1, <2>2 DEF DocInv, RowHasObject
  <2> QED BY <2>3, <2>4, <2>5, <2>6, <2>7, <2>8 DEF DocInv
<1>4. ASSUME NEW r \in Uploaders, DeleteDocument(r)
      PROVE  DocInv'
  <2>1. /\ docs' = docs /\ dangling' = dangling /\ uploads' = uploads
        /\ up[r].pc = "delete" /\ objects \ {up[r].existing.object} \subseteq objects'
    BY <1>4 DEF DeleteDocument
  <2>2. /\ up'[r].pc = "replace" /\ up'[r].new = up[r].new /\ up'[r].key = up[r].key
        /\ up'[r].existing = up[r].existing
        /\ \A q \in Uploaders \ {r} : up'[q] = up[q]
    BY <1>4 DEF DeleteDocument, DocTyped, DocTypeOK, Upload
  <2>n. /\ \A q \in Uploaders : Storing(q)' => Storing(q)
        /\ \A q \in Uploaders : Replacing(q)' => Replacing(q)
        /\ \A q \in Uploaders : /\ up'[q].new = up[q].new /\ up'[q].key = up[q].key
                                /\ up'[q].existing = up[q].existing
                                /\ up'[q].pc = "idle" <=> up[q].pc = "idle"
                                /\ up'[q].pc = "upload" <=> up[q].pc = "upload"
        /\ Replacing(r)
    BY <2>1, <2>2 DEF Storing, Replacing
  <2>3. NamesBegun'
    BY <2>1, <2>n DEF DocInv, NamesBegun
  <2>4. NewIsOwn'
    BY <2>1, <2>n DEF DocInv, NewIsOwn
  <2>5. KeysAreApart'
    BY <2>1, <2>n DEF DocInv, KeysAreApart
  <2>6. NewIsStored'
    BY <2>1, <2>n DEF DocInv, NewIsStored, NewIsOwn
  <2>7. SameObjectSameRow'
    BY <2>1, <2>n DEF DocInv, SameObjectSameRow
  <2>8. RowHasObject'
    <3> SUFFICES ASSUME NEW k \in DocKeys, docs[k] # None, docs[k].object \notin objects',
                        k \notin dangling
                 PROVE  \E q \in Uploaders : /\ up'[q].pc = "replace" /\ up'[q].key = k
                                             /\ up'[q].existing.object = docs[k].object
      BY <2>1 DEF RowHasObject
    <3>1. CASE docs[k].object = up[r].existing.object
      <4>1. k = up[r].key
        BY <2>n, <3>1 DEF DocInv, KeysAreApart
      <4> QED BY <2>2, <3>1, <4>1
    <3>2. CASE docs[k].object # up[r].existing.object
      <4>1. PICK q \in Uploaders : /\ up[q].pc = "replace" /\ up[q].key = k
                                   /\ up[q].existing.object = docs[k].object
        BY <2>1, <3>2 DEF DocInv, RowHasObject
      <4> QED BY <2>1, <2>2, <4>1
    <3> QED BY <3>1, <3>2
  <2> QED BY <2>3, <2>4, <2>5, <2>6, <2>7, <2>8 DEF DocInv
<1>5. ASSUME NEW r \in Uploaders, ReplaceDocument(r)
      PROVE  DocInv'
  <2> DEFINE s == up[r]
             here == docs[s.key] # None /\ docs[s.key].id = s.existing.id
  <2>1. /\ objects' = objects /\ dangling' = dangling /\ uploads' = uploads
        /\ s.pc = "replace" /\ s.key \in DocKeys /\ s.new \in Objects
    BY <1>5 DEF ReplaceDocument, DocTyped, UploadOK
  <2>2. CASE here
    <3> DEFINE row == [docs[s.key] EXCEPT !.object = s.new]
    <3>1. row \in TradeDocument /\ row.object = s.new
      BY <2>1, <2>2 DEF TradeDocument, DocTyped, DocTypeOK
    <3>2. docs' = [docs EXCEPT ![s.key] = row]
      BY <1>5, <2>2 DEF ReplaceDocument, DocTyped, DocTypeOK
    <3>3. /\ up'[r].pc = "list" /\ up'[r].new = s.new
          /\ \A q \in Uploaders \ {r} : up'[q] = up[q]
      BY <1>5, <2>2 DEF ReplaceDocument, DocTyped, DocTypeOK, Upload
    <3> HIDE DEF row
    <3> QED BY <2>1, <3>1, <3>2, <3>3, RowTakesNew
  <2>3. CASE ~here
    <3>1. CloseUpload(r) /\ docs' = docs
      BY <1>5, <2>3 DEF ReplaceDocument
    <3>2. docs[s.key] = None \/ docs[s.key].object # s.existing.object
      BY <2>1, <2>3 DEF DocInv, SameObjectSameRow, Replacing
    <3> QED BY <1>0, <2>1, <3>1, <3>2, UploadLeaves
  <2> QED BY <2>2, <2>3
<1>6. ASSUME NEW r \in Uploaders, InsertDocument(r)
      PROVE  DocInv'
  <2> DEFINE s == up[r]
             row == [id |-> s.new, object |-> s.new]
  <2>1. /\ objects' = objects /\ dangling' = dangling /\ uploads' = uploads
        /\ s.pc = "insert" /\ s.new \in Objects
    BY <1>6 DEF InsertDocument, DocTyped, UploadOK
  <2>2. CASE docs[s.key] = None
    <3>1. row \in TradeDocument /\ row.object = s.new
      BY <2>1 DEF TradeDocument
    <3>2. docs' = [docs EXCEPT ![s.key] = row]
      BY <1>6, <2>2 DEF InsertDocument
    <3>3. /\ up'[r].pc = "list" /\ up'[r].new = s.new
          /\ \A q \in Uploaders \ {r} : up'[q] = up[q]
      BY <1>6, <2>2 DEF InsertDocument, DocTyped, DocTypeOK, Upload
    <3> HIDE DEF row
    <3> QED BY <2>1, <3>1, <3>2, <3>3, RowTakesNew
  <2>3. CASE docs[s.key] # None
    <3>1. CloseUpload(r) /\ docs' = docs
      BY <1>6, <2>3 DEF InsertDocument
    <3> QED BY <1>0, <2>1, <3>1, UploadLeaves
  <2> QED BY <2>2, <2>3
<1>7. ASSUME NEW r \in Uploaders, ListDocuments(r)
      PROVE  DocInv'
  <2>1. /\ docs' = docs /\ objects' = objects /\ dangling' = dangling
        /\ uploads' = uploads /\ up[r].pc = "list"
    BY <1>7 DEF ListDocuments
  <2>2. /\ up'[r].pc = "update" /\ up'[r].new = up[r].new
        /\ \A q \in Uploaders \ {r} : up'[q] = up[q]
    BY <1>7 DEF ListDocuments, DocTyped, DocTypeOK, Upload
  <2> QED BY <2>1, <2>2, UploadLeaves
<1>8. ASSUME NEW r \in Uploaders, UpdateParticipant(r)
      PROVE  DocInv'
  <2>1. /\ docs' = docs /\ objects' = objects /\ dangling' = dangling
        /\ uploads' = uploads /\ up[r].pc = "update"
    BY <1>8 DEF UpdateParticipant
  <2>2. PICK p : CloseUpload(r) \/ up' = [up EXCEPT ![r].todo = @ \ {p}]
    BY <1>8 DEF UpdateParticipant
  <2>3. CASE CloseUpload(r)
    BY <1>0, <2>1, <2>3, UploadLeaves
  <2>4. CASE up' = [up EXCEPT ![r].todo = @ \ {p}]
    <3>1. /\ up'[r].pc = "update" /\ up'[r].new = up[r].new
          /\ \A q \in Uploaders \ {r} : up'[q] = up[q]
      BY <2>1, <2>4 DEF DocTyped, DocTypeOK, Upload
    <3> QED BY <2>1, <3>1, UploadLeaves
  <2> QED BY <2>2, <2>3, <2>4
<1>9. ASSUME SecondJoins \/ CleanupLoads \/ UNCHANGED docVars
      PROVE  DocInv'
  <2>1. /\ docs' = docs /\ objects' = objects /\ dangling' = dangling
        /\ uploads' = uploads /\ up' = up
    BY <1>9 DEF SecondJoins, CleanupLoads, docVars
  <2> QED BY <2>1 DEF DocInv, NamesBegun, NewIsOwn, KeysAreApart, NewIsStored,
                      SameObjectSameRow, RowHasObject, Storing, Replacing
<1>10. CASE CleanupDeletes
  <2>1. /\ \A k \in DocKeys : docs'[k] = None
        /\ objects' = objects /\ dangling' = dangling /\ uploads' = uploads /\ up' = up
    BY <1>10 DEF CleanupDeletes
  <2>2. \A r \in Uploaders : Replacing(r) => up[r].key \in DocKeys
    BY DEF DocTyped, UploadOK, Replacing
  <2> QED BY <2>1, <2>2 DEF DocInv, NamesBegun, NewIsOwn, KeysAreApart, NewIsStored,
                            SameObjectSameRow, RowHasObject, Storing, Replacing
<1>11. CASE DocCrash
  <2>1. /\ docs' = docs /\ objects' = objects /\ uploads' = uploads
        /\ \A r \in Uploaders : up'[r].pc = "idle"
        /\ dangling \subseteq dangling'
        /\ \A r \in Uploaders : up[r].pc = "replace" => up[r].key \in dangling'
    BY <1>11 DEF DocCrash, NoUpload
  <2>2. RowHasObject'
    BY <2>1 DEF DocInv, RowHasObject
  <2> QED BY <2>1, <2>2 DEF DocInv, NamesBegun, NewIsOwn, KeysAreApart, NewIsStored,
                            SameObjectSameRow, Storing, Replacing
<1> QED
  BY <1>1, <1>2, <1>3, <1>4, <1>5, <1>6, <1>7, <1>8, <1>9, <1>10, <1>11 DEF DocNext

\* A document row names an object of the store, whatever uploads run at once
\* and wherever they fail, but for a request between its delete and its commit
\* and for one a restart stopped there (submit_document of
\* services/trade_eligibility.py).
THEOREM RowsHaveObjects == DocSpec => []RowHasObject
<1>1. DocInit => DocInv
  <2> SUFFICES ASSUME DocInit PROVE DocInv
    OBVIOUS
  <2>1. /\ \A r \in Uploaders : up[r].pc = "idle"
        /\ \A k \in DocKeys : docs[k] = None
    BY DEF DocInit, NoUpload
  <2> QED BY <2>1 DEF DocInv, NamesBegun, NewIsOwn, KeysAreApart, NewIsStored,
                      SameObjectSameRow, RowHasObject, Storing, Replacing
<1>2. DocInv => RowHasObject
  BY DEF DocInv
<1> QED BY <1>1, <1>2, DocInitTyped, DocStepTyped, DocInvStep, PTL DEF DocSpec

-----------------------------------------------------------------------------
(* The roll-up                                                              *)

Rolled ==
    \A p \in Participants :
        people[p] # None => people[p].status = ComputeEligibilityStatus(Present)

\* An upload's copy is current until it writes; what it has written, and what
\* it will write, is the roll-up of the documents.
UploadRolls(s) ==
    /\ s.pc \notin {"idle", "update"} => s.copy = people
    /\ s.pc = "update" =>
        /\ s.status = ComputeEligibilityStatus(Present)
        /\ \A p \in s.todo : people[p] # None /\ people[p] = s.copy[p]
        /\ \A p \in Participants \ s.todo :
            people[p] # None => people[p].status = s.status

\* While nothing has disturbed the roll-up there is one upload at most, no
\* clean-up beside it, and only an upload past its commit of the document can
\* leave the participants behind.
RollInv ==
    ~unrolled =>
        /\ \A q, r \in Uploaders : Uploading(q) /\ Uploading(r) => q = r
        /\ doomed # None => \A r \in Uploaders : ~Uploading(r)
        /\ \A r \in Uploaders : UploadRolls(up[r])
        /\ (\A r \in Uploaders : up[r].pc \notin {"list", "update"}) => Rolled

\* A step of one upload up to the point where it writes participants.
LEMMA RollMove ==
  ASSUME DocTyped, RollInv, NEW r \in Uploaders, NEW t,
         up' = [up EXCEPT ![r] = t], up[r].pc \notin {"idle", "update"},
         UNCHANGED <<people, doomed, unrolled>>,
         t.pc \notin {"idle", "update"} => t.copy = up[r].copy,
         t.pc = "update" =>
            /\ t.status = ComputeEligibilityStatus(Present)'
            /\ t.todo = {p \in Participants : up[r].copy[p] # None}
            /\ t.copy = up[r].copy,
         t.pc \notin {"list", "update"} => up[r].pc # "list" /\ UNCHANGED Present
  PROVE  RollInv'
<1> SUFFICES ASSUME ~unrolled
             PROVE  /\ \A q, s \in Uploaders : Uploading(q)' /\ Uploading(s)' => q = s
                    /\ doomed' # None => \A q \in Uploaders : ~Uploading(q)'
                    /\ \A q \in Uploaders : UploadRolls(up[q])'
                    /\ (\A q \in Uploaders : up'[q].pc \notin {"list", "update"}) => Rolled'
  BY DEF RollInv
<1>1. up'[r] = t /\ \A q \in Uploaders \ {r} : up'[q] = up[q]
  BY DEF DocTyped, DocTypeOK
<1>2. /\ doomed = None /\ up[r].copy = people
      /\ \A q \in Uploaders \ {r} : up[q].pc = "idle"
      /\ (\A q \in Uploaders : up[q].pc \notin {"list", "update"}) => Rolled
  BY DEF RollInv, UploadRolls, Uploading
<1>3. \A q, s \in Uploaders : Uploading(q)' /\ Uploading(s)' => q = s
  BY <1>1, <1>2 DEF Uploading
<1>4. ASSUME NEW q \in Uploaders PROVE UploadRolls(up[q])'
  <2>1. CASE q = r
    <3>1. t.pc \notin {"idle", "update"} => t.copy = people'
      BY <1>2
    <3>2. t.pc = "update" =>
            /\ t.status = ComputeEligibilityStatus(Present)'
            /\ \A p \in t.todo : people'[p] # None /\ people'[p] = t.copy[p]
            /\ \A p \in Participants \ t.todo :
                people'[p] # None => people'[p].status = t.status
      BY <1>2
    <3> QED
      BY <1>1, <2>1, <3>1, <3>2 DEF UploadRolls
  <2>2. CASE q # r
    BY <1>1, <1>2, <2>2 DEF UploadRolls
  <2> QED
    BY <2>1, <2>2
<1>5. ASSUME \A q \in Uploaders : up'[q].pc \notin {"list", "update"} PROVE Rolled'
  <2>1. t.pc \notin {"list", "update"} /\ up[r].pc # "list" /\ UNCHANGED Present
    BY <1>1, <1>5
  <2>2. Rolled
    BY <1>2, <2>1
  <2> QED
    BY <2>1, <2>2 DEF Rolled, ComputeEligibilityStatus
<1> QED
  BY <1>2, <1>3, <1>4, <1>5

\* The commit of one participant over a copy that is current.
LEMMA RollUpdate ==
  ASSUME DocTyped, RollInv, NEW r \in Uploaders, UpdateParticipant(r)
  PROVE  RollInv'
<1> SUFFICES ASSUME ~unrolled
             PROVE  /\ \A q, s \in Uploaders : Uploading(q)' /\ Uploading(s)' => q = s
                    /\ doomed' # None => \A q \in Uploaders : ~Uploading(q)'
                    /\ \A q \in Uploaders : UploadRolls(up[q])'
                    /\ (\A q \in Uploaders : up'[q].pc \notin {"list", "update"}) => Rolled'
  BY DEF RollInv, UpdateParticipant
<1>p. PICK s : s = up[r]
  OBVIOUS
<1>1. /\ s.pc = "update" /\ s \in Upload /\ UNCHANGED <<docs, doomed>>
      /\ people \in [Participants -> Participant \cup {None}]
      /\ up \in [Uploaders -> Upload]
  BY <1>p DEF UpdateParticipant, DocTyped, DocTypeOK
<1>2. /\ doomed = None /\ s.status = ComputeEligibilityStatus(Present)
      /\ \A p \in s.todo : people[p] # None /\ people[p] = s.copy[p]
      /\ \A p \in Participants \ s.todo : people[p] # None => people[p].status = s.status
      /\ \A q \in Uploaders \ {r} : up[q].pc = "idle"
  BY <1>p, <1>1 DEF RollInv, UploadRolls, Uploading
<1>3. Present' = Present /\ ComputeEligibilityStatus(Present)' = ComputeEligibilityStatus(Present)
  BY <1>1 DEF Present, ComputeEligibilityStatus
<1>w. PICK p \in s.todo :
        /\ people' = [people EXCEPT ![p] = Flushed(people[p], s.copy[p],
                        [s.copy[p] EXCEPT !.status = s.status,
                                          !.stamped = @ \/ s.status = "submitted"])]
        /\ IF s.todo = {p} THEN CloseUpload(r)
           ELSE up' = [up EXCEPT ![r].todo = @ \ {p}]
  BY <1>p, <1>2 DEF UpdateParticipant
<1>x. PICK set : set = [s.copy[p] EXCEPT !.status = s.status,
                                         !.stamped = @ \/ s.status = "submitted"]
  OBVIOUS
<1>4. /\ people' = [people EXCEPT ![p] = Flushed(people[p], s.copy[p], set)]
      /\ \/ s.todo = {p} /\ CloseUpload(r)
         \/ s.todo # {p} /\ up' = [up EXCEPT ![r].todo = @ \ {p}]
  BY <1>w, <1>x
<1>5. p \in Participants /\ people[p] \in Participant /\ s.copy[p] = people[p]
  BY <1>1, <1>2, <1>w DEF Upload
<1>6. PICK f : f = Flushed(people[p], s.copy[p], set)
  OBVIOUS
<1>7. f.status = s.status
  <2>1. /\ DOMAIN people[p] = {"status", "stamped"}
        /\ set.status = s.status
    BY <1>x, <1>5 DEF Participant
  <2> QED
    BY <1>5, <1>6, <2>1 DEF Flushed
<1>8. people'[p] = f /\ \A q \in Participants \ {p} : people'[q] = people[q]
  BY <1>1, <1>4, <1>5, <1>6
<1>9. CASE s.todo = {p} /\ CloseUpload(r)
  <2>1. \A q \in Uploaders : up'[q].pc = "idle"
    BY <1>1, <1>2, <1>9 DEF CloseUpload, NoUpload
  <2>2. Rolled'
    BY <1>2, <1>3, <1>7, <1>8, <1>9 DEF Rolled
  <2> QED
    BY <2>1, <2>2 DEF Uploading, UploadRolls
<1>10. CASE s.todo # {p} /\ up' = [up EXCEPT ![r].todo = @ \ {p}]
  <2>1. PICK t : t = [s EXCEPT !.todo = @ \ {p}]
    OBVIOUS
  <2>2. /\ t.pc = "update" /\ t.status = s.status /\ t.copy = s.copy
        /\ t.todo = s.todo \ {p}
    BY <1>1, <2>1 DEF Upload
  <2>3. up'[r] = t /\ \A q \in Uploaders \ {r} : up'[q] = up[q]
    BY <1>p, <1>1, <1>10, <2>1
  <2>4. UploadRolls(up[r])'
    <3>1. \A q \in t.todo : people'[q] # None /\ people'[q] = t.copy[q]
      BY <1>1, <1>2, <1>8, <2>2 DEF Upload
    <3>2. \A q \in Participants \ t.todo : people'[q] # None => people'[q].status = t.status
      BY <1>2, <1>7, <1>8, <2>2
    <3> QED
      BY <1>2, <1>3, <2>2, <2>3, <3>1, <3>2 DEF UploadRolls
  <2>5. \A q \in Uploaders \ {r} : UploadRolls(up[q])'
    BY <1>2, <2>3 DEF UploadRolls
  <2> QED
    BY <1>1, <1>2, <2>2, <2>3, <2>4, <2>5 DEF Uploading
<1> QED
  BY <1>4, <1>9, <1>10

LEMMA RollStep == DocTyped /\ RollInv /\ [DocNext]_docVars => RollInv'
<1> SUFFICES ASSUME DocTyped, RollInv, [DocNext]_docVars PROVE RollInv'
  OBVIOUS
<1>t. /\ up \in [Uploaders -> Upload] /\ docs \in [DocKeys -> TradeDocument \cup {None}]
      /\ people \in [Participants -> Participant \cup {None}]
  BY DEF DocTyped, DocTypeOK
<1>n. NoUpload.pc = "idle"
  BY DEF NoUpload
<1>1. ASSUME NEW r \in Uploaders, NEW k \in DocKeys, SubmitStart(r, k)
      PROVE  RollInv'
  <2> SUFFICES ASSUME ~unrolled'
               PROVE  /\ \A q, s \in Uploaders : Uploading(q)' /\ Uploading(s)' => q = s
                      /\ doomed' # None => \A q \in Uploaders : ~Uploading(q)'
                      /\ \A q \in Uploaders : UploadRolls(up[q])'
                      /\ (\A q \in Uploaders : up'[q].pc \notin {"list", "update"}) => Rolled'
    BY DEF RollInv
  <2>1. /\ ~unrolled /\ doomed = None /\ (\A q \in Uploaders : up[q].pc = "idle")
        /\ UNCHANGED <<people, docs, doomed>>
    BY <1>1 DEF SubmitStart, Uploading
  <2>2. PICK t : /\ t = [NoUpload EXCEPT !.pc = "upload", !.key = k,
                                         !.new = BuildStorageKey(k), !.copy = people]
                 /\ up' = [up EXCEPT ![r] = t]
    BY <1>1 DEF SubmitStart
  <2>3. t.pc = "upload" /\ t.copy = people
    BY <2>2 DEF NoUpload
  <2>4. up'[r] = t /\ \A q \in Uploaders \ {r} : up'[q] = up[q]
    BY <1>t, <2>2
  <2>5. Rolled /\ UNCHANGED Present
    BY <2>1 DEF RollInv, Present
  <2>6. Rolled'
    BY <2>1, <2>5 DEF Rolled, ComputeEligibilityStatus
  <2> QED
    BY <2>1, <2>3, <2>4, <2>6 DEF Uploading, UploadRolls
<1>2. ASSUME NEW r \in Uploaders, UploadDocument(r) PROVE RollInv'
  <2>1. PICK t : /\ t \in {[up[r] EXCEPT !.pc = "lookup"], NoUpload}
                 /\ up' = [up EXCEPT ![r] = t]
    BY <1>2 DEF UploadDocument, CloseUpload
  <2>2. t.pc \in {"lookup", "idle"} /\ (t.pc = "lookup" => t.copy = up[r].copy)
    BY <1>t, <1>n, <2>1 DEF Upload
  <2>3. /\ up[r].pc = "upload" /\ UNCHANGED <<people, doomed, unrolled>>
        /\ UNCHANGED Present
    BY <1>2 DEF UploadDocument, Present
  <2> QED
    BY <2>1, <2>2, <2>3, RollMove
<1>3. ASSUME NEW r \in Uploaders, GetDocument(r) PROVE RollInv'
  <2>p. PICK x, c : /\ x = docs[up[r].key]
                    /\ c = IF x = None THEN "insert" ELSE "delete"
    OBVIOUS
  <2>q. PICK t : t = [up[r] EXCEPT !.pc = c, !.existing = x]
    OBVIOUS
  <2>1. up' = [up EXCEPT ![r] = t]
    BY <1>3, <1>t, <2>p, <2>q DEF GetDocument
  <2>2. t.pc \in {"insert", "delete"} /\ t.copy = up[r].copy
    BY <1>t, <2>p, <2>q DEF Upload
  <2>3. /\ up[r].pc = "lookup" /\ UNCHANGED <<people, doomed, unrolled>>
        /\ UNCHANGED Present
    BY <1>3 DEF GetDocument, Present
  <2> QED
    BY <2>1, <2>2, <2>3, RollMove
<1>4. ASSUME NEW r \in Uploaders, DeleteDocument(r) PROVE RollInv'
  <2>1. PICK t : t = [up[r] EXCEPT !.pc = "replace"] /\ up' = [up EXCEPT ![r] = t]
    BY <1>4 DEF DeleteDocument
  <2>2. t.pc = "replace" /\ t.copy = up[r].copy
    BY <1>t, <2>1 DEF Upload
  <2>3. /\ up[r].pc = "delete" /\ UNCHANGED <<people, doomed, unrolled>>
        /\ UNCHANGED Present
    BY <1>4 DEF DeleteDocument, Present
  <2> QED
    BY <2>1, <2>2, <2>3, RollMove
<1>5. ASSUME NEW r \in Uploaders, ReplaceDocument(r) PROVE RollInv'
  <2>1. PICK t : /\ \/ t = [up[r] EXCEPT !.pc = "list", !.existing = None]
                    \/ t = NoUpload /\ UNCHANGED docs
                 /\ up' = [up EXCEPT ![r] = t]
    BY <1>5, <1>t DEF ReplaceDocument, CloseUpload
  <2>2. /\ t.pc \in {"list", "idle"} /\ (t.pc = "list" => t.copy = up[r].copy)
        /\ t.pc = "idle" => UNCHANGED docs
    BY <1>t, <1>n, <2>1 DEF Upload
  <2>3. up[r].pc = "replace" /\ UNCHANGED <<people, doomed, unrolled>>
    BY <1>5 DEF ReplaceDocument
  <2>4. t.pc = "idle" => UNCHANGED Present
    BY <2>2 DEF Present
  <2> QED
    BY <2>1, <2>2, <2>3, <2>4, RollMove
<1>6. ASSUME NEW r \in Uploaders, InsertDocument(r) PROVE RollInv'
  <2>1. PICK t : /\ \/ t = [up[r] EXCEPT !.pc = "list"]
                    \/ t = NoUpload /\ UNCHANGED docs
                 /\ up' = [up EXCEPT ![r] = t]
    BY <1>6 DEF InsertDocument, CloseUpload
  <2>2. /\ t.pc \in {"list", "idle"} /\ (t.pc = "list" => t.copy = up[r].copy)
        /\ t.pc = "idle" => UNCHANGED docs
    BY <1>t, <1>n, <2>1 DEF Upload
  <2>3. up[r].pc = "insert" /\ UNCHANGED <<people, doomed, unrolled>>
    BY <1>6 DEF InsertDocument
  <2>4. t.pc = "idle" => UNCHANGED Present
    BY <2>2 DEF Present
  <2> QED
    BY <2>1, <2>2, <2>3, <2>4, RollMove
<1>7. ASSUME NEW r \in Uploaders, ListDocuments(r) PROVE RollInv'
  <2>1. PICK t : /\ t = [up[r] EXCEPT !.pc = "update",
                            !.status = ComputeEligibilityStatus(Present),
                            !.todo = {p \in Participants : up[r].copy[p] # None}]
                 /\ up' = [up EXCEPT ![r] = t]
    BY <1>7, <1>t DEF ListDocuments
  <2>2. /\ t.pc = "update" /\ t.copy = up[r].copy
        /\ t.todo = {p \in Participants : up[r].copy[p] # None}
        /\ t.status = ComputeEligibilityStatus(Present)
    BY <1>t, <2>1 DEF Upload
  <2>3. /\ up[r].pc = "list" /\ UNCHANGED <<people, doomed, unrolled>>
        /\ ComputeEligibilityStatus(Present)' = ComputeEligibilityStatus(Present)
    BY <1>7 DEF ListDocuments, Present, ComputeEligibilityStatus
  <2> QED
    BY <2>1, <2>2, <2>3, RollMove
<1>8. ASSUME NEW r \in Uploaders, UpdateParticipant(r) PROVE RollInv'
  BY <1>8, RollUpdate
<1>9. CASE SecondJoins
  <2>1. CASE unrolled'
    BY <2>1 DEF RollInv
  <2>2. CASE ~unrolled'
    <3>1. /\ ~unrolled /\ Present = {} /\ (\A r \in Uploaders : up[r].pc = "idle")
          /\ UNCHANGED <<docs, up>> /\ people' = [people EXCEPT ![2] = NewParticipant]
      BY <1>9, <2>2 DEF SecondJoins, Uploading
    <3>2. Rolled /\ Present' = {} /\ ComputeEligibilityStatus(Present)' = "not_requested"
          /\ ComputeEligibilityStatus(Present) = "not_requested"
      BY <3>1 DEF RollInv, Present, ComputeEligibilityStatus
    <3>3. Rolled'
      BY <1>t, <3>1, <3>2 DEF Rolled, NewParticipant, Participants
    <3> QED
      BY <3>1, <3>3 DEF RollInv, Uploading, UploadRolls
  <2> QED
    BY <2>1, <2>2
<1>10. CASE CleanupLoads
  <2>1. CASE unrolled'
    BY <2>1 DEF RollInv
  <2>2. CASE ~unrolled'
    <3>1. /\ ~unrolled /\ (\A r \in Uploaders : up[r].pc = "idle")
          /\ UNCHANGED <<people, docs, up>>
      BY <1>10, <2>2 DEF CleanupLoads, Uploading
    <3>2. Rolled /\ UNCHANGED Present
      BY <3>1 DEF RollInv, Present
    <3>3. Rolled'
      BY <3>1, <3>2 DEF Rolled, ComputeEligibilityStatus
    <3> QED
      BY <3>1, <3>3 DEF RollInv, Uploading, UploadRolls
  <2> QED
    BY <2>1, <2>2
<1>11. CASE CleanupDeletes
  <2>1. CASE unrolled'
    BY <2>1 DEF RollInv
  <2>2. CASE ~unrolled'
    <3>1. /\ ~unrolled /\ doomed # None /\ UNCHANGED up /\ doomed' = None
          /\ people' = [p \in Participants |-> IF p \in doomed THEN None ELSE people[p]]
          /\ \A p \in Participants : people[p] # None => p \in doomed
      BY <1>11, <2>2 DEF CleanupDeletes
    <3>2. \A r \in Uploaders : up[r].pc = "idle"
      BY <3>1 DEF RollInv, Uploading
    <3>3. Rolled'
      BY <3>1 DEF Rolled
    <3> QED
      BY <3>1, <3>2, <3>3 DEF RollInv, Uploading, UploadRolls
  <2> QED
    BY <2>1, <2>2
<1>12. CASE DocCrash
  <2>1. CASE unrolled'
    BY <2>1 DEF RollInv
  <2>2. CASE ~unrolled'
    <3>1. /\ ~unrolled /\ (\A r \in Uploaders : up[r].pc = "idle")
          /\ UNCHANGED <<people, docs, doomed>> /\ (\A r \in Uploaders : up'[r].pc = "idle")
      BY <1>12, <1>n, <2>2 DEF DocCrash, Uploading
    <3>2. Rolled /\ UNCHANGED Present
      BY <3>1 DEF RollInv, Present
    <3>3. Rolled'
      BY <3>1, <3>2 DEF Rolled, ComputeEligibilityStatus
    <3> QED
      BY <3>1, <3>3 DEF RollInv, Uploading, UploadRolls
  <2> QED
    BY <2>1, <2>2
<1>13. CASE UNCHANGED docVars
  BY <1>13 DEF docVars, RollInv, Uploading, UploadRolls, Rolled, Present,
               ComputeEligibilityStatus
<1> QED
  BY <1>1, <1>2, <1>3, <1>4, <1>5, <1>6, <1>7, <1>8, <1>9, <1>10, <1>11, <1>12, <1>13
     DEF DocNext

\* Between uploads each participant's eligibility_status is the roll-up of the
\* documents, whatever failed before a document was committed, unless uploads
\* overlapped or were cut off, a participant joined later, or the clean-up left
\* one behind (submit_document of services/trade_eligibility.py).
THEOREM StatusRolledUp == DocSpec => []StatusIsRollup
<1>1. DocInit => RollInv
  <2> SUFFICES ASSUME DocInit PROVE RollInv
    OBVIOUS
  <2>1. /\ (\A r \in Uploaders : up[r].pc = "idle") /\ doomed = None
        /\ Present = {} /\ \A p \in Participants : people[p] # None
                                => people[p].status = "not_requested"
    BY DEF DocInit, NoUpload, NewParticipant, Present
  <2>2. Rolled
    BY <2>1 DEF Rolled, ComputeEligibilityStatus
  <2> QED
    BY <2>1, <2>2 DEF RollInv, Uploading, UploadRolls
<1>2. RollInv => StatusIsRollup
  <2> SUFFICES ASSUME RollInv, ~unrolled, \A r \in Uploaders : ~Uploading(r),
                      NEW p \in Participants, people[p] # None
               PROVE  /\ (people[p].status = "not_requested") <=> (Present = {})
                      /\ (people[p].status = "submitted")
                            <=> (Present # {} /\ Required \subseteq Present)
    BY DEF StatusIsRollup
  <2>1. people[p].status = ComputeEligibilityStatus(Present)
    BY DEF RollInv, Rolled, Uploading
  <2> QED
    BY <2>1 DEF ComputeEligibilityStatus
<1> QED BY <1>1, <1>2, DocInitTyped, DocStepTyped, RollStep, PTL DEF DocSpec

-----------------------------------------------------------------------------
(* The watermark of the analytics API.                                      *)

\* Every row carries the begin of the transaction that wrote it, and what a
\* request has read was written by a transaction that is still in some stamp,
\* unless one was set back under it.
ReportInv ==
    /\ ReportTypeOK
    /\ \A d \in ReportDeals : stamp[d] = began[d] /\ began[d] <= writes
    /\ \A t \in webhooks \cup syncs : t <= writes
    /\ report.pc = "idle" => report.newest = 0
    /\ ~setback => report.newest = 0 \/ \E d \in ReportDeals : report.newest <= stamp[d]
    /\ WatermarkCoversRows

\* A bounded set of numbers that is not empty has a largest element.
LEMMA MaxExists ==
  ASSUME NEW N \in Nat, NEW S, S \subseteq 0 .. N, S # {}
  PROVE  Max(S) \in S /\ \A y \in S : y <= Max(S)
<1>1. PICK T : T = {n \in Nat : \E y \in S : n = N - y}
  OBVIOUS
<1>2. T \subseteq Nat /\ T # {}
  <2>1. PICK y \in S : TRUE
    OBVIOUS
  <2>2. N - y \in Nat
    OBVIOUS
  <2> QED
    BY <1>1, <2>1, <2>2
<1>3. PICK x \in T : \A y \in T : ~ (<<y, x>> \in OpToRel(<, Nat))
  BY <1>2, NatLessThanWellFounded, WFMin
<1>4. \A y \in T : x <= y
  <2> SUFFICES ASSUME NEW y \in T, ~(x <= y) PROVE FALSE
    OBVIOUS
  <2>1. x \in Nat /\ y \in Nat /\ y < x
    BY <1>2
  <2>2. <<y, x>> \in OpToRel(<, Nat)
    BY <2>1 DEF OpToRel
  <2> QED
    BY <1>3, <2>2
<1>5. PICK m \in S : x = N - m
  BY <1>1
<1>6. \A y \in S : N - y \in T
  BY <1>1
<1>7. \A y \in S : y <= m
  BY <1>4, <1>5, <1>6
<1> QED
  BY <1>7 DEF Max

LEMMA StampsAreBounded ==
  ASSUME ReportTypeOK
  PROVE  /\ DataAsOf \in 0 .. MaxWrites
         /\ \A d \in ReportDeals : stamp[d] <= DataAsOf
<1>1. PICK S : S = {0} \cup {stamp[d] : d \in ReportDeals}
  OBVIOUS
<1>2. S \subseteq 0 .. MaxWrites /\ S # {} /\ \A d \in ReportDeals : stamp[d] \in S
  <2>1. 0 \in 0 .. MaxWrites
    BY ReportAssumptions
  <2> QED
    BY <1>1, <2>1 DEF ReportTypeOK
<1>3. MaxWrites \in Nat
  BY ReportAssumptions
<1>4. Max(S) \in S /\ \A y \in S : y <= Max(S)
  BY <1>2, <1>3, MaxExists
<1> QED
  BY <1>1, <1>2, <1>4 DEF DataAsOf

\* What a request has read: as before, or a row of now.
LEMMA ReadRowsAre ==
  ASSUME ReportTypeOK, NEW scope
  PROVE  /\ ReadRows(scope) \in 0 .. MaxWrites
         /\ ReadRows(scope) = report.newest \/ \E d \in ReportDeals : ReadRows(scope) = began[d]
<1>1. PICK S : S = {report.newest} \cup {began[d] : d \in Filtered(table, NoFilters, scope)}
  OBVIOUS
<1>2. Filtered(table, NoFilters, scope) \subseteq ReportDeals
  BY DEF Filtered
<1>3. /\ S \subseteq 0 .. MaxWrites /\ S # {}
      /\ \A x \in S : x = report.newest \/ \E d \in ReportDeals : x = began[d]
  BY <1>1, <1>2 DEF ReportTypeOK, Report
<1>4. MaxWrites \in Nat
  BY ReportAssumptions
<1>5. Max(S) \in S
  BY <1>3, <1>4, MaxExists
<1> QED
  BY <1>1, <1>3, <1>5 DEF ReadRows

\* The upserts of a transaction are committed.
LEMMA UpsertsInv ==
  ASSUME ReportInv, NEW ds \in SUBSET ReportDeals, NEW rows \in [ds -> RowChoices],
         NEW now \in 1 .. MaxWrites, CommitUpserts(rows, now), now <= writes',
         writes <= writes', writes' \in 0 .. MaxWrites, UNCHANGED report,
         webhooks' \subseteq webhooks, syncs' \subseteq syncs
  PROVE  ReportInv'
<1>1. DOMAIN rows = ds
  OBVIOUS
<1>2. \A d \in ReportDeals : d \in ds => rows[d] \in RowChoices
  OBVIOUS
<1>3. /\ table' = [d \in ReportDeals |-> IF d \in ds THEN rows[d] ELSE table[d]]
      /\ stamp' = [d \in ReportDeals |-> IF d \in ds THEN now ELSE stamp[d]]
      /\ began' = [d \in ReportDeals |-> IF d \in ds THEN now ELSE began[d]]
      /\ setback' = (setback \/ \E d \in ds : began[d] > now)
  BY <1>1 DEF CommitUpserts, BumpedStamp
<1>4. /\ table \in [ReportDeals -> RowChoices \cup {None}]
      /\ stamp \in [ReportDeals -> 0 .. MaxWrites] /\ began \in [ReportDeals -> 0 .. MaxWrites]
      /\ writes \in 0 .. MaxWrites /\ report \in Report /\ setback \in BOOLEAN
      /\ now \in 0 .. MaxWrites
  BY DEF ReportInv, ReportTypeOK
<1>5. /\ table' \in [ReportDeals -> RowChoices \cup {None}]
      /\ stamp' \in [ReportDeals -> 0 .. MaxWrites] /\ began' \in [ReportDeals -> 0 .. MaxWrites]
      /\ setback' \in BOOLEAN
  BY <1>2, <1>3, <1>4
<1>6. ReportTypeOK' /\ \A t \in webhooks' \cup syncs' : t <= writes'
  <2>1. webhooks' \subseteq 1 .. MaxWrites /\ syncs' \subseteq 1 .. MaxWrites
    BY DEF ReportInv, ReportTypeOK
  <2>2. \A t \in webhooks \cup syncs : t \in Nat /\ t <= writes
    BY DEF ReportInv, ReportTypeOK
  <2>3. \A t \in webhooks' \cup syncs' : t <= writes'
    BY <1>4, <2>2
  <2> QED
    BY <1>4, <1>5, <2>1, <2>3 DEF ReportTypeOK
<1>7. \A d \in ReportDeals : stamp'[d] = began'[d] /\ began'[d] <= writes'
  BY <1>3, <1>4 DEF ReportInv
<1>8. ~setback' => ~setback /\ \A d \in ReportDeals : stamp[d] <= stamp'[d]
  <2> SUFFICES ASSUME ~setback', NEW d \in ReportDeals
               PROVE  stamp[d] <= stamp'[d]
    BY <1>3
  <2>1. CASE d \in ds
    <3>1. ~(began[d] > now) /\ stamp[d] = began[d] /\ stamp'[d] = now
      BY <1>3, <2>1 DEF ReportInv
    <3> QED
      BY <1>4, <3>1
  <2>2. CASE d \notin ds
    BY <1>3, <1>4, <2>2
  <2> QED
    BY <2>1, <2>2
<1>9. ~setback' => report'.newest = 0 \/ \E d \in ReportDeals : report'.newest <= stamp'[d]
  <2> SUFFICES ASSUME ~setback', report.newest # 0
               PROVE  \E d \in ReportDeals : report.newest <= stamp'[d]
    OBVIOUS
  <2>1. PICK d \in ReportDeals : report.newest <= stamp[d]
    BY <1>8 DEF ReportInv
  <2>2. report.newest \in Nat /\ stamp[d] \in Nat /\ stamp'[d] \in Nat
    BY <1>4, <1>5 DEF Report
  <2> QED
    BY <1>8, <2>1, <2>2
<1>10. WatermarkCoversRows'
  BY <1>8 DEF ReportInv, WatermarkCoversRows
<1> QED
  BY <1>6, <1>7, <1>9, <1>10 DEF ReportInv

\* A step of a request.
LEMMA RequestStepInv ==
  ASSUME ReportInv, UNCHANGED <<table, stamp, writes, webhooks, syncs, began>>,
         NEW r \in Report, report' = r, setback' \in BOOLEAN,
         r.pc = "idle" => r.newest = 0,
         ~setback' => r.newest = 0 \/ \E d \in ReportDeals : r.newest <= stamp[d],
         r.pc = "answered" /\ ~setback' => r.newest <= r.as_of
  PROVE  ReportInv'
<1>1. ReportTypeOK'
  BY DEF ReportInv, ReportTypeOK
<1>2. WatermarkCoversRows'
  BY DEF WatermarkCoversRows
<1> QED
  BY <1>1, <1>2 DEF ReportInv

\* The rows that are read carry stamps.
LEMMA NewestIsStamped ==
  ASSUME ReportInv, NEW scope, ~setback \/ report.pc = "idle"
  PROVE  ReadRows(scope) = 0 \/ \E d \in ReportDeals : ReadRows(scope) <= stamp[d]
<1>1. CASE ReadRows(scope) = report.newest
  BY <1>1 DEF ReportInv
<1>2. ASSUME NEW d \in ReportDeals, ReadRows(scope) = began[d]
      PROVE  ReadRows(scope) <= stamp[d]
  BY <1>2 DEF ReportInv, ReportTypeOK
<1> QED
  BY <1>1, <1>2, ReadRowsAre DEF ReportInv

LEMMA ReportInitInv == ReportInit => ReportInv
<1> SUFFICES ASSUME ReportInit
             PROVE  ReportInv
  OBVIOUS
<1>1. 0 \in 0 .. MaxWrites /\ writes = 0
  BY ReportAssumptions DEF ReportInit
<1>2. NoReport \in Report /\ NoReport.newest = 0 /\ NoReport.pc # "answered"
  BY <1>1 DEF NoReport, Report, OrNull
<1>3. ReportTypeOK
  BY <1>1, <1>2 DEF ReportInit, ReportTypeOK, OrNull
<1>4. \A d \in ReportDeals : stamp[d] = began[d] /\ began[d] <= writes
  BY <1>1 DEF ReportInit
<1>5. WatermarkCoversRows
  BY <1>2 DEF ReportInit, WatermarkCoversRows
<1> QED
  BY <1>2, <1>3, <1>4, <1>5 DEF ReportInit, ReportInv

\* A transaction begins.
LEMMA BeginInv ==
  ASSUME ReportInv, BeginWrite, UNCHANGED <<table, stamp, report, began, setback>>,
         webhooks' \subseteq webhooks \cup {writes + 1}, syncs' \subseteq syncs \cup {writes + 1}
  PROVE  ReportInv'
<1>1. /\ ReportTypeOK /\ writes \in 0 .. MaxWrites /\ MaxWrites \in Nat
      /\ webhooks \subseteq 1 .. MaxWrites /\ syncs \subseteq 1 .. MaxWrites
      /\ \A t \in webhooks \cup syncs : t <= writes
  BY ReportAssumptions DEF ReportInv, ReportTypeOK
<1>2. /\ writes' = writes + 1 /\ writes' \in 0 .. MaxWrites
      /\ writes + 1 \in 1 .. MaxWrites
  BY <1>1 DEF BeginWrite
<1>3. webhooks' \subseteq 1 .. MaxWrites /\ syncs' \subseteq 1 .. MaxWrites
  BY <1>1, <1>2
<1>4. \A t \in webhooks' \cup syncs' : t <= writes'
  <2> SUFFICES ASSUME NEW t \in webhooks' \cup syncs', t # writes + 1
               PROVE  t <= writes'
    BY <1>1, <1>2
  <2>1. t \in webhooks \cup syncs /\ t \in Nat /\ t <= writes
    BY <1>1
  <2> QED
    BY <1>1, <1>2, <2>1
<1>5. ReportTypeOK'
  BY <1>1, <1>2, <1>3 DEF ReportTypeOK
<1>6. \A d \in ReportDeals : stamp'[d] = began'[d] /\ began'[d] <= writes'
  <2>1. \A d \in ReportDeals : began[d] \in Nat
    BY <1>1 DEF ReportTypeOK
  <2> QED
    BY <1>1, <1>2, <2>1 DEF ReportInv
<1>7. WatermarkCoversRows'
  BY DEF ReportInv, WatermarkCoversRows
<1> QED
  BY <1>4, <1>5, <1>6, <1>7 DEF ReportInv

LEMMA ReportNextInv == ReportInv /\ [ReportNext]_reportVars => ReportInv'
<1> SUFFICES ASSUME ReportInv, [ReportNext]_reportVars
             PROVE  ReportInv'
  OBVIOUS
<1>t. /\ ReportTypeOK /\ report \in Report /\ writes \in 0 .. MaxWrites /\ MaxWrites \in Nat
      /\ report.newest \in 0 .. MaxWrites
      /\ webhooks \subseteq 1 .. MaxWrites /\ syncs \subseteq 1 .. MaxWrites
      /\ \A t \in webhooks \cup syncs : t <= writes
  BY ReportAssumptions DEF ReportInv, ReportTypeOK, Report
<1>1. CASE WebhookBegins
  BY <1>1, BeginInv DEF WebhookBegins
<1>2. CASE SyncBatchBegins
  BY <1>2, BeginInv DEF SyncBatchBegins
<1>3. ASSUME NEW now \in webhooks, NEW d \in ReportDeals, NEW row \in RowChoices,
             WebhookCommits(now, d, row)
      PROVE  ReportInv'
  <2>1. PICK rows : rows = [x \in {d} |-> row]
    OBVIOUS
  <2>2. rows \in [{d} -> RowChoices] /\ {d} \in SUBSET ReportDeals
    BY <2>1
  <2>3. /\ CommitUpserts(rows, now) /\ webhooks' \subseteq webhooks
        /\ UNCHANGED <<writes, syncs, report>>
    BY <1>3, <2>1 DEF WebhookCommits
  <2>4. now \in 1 .. MaxWrites /\ now <= writes' /\ writes <= writes' /\ writes' \in 0 .. MaxWrites
    BY <1>t, <2>3
  <2> QED
    BY <2>2, <2>3, <2>4, UpsertsInv
<1>4. ASSUME NEW now \in syncs, SyncBatchCommits(now)
      PROVE  ReportInv'
  <2>1. PICK ds \in SUBSET ReportDeals \ {{}} : \E rows \in [ds -> RowChoices] :
            CommitUpserts(rows, now)
    BY <1>4 DEF SyncBatchCommits
  <2>2. PICK rows \in [ds -> RowChoices] : CommitUpserts(rows, now)
    BY <2>1
  <2>3. syncs' \subseteq syncs /\ UNCHANGED <<writes, webhooks, report>>
    BY <1>4 DEF SyncBatchCommits
  <2>4. now \in 1 .. MaxWrites /\ now <= writes' /\ writes <= writes' /\ writes' \in 0 .. MaxWrites
    BY <1>t, <2>3
  <2> QED
    BY <2>1, <2>2, <2>3, <2>4, UpsertsInv
<1>5. ASSUME NEW now \in webhooks \cup syncs, WriteEnds(now)
       PROVE  ReportInv'
  <2>1. /\ webhooks' \subseteq webhooks /\ syncs' \subseteq syncs
        /\ UNCHANGED <<table, stamp, writes, report, began, setback>>
    BY <1>5 DEF WriteEnds
  <2>2. ReportTypeOK' /\ WatermarkCoversRows'
    BY <1>t, <2>1 DEF ReportInv, ReportTypeOK, WatermarkCoversRows
  <2> QED
    BY <2>1, <2>2 DEF ReportInv
<1>6. ASSUME NEW role \in {"rep", "admin"}, NEW owner \in OrNull(DealOwners),
             NEW pc \in {"again", "as_of"}, ReportStarts(role, owner, pc)
      PROVE  ReportInv'
  <2>1. PICK scope, r : /\ scope = OwnerScope(role, owner)
                        /\ r = [pc |-> pc, scope |-> scope, newest |-> ReadRows(scope), as_of |-> 0]
    OBVIOUS
  <2>2. /\ report.pc = "idle" /\ report' = r /\ setback' = FALSE
        /\ UNCHANGED <<table, stamp, writes, webhooks, syncs, began>>
    BY <1>6, <2>1 DEF ReportStarts
  <2>3. r \in Report /\ r.pc \notin {"answered", "idle"} /\ r.newest = ReadRows(scope)
    <3>1. ReadRows(scope) \in 0 .. MaxWrites /\ 0 \in 0 .. MaxWrites
      BY <1>t, ReadRowsAre
    <3>2. scope \in OrNull(DealOwners)
      BY <2>1 DEF OwnerScope, OrNull
    <3> QED
      BY <2>1, <3>1, <3>2 DEF Report
  <2> QED
    BY <2>2, <2>3, NewestIsStamped, RequestStepInv
<1>7. CASE ReadsAgain
  <2>1. PICK scope, r : /\ scope = report.scope
                        /\ r = [report EXCEPT !.pc = "as_of", !.newest = ReadRows(report.scope)]
    OBVIOUS
  <2>2. report' = r /\ UNCHANGED <<table, stamp, writes, webhooks, syncs, began, setback>>
    BY <1>7, <2>1 DEF ReadsAgain
  <2>3. ReadRows(scope) \in 0 .. MaxWrites
    BY <1>t, ReadRowsAre
  <2>4. r \in Report /\ r.pc \notin {"answered", "idle"} /\ r.newest = ReadRows(scope)
    BY <1>t, <2>1, <2>3 DEF Report
  <2>5. setback' \in BOOLEAN
    BY <1>t, <2>2 DEF ReportTypeOK
  <2> QED
    BY <2>2, <2>4, <2>5, NewestIsStamped, RequestStepInv
<1>8. CASE ReadsAsOf
  <2>1. PICK r : r = [report EXCEPT !.pc = "answered", !.as_of = DataAsOf]
    OBVIOUS
  <2>2. report' = r /\ UNCHANGED <<table, stamp, writes, webhooks, syncs, began, setback>>
    BY <1>8, <2>1 DEF ReadsAsOf
  <2>3. DataAsOf \in 0 .. MaxWrites /\ \A d \in ReportDeals : stamp[d] <= DataAsOf
    BY <1>t, StampsAreBounded
  <2>4. r \in Report /\ r.newest = report.newest /\ r.as_of = DataAsOf
    BY <1>t, <2>1, <2>3 DEF Report
  <2>5. ~setback => r.newest = 0 \/ \E d \in ReportDeals : r.newest <= stamp[d]
    BY <2>4 DEF ReportInv
  <2>6. ~setback => r.newest <= r.as_of
    <3>1. \A d \in ReportDeals : stamp[d] \in Nat
      BY <1>t DEF ReportTypeOK
    <3> QED
      BY <1>t, <2>3, <2>4, <2>5, <3>1
  <2>7. setback' \in BOOLEAN /\ r.pc # "idle"
    BY <1>t, <2>1, <2>2 DEF ReportTypeOK, Report
  <2> QED
    BY <2>2, <2>4, <2>5, <2>6, <2>7, RequestStepInv
<1>9. CASE ReportDone
  <2>1. report' = NoReport /\ UNCHANGED <<table, stamp, writes, webhooks, syncs, began, setback>>
    BY <1>9 DEF ReportDone
  <2>2. /\ NoReport \in Report /\ NoReport.newest = 0 /\ NoReport.pc # "answered"
        /\ setback' \in BOOLEAN
    <3>1. 0 \in 0 .. MaxWrites /\ setback' \in BOOLEAN
      BY <1>t, <2>1 DEF ReportTypeOK
    <3> QED
      BY <3>1 DEF NoReport, Report, OrNull
  <2> QED
    BY <2>1, <2>2, RequestStepInv
<1>10. CASE UNCHANGED reportVars
  <2>1. UNCHANGED <<table, stamp, writes, webhooks, syncs, began, setback, report>>
    BY <1>10 DEF reportVars
  <2>2. ReportTypeOK' /\ WatermarkCoversRows'
    BY <2>1 DEF ReportInv, ReportTypeOK, WatermarkCoversRows
  <2> QED
    BY <2>1, <2>2 DEF ReportInv
<1> QED
  BY <1>1, <1>2, <1>3, <1>6, <1>7, <1>8, <1>9, <1>10, <1>4, <1>5 DEF ReportNext

LEMMA ReportInvariant == ReportSpec => []ReportInv
  BY ReportInitInv, ReportNextInv, PTL DEF ReportSpec

\* For any number of deals and of transactions open at once, and however webhooks
\* and batches of deal syncs commit between the statements of a request: its
\* data_as_of is not older than the rows its figures are of, unless meanwhile a
\* transaction overwrote a row of one that began after it.
THEOREM WatermarkCovers == ReportSpec => []WatermarkCoversRows
<1>1. ReportInv => WatermarkCoversRows
  BY DEF ReportInv
<1> QED
  BY <1>1, ReportInvariant, PTL

-----------------------------------------------------------------------------
(* The figures of the reports: what GROUP BY splits adds up again.           *)

\* F holds, for each key of D, how many deals of P have it.
CountsGroups(F, D, key, P) ==
    /\ DOMAIN F = {key[d] : d \in D}
    /\ \A k \in DOMAIN F : F[k] = Cardinality({d \in P : key[d] = k})

\* F holds, for each key of D, the sum of f over the deals of P that have it.
SumsGroups(F, D, key, P, f) ==
    /\ DOMAIN F = {key[d] : d \in D}
    /\ \A k \in DOMAIN F : F[k] = SumFunctionOnSet(f, {d \in P : key[d] = k})

LEMMA KeysFinite ==
  ASSUME NEW D, IsFiniteSet(D), NEW key
  PROVE  IsFiniteSet({key[d] : d \in D})
<1> DEFINE K == {key[d] : d \in D}
           b == [d \in D |-> key[d]]
<1>1. b \in Surjection(D, K)
  BY DEF Surjection
<1> HIDE DEF K, b
<1>2. IsFiniteSet(K)
  BY <1>1, FS_Surjection
<1> QED
  BY <1>2 DEF K

LEMMA SumsTotal ==
  ASSUME NEW D, IsFiniteSet(D), NEW key, NEW P, P \subseteq D, NEW f, IsNatural(f, P),
         NEW F, SumsGroups(F, D, key, P, f)
  PROVE  Total(F) = SumFunctionOnSet(f, P)
<1>1. IsFiniteSet(P) /\ IsFiniteSet(DOMAIN F)
  BY FS_Subset, KeysFinite DEF SumsGroups
<1>2. AddsGroups(F, DOMAIN F, f, P, key)
  BY DEF SumsGroups, AddsGroups
<1>3. SumFunctionOnSet(F, DOMAIN F) = SumFunctionOnSet(f, P)
  BY <1>1, <1>2, SumOfGroups
<1> QED
  BY <1>3 DEF Total, SumFunction

LEMMA CountsTotal ==
  ASSUME NEW D, IsFiniteSet(D), NEW key, NEW P, P \subseteq D,
         NEW F, CountsGroups(F, D, key, P)
  PROVE  Total(F) = Cardinality(P)
<1> DEFINE ones == [d \in P |-> 1]
<1>1. IsFiniteSet(P)
  BY FS_Subset
<1>2. ASSUME NEW k \in DOMAIN F
      PROVE  F[k] = SumFunctionOnSet(ones, {d \in P : key[d] = k})
  <2> DEFINE G == {d \in P : key[d] = k}
  <2>1. F[k] = Cardinality(G)
    BY DEF CountsGroups
  <2>2. IsFiniteSet(G) /\ \A d \in G : ones[d] = 1
    BY <1>1, FS_Subset
  <2>3. SumFunctionOnSet(ones, G) = Cardinality(G)
    <3> HIDE DEF G, ones
    <3> QED BY <2>2, SumOfOnes
  <2> QED
    BY <2>1, <2>3
<1>3. IsNatural(ones, P) /\ \A d \in P : ones[d] = 1
  BY DEF IsNatural
<1> HIDE DEF ones
<1>4. SumsGroups(F, D, key, P, ones)
  BY <1>2 DEF SumsGroups, CountsGroups
<1>5. Total(F) = SumFunctionOnSet(ones, P)
  BY <1>3, <1>4, SumsTotal
<1> QED
  BY <1>1, <1>3, <1>5, SumOfOnes

\* The rows of GROUP BY count every deal once.
LEMMA GroupsTotal ==
  ASSUME NEW D, IsFiniteSet(D), NEW key PROVE Total(Counts(GroupBy(D, key))) = Cardinality(D)
<1> DEFINE F == Counts(GroupBy(D, key))
<1>1. CountsGroups(F, D, key, D)
  BY DEF CountsGroups, Counts, GroupBy
<1> HIDE DEF F
<1>2. Total(F) = Cardinality(D)
  BY <1>1, CountsTotal
<1> QED
  BY <1>2 DEF F

\* Two parts that exclude each other.
LEMMA PartsCount ==
  ASSUME NEW D, IsFiniteSet(D), NEW A, NEW B, D = A \cup B, A \cap B = {}
  PROVE  Cardinality(A) + Cardinality(B) = Cardinality(D)
<1>1. IsFiniteSet(A) /\ IsFiniteSet(B)
  BY FS_Subset
<1>2. Cardinality(A \cup B) = Cardinality(A) + Cardinality(B) - Cardinality(A \cap B)
  BY <1>1, FS_Union
<1>3. Cardinality(A \cap B) = 0
  BY FS_EmptySet
<1>4. Cardinality(A) \in Nat /\ Cardinality(B) \in Nat
  BY <1>1, FS_CardinalityType
<1> QED
  BY <1>2, <1>3, <1>4

\* The deals that a query works on: finitely many, each with a row.
RowsOf(T, D) == IsFiniteSet(D) /\ \A d \in D : T[d] \in DealRow

LEMMA SubsetRows ==
  ASSUME NEW T, NEW D, RowsOf(T, D), NEW E, E \subseteq D PROVE RowsOf(T, E)
  BY FS_Subset DEF RowsOf

\* The values of some deals, read off the values of more.
LEMMA ValuesOf ==
  ASSUME NEW T, NEW D, RowsOf(T, D), NEW E, E \subseteq D
  PROVE  LET v == [d \in D |-> Value(T[d])]
         IN  IsNatural(v, E) /\ SumOfValues(T, E) = SumFunctionOnSet(v, E)
<1> DEFINE v == [d \in D |-> Value(T[d])]
           w == [d \in E |-> Value(T[d])]
<1>1. \A d \in D : Value(T[d]) \in Nat
  BY DEF RowsOf, Value, DealRow, OrNull
<1>2. IsFiniteSet(E) /\ IsNatural(v, E) /\ (\A d \in E : w[d] = v[d]) /\ DOMAIN w = E
  BY <1>1, FS_Subset DEF RowsOf, IsNatural
<1>3. SumFunctionOnSet(w, E) = SumFunctionOnSet(v, E)
  <2> HIDE DEF v, w
  <2> QED BY <1>2, SumOfSame
<1> QED
  BY <1>2, <1>3 DEF SumOfValues, SumFunction

\* get_overview adds up to the deals and values of a forecast.
LEMMA OverviewTotal ==
  ASSUME NEW T, NEW D, RowsOf(T, D), NEW forecast
  PROVE  /\ Total(OverviewCounts(T, D, forecast)) = Cardinality(In(T, D, forecast))
         /\ Total(OverviewValues(T, D, forecast)) = SumOfValues(T, In(T, D, forecast))
         /\ Total(OverviewTotals(T, D)) = Cardinality(D)
<1>1. PICK key : key = [d \in D |-> IF T[d].line = None THEN "Unassigned" ELSE T[d].line]
  OBVIOUS
<1>2. ByLine(T, D) = GroupBy(D, key) /\ DOMAIN GroupBy(D, key) = {key[d] : d \in D}
  BY <1>1 DEF ByLine, GroupBy
<1>3. In(T, D, forecast) \subseteq D /\ IsFiniteSet(D)
  BY DEF In, RowsOf
<1>k. \A k \in {key[d] : d \in D} :
            In(T, GroupBy(D, key)[k], forecast) = {d \in In(T, D, forecast) : key[d] = k}
  BY DEF In, GroupBy
<1>4. CountsGroups(OverviewCounts(T, D, forecast), D, key, In(T, D, forecast))
  BY <1>2, <1>k DEF CountsGroups, OverviewCounts
<1>5. PICK v : v = [d \in D |-> Value(T[d])]
  OBVIOUS
<1>6. /\ IsNatural(v, In(T, D, forecast))
      /\ SumOfValues(T, In(T, D, forecast)) = SumFunctionOnSet(v, In(T, D, forecast))
  BY <1>3, <1>5, ValuesOf
<1>7. SumsGroups(OverviewValues(T, D, forecast), D, key, In(T, D, forecast), v)
  <2>1. ASSUME NEW k \in {key[d] : d \in D}
        PROVE  SumOfValues(T, In(T, GroupBy(D, key)[k], forecast))
                = SumFunctionOnSet(v, {d \in In(T, D, forecast) : key[d] = k})
    <3>1. PICK E : E = {d \in In(T, D, forecast) : key[d] = k} /\ E \subseteq D
      BY <1>3
    <3>2. In(T, GroupBy(D, key)[k], forecast) = E
      BY <1>k, <2>1, <3>1
    <3>3. SumOfValues(T, E) = SumFunctionOnSet(v, E)
      BY <1>5, <3>1, ValuesOf
    <3> QED
      BY <3>1, <3>2, <3>3
  <2> QED
    BY <1>2, <2>1 DEF SumsGroups, OverviewValues
<1>8. Total(OverviewCounts(T, D, forecast)) = Cardinality(In(T, D, forecast))
  BY <1>3, <1>4, CountsTotal
<1>9. Total(OverviewValues(T, D, forecast)) = SumFunctionOnSet(v, In(T, D, forecast))
  BY <1>3, <1>6, <1>7, SumsTotal
<1>10. Total(OverviewTotals(T, D)) = Cardinality(D)
  BY <1>2, <1>3, GroupsTotal DEF OverviewTotals
<1> QED
  BY <1>6, <1>8, <1>9, <1>10

\* get_revenue_forecast adds up to the value of the open deals.
LEMMA RevenueTotal ==
  ASSUME NEW T, NEW D, RowsOf(T, D)
  PROVE  Total(RevenueOpen(T, D)) = SumOfValues(T, In(T, D, "Open"))
<1>1. PICK key : key = [d \in D |-> <<T[d].line, T[d].close>>]
  OBVIOUS
<1>2. In(T, D, "Open") \subseteq D /\ IsFiniteSet(D)
  BY DEF In, RowsOf
<1>3. PICK v : v = [d \in D |-> Value(T[d])]
  OBVIOUS
<1>4. /\ IsNatural(v, In(T, D, "Open"))
      /\ SumOfValues(T, In(T, D, "Open")) = SumFunctionOnSet(v, In(T, D, "Open"))
  BY <1>2, <1>3, ValuesOf
<1>5. ASSUME NEW k \in {key[d] : d \in D}
      PROVE  SumOfValues(T, In(T, GroupBy(D, key)[k], "Open"))
                = SumFunctionOnSet(v, {d \in In(T, D, "Open") : key[d] = k})
  <2>1. PICK E : E = {d \in In(T, D, "Open") : key[d] = k} /\ E \subseteq D
    BY <1>2
  <2>2. In(T, GroupBy(D, key)[k], "Open") = E
    BY <2>1 DEF In, GroupBy
  <2>3. SumOfValues(T, E) = SumFunctionOnSet(v, E)
    BY <1>3, <2>1, ValuesOf
  <2> QED
    BY <2>1, <2>2, <2>3
<1>6. DOMAIN GroupBy(D, key) = {key[d] : d \in D}
  BY DEF GroupBy
<1>7. RevenueOpen(T, D)
        = [k \in DOMAIN GroupBy(D, key) |-> SumOfValues(T, In(T, GroupBy(D, key)[k], "Open"))]
  BY <1>1 DEF RevenueOpen
<1>8. SumsGroups(RevenueOpen(T, D), D, key, In(T, D, "Open"), v)
  BY <1>5, <1>6, <1>7 DEF SumsGroups
<1> QED
  BY <1>2, <1>4, <1>8, SumsTotal

\* get_owner_accountability: the open deals of P by owner, and their sum.
LEMMA OwnersTotal ==
  ASSUME NEW T, NEW D, RowsOf(T, D), NEW P, P \subseteq In(T, D, "Open"), NEW F,
         DOMAIN F = DOMAIN OpenByOwner(T, D),
         \A o \in DOMAIN F : F[o] = Cardinality(OpenByOwner(T, D)[o] \cap P)
  PROVE  Total(F) = Cardinality(P)
<1>1. PICK key : key = [d \in D |-> T[d].owner]
  OBVIOUS
<1>2. DOMAIN F = {key[d] : d \in D} /\ P \subseteq D /\ IsFiniteSet(D)
  BY <1>1 DEF OpenByOwner, ByOwner, GroupBy, In, RowsOf
<1>3. \A o \in DOMAIN F : OpenByOwner(T, D)[o] \cap P = {d \in P : key[d] = o}
  BY <1>1, <1>2 DEF OpenByOwner, ByOwner, GroupBy, In
<1>4. CountsGroups(F, D, key, P)
  BY <1>2, <1>3 DEF CountsGroups
<1> QED
  BY <1>2, <1>4, CountsTotal

LEMMA LatestType ==
  ASSUME NEW row \in DealRow PROVE Latest(row) \in Int \cup {None}
<1>1. row.moved \in OrNull(Nat) /\ row.active \in OrNull(Int)
  BY DEF DealRow
<1> QED
  BY <1>1 DEF Latest, OrNull

\* What the owners' figures count, over all of them.
LEMMA OwnerFigures ==
  ASSUME NEW T, NEW D, RowsOf(T, D)
  PROVE  LET opened == In(T, D, "Open")
         IN  /\ Total(OwnersNotRecent(T, D)) = Cardinality({d \in opened : NotRecent(T[d])})
             /\ Total(OwnersNoNextAction(T, D)) = Cardinality({d \in opened : T[d].tasks = {}})
             /\ Total(OwnersNoFollowUp(T, D))
                = Cardinality({d \in opened : ~T[d].close /\ T[d].tasks \ {"undated"} = {}})
<1> DEFINE opened == In(T, D, "Open")
           mine == OpenByOwner(T, D)
           A == {d \in opened : NotRecent(T[d])}
           B == {d \in opened : T[d].tasks = {}}
           C == {d \in opened : ~T[d].close /\ T[d].tasks \ {"undated"} = {}}
<1>0. \A o \in DOMAIN mine : mine[o] \subseteq opened
  BY DEF OpenByOwner, ByOwner, GroupBy, In
<1> HIDE DEF opened
<1>1. /\ DOMAIN OwnersNotRecent(T, D) = DOMAIN mine
      /\ \A o \in DOMAIN mine : OwnersNotRecent(T, D)[o] = Cardinality(mine[o] \cap A)
  <2>1. \A o \in DOMAIN mine : {d \in mine[o] : NotRecent(T[d])} = mine[o] \cap A
    BY <1>0
  <2>2. OwnersNotRecent(T, D)
          = [o \in DOMAIN mine |-> Cardinality({d \in mine[o] : NotRecent(T[d])})]
    BY DEF OwnersNotRecent
  <2> HIDE DEF mine, A
  <2> QED BY <2>1, <2>2
<1>2. /\ DOMAIN OwnersNoNextAction(T, D) = DOMAIN mine
      /\ \A o \in DOMAIN mine : OwnersNoNextAction(T, D)[o] = Cardinality(mine[o] \cap B)
  <2>1. \A o \in DOMAIN mine : {d \in mine[o] : T[d].tasks = {}} = mine[o] \cap B
    BY <1>0
  <2>2. OwnersNoNextAction(T, D)
          = [o \in DOMAIN mine |-> Cardinality({d \in mine[o] : T[d].tasks = {}})]
    BY DEF OwnersNoNextAction
  <2> HIDE DEF mine, B
  <2> QED BY <2>1, <2>2
<1>3. /\ DOMAIN OwnersNoFollowUp(T, D) = DOMAIN mine
      /\ \A o \in DOMAIN mine : OwnersNoFollowUp(T, D)[o] = Cardinality(mine[o] \cap C)
  <2>1. \A o \in DOMAIN mine :
            {d \in mine[o] : ~T[d].close /\ T[d].tasks \ {"undated"} = {}} = mine[o] \cap C
    BY <1>0
  <2>2. OwnersNoFollowUp(T, D)
          = [o \in DOMAIN mine |->
                Cardinality({d \in mine[o] : ~T[d].close /\ T[d].tasks \ {"undated"} = {}})]
    BY DEF OwnersNoFollowUp
  <2> HIDE DEF mine, C
  <2> QED BY <2>1, <2>2
<1>4. A \subseteq opened /\ B \subseteq opened /\ C \subseteq opened
  OBVIOUS
<1>5. /\ Total(OwnersNotRecent(T, D)) = Cardinality(A)
      /\ Total(OwnersNoNextAction(T, D)) = Cardinality(B)
      /\ Total(OwnersNoFollowUp(T, D)) = Cardinality(C)
  <2> HIDE DEF A, B, C
  <2> USE DEF opened
  <2>1. Total(OwnersNotRecent(T, D)) = Cardinality(A)
    BY <1>1, <1>4, OwnersTotal
  <2>2. Total(OwnersNoNextAction(T, D)) = Cardinality(B)
    BY <1>2, <1>4, OwnersTotal
  <2>3. Total(OwnersNoFollowUp(T, D)) = Cardinality(C)
    BY <1>3, <1>4, OwnersTotal
  <2> QED BY <2>1, <2>2, <2>3
<1> QED
  BY <1>5 DEF opened

\* The value of stale deals by owner.
LEMMA StaleTotal ==
  ASSUME NEW T, NEW D, RowsOf(T, D)
  PROVE  Total(OwnersStaleValue(T, D)) = SumOfValues(T, StaleByMove(T, D))
<1>1. PICK key : key = [d \in D |-> T[d].owner]
  OBVIOUS
<1>2. StaleByMove(T, D) \subseteq D /\ IsFiniteSet(D)
  BY DEF StaleByMove, In, RowsOf
<1>3. PICK v : v = [d \in D |-> Value(T[d])]
  OBVIOUS
<1>4. /\ IsNatural(v, StaleByMove(T, D))
      /\ SumOfValues(T, StaleByMove(T, D)) = SumFunctionOnSet(v, StaleByMove(T, D))
  BY <1>2, <1>3, ValuesOf
<1> DEFINE mine == OpenByOwner(T, D)
           stale(o) == {d \in mine[o] : Exceeds(T[d].moved, StaleDays)}
<1>5. ASSUME NEW k \in {key[d] : d \in D}
      PROVE  SumOfValues(T, stale(k))
                = SumFunctionOnSet(v, {d \in StaleByMove(T, D) : key[d] = k})
  <2>1. PICK E : E = {d \in StaleByMove(T, D) : key[d] = k} /\ E \subseteq D
    BY <1>2
  <2>2. stale(k) = E
    BY <1>1, <2>1 DEF In, GroupBy, OpenByOwner, ByOwner, StaleByMove
  <2>3. SumOfValues(T, E) = SumFunctionOnSet(v, E)
    BY <1>3, <2>1, ValuesOf
  <2> QED
    BY <2>1, <2>2, <2>3
<1>6. DOMAIN mine = {key[d] : d \in D}
  BY <1>1 DEF GroupBy, OpenByOwner, ByOwner
<1>7. OwnersStaleValue(T, D) = [o \in DOMAIN mine |-> SumOfValues(T, stale(o))]
  BY DEF OwnersStaleValue
<1>8. SumsGroups(OwnersStaleValue(T, D), D, key, StaleByMove(T, D), v)
  <2> HIDE DEF mine, stale
  <2> QED
    BY <1>5, <1>6, <1>7 DEF SumsGroups
<1> QED
  BY <1>2, <1>4, <1>8, SumsTotal

\* The categories of get_loss_reasons are sums of its rows, which count the
\* lost deals.
LEMMA LossTotal ==
  ASSUME NEW T, NEW D, RowsOf(T, D)
  PROVE  Total(LossCategories(T, D)) = Cardinality(In(T, D, "Closed Lost"))
<1>1. PICK lost : lost = In(T, D, "Closed Lost")
  OBVIOUS
<1>2. PICK reason : reason = [d \in lost |-> T[d].reason]
  OBVIOUS
<1>3. PICK rows : rows = Counts(GroupBy(lost, reason))
  OBVIOUS
<1>4. PICK cat : cat = [r \in DOMAIN rows |-> Category(r)]
  OBVIOUS
<1>5. IsFiniteSet(lost) /\ DOMAIN rows = {reason[d] : d \in lost}
  BY <1>1, <1>3, FS_Subset DEF RowsOf, In, Counts, GroupBy
<1>6. IsFiniteSet(DOMAIN rows)
  BY <1>5, KeysFinite
<1>7. IsNatural(rows, DOMAIN rows)
  <2> SUFFICES ASSUME NEW r \in DOMAIN rows PROVE rows[r] \in Nat
    BY DEF IsNatural
  <2>1. rows[r] = Cardinality({d \in lost : reason[d] = r})
    BY <1>3 DEF Counts, GroupBy
  <2> QED
    BY <1>5, <2>1, FS_Subset, FS_CardinalityType
<1>8. LossCategories(T, D)
        = [c \in {cat[r] : r \in DOMAIN rows} |->
                SumFunctionOnSet(rows, {r \in DOMAIN rows : cat[r] = c})]
  <2>1. LossCategories(T, D)
          = [c \in DOMAIN GroupBy(DOMAIN rows, cat) |->
                SumFunctionOnSet(rows, GroupBy(DOMAIN rows, cat)[c])]
    BY <1>1, <1>2, <1>3, <1>4 DEF LossCategories, LossReasons
  <2> QED
    BY <2>1 DEF GroupBy
<1>9. SumsGroups(LossCategories(T, D), DOMAIN rows, cat, DOMAIN rows, rows)
  BY <1>8 DEF SumsGroups
<1>10. Total(LossCategories(T, D)) = SumFunctionOnSet(rows, DOMAIN rows)
  BY <1>6, <1>7, <1>9, SumsTotal
<1>11. Total(rows) = Cardinality(lost)
  BY <1>3, <1>5, GroupsTotal
<1> QED
  BY <1>1, <1>10, <1>11 DEF Total, SumFunction

\* Every open deal that has an age is in one bucket of get_ageing, per key.
LEMMA AgeingTotal ==
  ASSUME NEW T, NEW D, RowsOf(T, D), NEW key
  PROVE  Total(Ageing(T, D, key)) = Cardinality({d \in In(T, D, "Open") : T[d].age # None})
<1>1. PICK aged : aged = {d \in In(T, D, "Open") : T[d].age # None}
  OBVIOUS
<1>2. IsFiniteSet(aged)
  BY <1>1, FS_Subset DEF RowsOf, In
<1>3. PICK k : k = [d \in aged |-> <<key[d], Bucket(T[d].age)>>]
  OBVIOUS
<1>4. Ageing(T, D, key) = Counts(GroupBy(aged, k))
  BY <1>1, <1>3 DEF Ageing
<1> QED
  BY <1>1, <1>2, <1>4, GroupsTotal

\* What a request selects are stored deals.
LEMMA SelectionRows == ReportTypeOK => \A D \in Selections : RowsOf(table, D)
<1> SUFFICES ASSUME ReportTypeOK, NEW D \in Selections PROVE RowsOf(table, D)
  OBVIOUS
<1>1. PICK f, scope : D = Filtered(table, f, scope)
  BY DEF Selections
<1>2. D \subseteq ReportDeals /\ \A d \in D : table[d] # None
  BY <1>1 DEF Filtered
<1>3. \A d \in ReportDeals : table[d] \in RowChoices \cup {None}
  BY DEF ReportTypeOK
<1>4. IsFiniteSet(D)
  BY <1>2, ReportAssumptions, FS_Subset
<1>5. \A d \in D : table[d] \in DealRow
  BY <1>2, <1>3, RowAssumption
<1> QED
  BY <1>4, <1>5 DEF RowsOf

LEMMA Balanced ==
  ASSUME NEW T, NEW D, RowsOf(T, D)
  PROVE  LET opened == Cardinality(In(T, D, "Open"))
             never == {d \in In(T, D, "Open") : Latest(T[d]) = None}
         IN  /\ Cardinality(Live(T, D)) + Cardinality(Excluded(T, D))
                = Total(OverviewCounts(T, D, "Open"))
             /\ SumOfValues(T, Live(T, D)) + SumOfValues(T, Excluded(T, D))
                = Total(OverviewValues(T, D, "Open"))
             /\ Total(RevenueOpen(T, D)) = Total(OverviewValues(T, D, "Open"))
             /\ Total(Funnel(T, D)) = Total(OverviewTotals(T, D))
             /\ Total(OwnerTotals(T, D)) = Total(OverviewTotals(T, D))
             /\ Total(OwnersNotRecent(T, D)) + Cardinality(RecentlyActive(T, D)) = opened
             /\ Total(OwnersNoNextAction(T, D)) + Cardinality(NextTasks(T, D)) = opened
             /\ Total(OwnersNoFollowUp(T, D)) + Cardinality(FollowUps(T, D)) = opened
             /\ Total(OwnersNotRecent(T, D)) = Cardinality(NoActivity(T, D)) + Cardinality(never)
             /\ Total(OwnersStaleValue(T, D)) = SumOfValues(T, StaleByMove(T, D))
             /\ Total(LossCategories(T, D)) = Total(OverviewCounts(T, D, "Closed Lost"))
             /\ Total(Ageing(T, D, [d \in D |-> T[d].stage]))
                = Total(Ageing(T, D, [d \in D |-> T[d].owner]))
<1>0. PICK opened : opened = In(T, D, "Open")
  OBVIOUS
<1>1. opened \subseteq D /\ IsFiniteSet(D) /\ IsFiniteSet(opened) /\ \A d \in opened : T[d] \in DealRow
  BY <1>0, FS_Subset DEF RowsOf, In
<1>2. /\ opened = Live(T, D) \cup Excluded(T, D) /\ Live(T, D) \cap Excluded(T, D) = {}
      /\ Live(T, D) \subseteq D /\ Excluded(T, D) \subseteq D
  BY <1>0, <1>1 DEF Live, Excluded
<1>3. Cardinality(Live(T, D)) + Cardinality(Excluded(T, D)) = Total(OverviewCounts(T, D, "Open"))
  <2>1. Cardinality(Live(T, D)) + Cardinality(Excluded(T, D)) = Cardinality(opened)
    BY <1>1, <1>2, PartsCount
  <2> QED
    BY <1>0, <2>1, OverviewTotal
<1>4. SumOfValues(T, Live(T, D)) + SumOfValues(T, Excluded(T, D))
        = Total(OverviewValues(T, D, "Open"))
  <2>1. PICK v : v = [d \in D |-> Value(T[d])]
    OBVIOUS
  <2>2. PICK a, b : a = Live(T, D) /\ b = Excluded(T, D)
    OBVIOUS
  <2>3. /\ SumOfValues(T, a) = SumFunctionOnSet(v, a)
        /\ SumOfValues(T, b) = SumFunctionOnSet(v, b)
        /\ SumOfValues(T, opened) = SumFunctionOnSet(v, opened) /\ IsNatural(v, opened)
    BY <1>1, <1>2, <2>1, <2>2, ValuesOf
  <2>4. opened = a \cup b /\ a \cap b = {} /\ IsFiniteSet(a) /\ IsFiniteSet(b)
    BY <1>1, <1>2, <2>2, FS_Subset
  <2>5. SumFunctionOnSet(v, opened) = SumFunctionOnSet(v, a) + SumFunctionOnSet(v, b)
    BY <2>3, <2>4, SumOfUnion
  <2>6. Total(OverviewValues(T, D, "Open")) = SumOfValues(T, opened)
    BY <1>0, OverviewTotal
  <2> QED
    BY <2>2, <2>3, <2>5, <2>6
<1>5. Total(RevenueOpen(T, D)) = Total(OverviewValues(T, D, "Open"))
  BY RevenueTotal, OverviewTotal
<1>6. Total(Funnel(T, D)) = Total(OverviewTotals(T, D))
  <2>1. Total(Funnel(T, D)) = Cardinality(D)
    BY <1>1, GroupsTotal DEF Funnel
  <2> QED
    BY <2>1, OverviewTotal
<1>7. Total(OwnerTotals(T, D)) = Total(OverviewTotals(T, D))
  <2>1. Total(OwnerTotals(T, D)) = Cardinality(D)
    BY <1>1, GroupsTotal DEF OwnerTotals, ByOwner
  <2> QED
    BY <2>1, OverviewTotal
<1>8. PICK A, B, C : /\ A = {d \in opened : NotRecent(T[d])}
                     /\ B = {d \in opened : T[d].tasks = {}}
                     /\ C = {d \in opened : ~T[d].close /\ T[d].tasks \ {"undated"} = {}}
  OBVIOUS
<1>9. /\ Total(OwnersNotRecent(T, D)) = Cardinality(A)
      /\ Total(OwnersNoNextAction(T, D)) = Cardinality(B)
      /\ Total(OwnersNoFollowUp(T, D)) = Cardinality(C)
  BY <1>0, <1>8, OwnerFigures
<1>10. Cardinality(A) + Cardinality(RecentlyActive(T, D)) = Cardinality(opened)
  <2>1. \A d \in opened : NotRecent(T[d])
            <=> ~(Latest(T[d]) # None /\ Latest(T[d]) <= StaleDays)
    <3> SUFFICES ASSUME NEW d \in opened
                 PROVE  NotRecent(T[d]) <=> ~(Latest(T[d]) # None /\ Latest(T[d]) <= StaleDays)
      OBVIOUS
    <3>1. Latest(T[d]) \in Int \cup {None}
      BY <1>1, LatestType
    <3> QED
      BY <3>1, ReportAssumptions DEF NotRecent, Exceeds
  <2>2. RecentlyActive(T, D) = {d \in opened : Latest(T[d]) # None /\ Latest(T[d]) <= StaleDays}
    BY <1>0 DEF RecentlyActive
  <2>3. opened = A \cup RecentlyActive(T, D) /\ A \cap RecentlyActive(T, D) = {}
    BY <1>8, <2>1, <2>2
  <2> QED
    BY <1>1, <2>3, PartsCount
<1>11. Cardinality(B) + Cardinality(NextTasks(T, D)) = Cardinality(opened)
  <2>1. opened = B \cup NextTasks(T, D) /\ B \cap NextTasks(T, D) = {}
    BY <1>0, <1>8 DEF NextTasks
  <2> QED
    BY <1>1, <2>1, PartsCount
<1>12. Cardinality(C) + Cardinality(FollowUps(T, D)) = Cardinality(opened)
  <2>1. \A d \in opened : (~T[d].close /\ T[d].tasks \ {"undated"} = {})
            <=> ~(T[d].close \/ \E t \in T[d].tasks : t # "undated")
    OBVIOUS
  <2>2. opened = C \cup FollowUps(T, D) /\ C \cap FollowUps(T, D) = {}
    BY <1>0, <1>8, <2>1 DEF FollowUps
  <2> QED
    BY <1>1, <2>2, PartsCount
<1>13. PICK never : never = {d \in opened : Latest(T[d]) = None}
  OBVIOUS
<1>14. Cardinality(A) = Cardinality(NoActivity(T, D)) + Cardinality(never)
  <2>1. A = NoActivity(T, D) \cup never /\ NoActivity(T, D) \cap never = {}
    BY <1>0, <1>8, <1>13 DEF NoActivity, NotRecent, Exceeds
  <2>2. IsFiniteSet(A)
    BY <1>1, <1>8, FS_Subset
  <2> QED
    BY <2>1, <2>2, PartsCount
<1>15. Total(OwnersStaleValue(T, D)) = SumOfValues(T, StaleByMove(T, D))
  BY StaleTotal
<1>16. Total(LossCategories(T, D)) = Total(OverviewCounts(T, D, "Closed Lost"))
  <2>1. Total(LossCategories(T, D)) = Cardinality(In(T, D, "Closed Lost"))
    BY LossTotal
  <2>2. \A fc : Total(OverviewCounts(T, D, fc)) = Cardinality(In(T, D, fc))
    BY OverviewTotal
  <2> QED
    BY <2>1, <2>2
<1>17. Total(Ageing(T, D, [d \in D |-> T[d].stage]))
        = Total(Ageing(T, D, [d \in D |-> T[d].owner]))
  BY AgeingTotal
<1> QED
  BY <1>0, <1>3, <1>4, <1>5, <1>6, <1>7, <1>9, <1>10, <1>11, <1>12, <1>13, <1>14, <1>15,
     <1>16, <1>17

LEMMA BooksHold == ReportTypeOK => BooksBalance
  BY SelectionRows, Balanced DEF BooksBalance

LEMMA DivideOut ==
  ASSUME NEW c \in Nat, c > 0, NEW m \in Nat, NEW a \in Nat
  PROVE  a * c * ((c * m) \div c) = (c * m) * a
<1>1. (c * m) \div c = m
  OBVIOUS
<1>2. a * c * m = (c * m) * a
  OBVIOUS
<1> QED
  BY <1>1, <1>2

\* The response times of deals that were answered after they were created.
LEMMA DaysOf ==
  ASSUME NEW T, NEW D, RowsOf(T, D), NEW R, R = Measured(T, D),
         NEW days, days = [d \in R |-> T[d].outreach - T[d].created]
  PROVE  /\ IsFiniteSet(R) /\ IsNatural(days, R)
         /\ \A E \in SUBSET R : Days(T, E) = SumFunctionOnSet(days, E) /\ Days(T, E) \in Nat
<1>1. IsFiniteSet(R) /\ R \subseteq D
  BY FS_Subset DEF RowsOf, Measured, Responded
<1>2. ASSUME NEW d \in R PROVE T[d].outreach - T[d].created \in Nat
  <2>1. T[d] \in DealRow /\ T[d].outreach # None /\ T[d].created # None
        /\ T[d].outreach >= T[d].created
    BY <1>1 DEF RowsOf, Measured, Responded
  <2>2. T[d].outreach \in OrNull(Nat) /\ T[d].created \in OrNull(Nat)
    BY <2>1 DEF DealRow
  <2> QED
    BY <2>1, <2>2 DEF OrNull
<1>3. IsNatural(days, R)
  BY <1>2 DEF IsNatural
<1>4. ASSUME NEW E \in SUBSET R
      PROVE  Days(T, E) = SumFunctionOnSet(days, E) /\ Days(T, E) \in Nat
  <2>1. PICK w : w = [d \in E |-> T[d].outreach - T[d].created]
    OBVIOUS
  <2>2. IsFiniteSet(E) /\ IsNatural(days, E) /\ (\A d \in E : w[d] = days[d]) /\ DOMAIN w = E
    BY <1>1, <1>3, <2>1, FS_Subset DEF IsNatural
  <2>3. SumFunctionOnSet(w, E) = SumFunctionOnSet(days, E) /\ SumFunctionOnSet(days, E) \in Nat
    BY <2>2, SumOfSame, SumType
  <2>4. Days(T, E) = SumFunctionOnSet(w, E)
    BY <2>1, <2>2 DEF Days, SumFunction
  <2> QED
    BY <2>3, <2>4
<1> QED
  BY <1>1, <1>3, <1>4

\* The weighted mean of the owners' averages, where every response counts.
LEMMA MeanOfMeans ==
  ASSUME NEW T, NEW D, RowsOf(T, D), NEW R, R = Responded(T, D), R # {}, Measured(T, D) = R
  PROVE  OverallResponse(T, D).num * Cardinality(R) = OverallResponse(T, D).den * Days(T, R)
<1>1. PICK days : days = [d \in R |-> T[d].outreach - T[d].created]
  OBVIOUS
<1>2. /\ IsFiniteSet(R) /\ IsNatural(days, R)
      /\ \A E \in SUBSET R : Days(T, E) = SumFunctionOnSet(days, E) /\ Days(T, E) \in Nat
  BY <1>1, DaysOf
<1>3. PICK owner : owner = [d \in D |-> T[d].owner]
  OBVIOUS
<1>4. R \subseteq D /\ IsFiniteSet(D)
  BY DEF Responded, RowsOf
<1> DEFINE Of(o) == {d \in R : owner[d] = o}
           owners == {T[d].owner : d \in D}
           rated == {o \in owners : Cardinality(Of(o)) > 0}
<1>5. \A o : Measured(T, OfOwner(T, D, o)) = Of(o) /\ Responded(T, OfOwner(T, D, o)) = Of(o)
  BY <1>3 DEF Measured, Responded, OfOwner
<1>6. \A o : Of(o) \in SUBSET R /\ Cardinality(Of(o)) \in Nat
  <2>1. \A o : Of(o) \in SUBSET R
    OBVIOUS
  <2> HIDE DEF Of
  <2> QED
    BY <1>2, <2>1, FS_Subset, FS_CardinalityType
<1>7. PICK c : c = [o \in rated |-> Cardinality(Of(o))]
  OBVIOUS
<1>8. PICK W : W = [o \in owners |-> Cardinality(Of(o))]
  OBVIOUS
<1>9. PICK F : F = [o \in rated |-> Days(T, Of(o))]
  OBVIOUS
<1>10. PICK terms : terms = [o \in rated |-> Days(T, Of(o)) * Cardinality(Of(o))
                                                * (Product(c) \div Cardinality(Of(o)))]
  OBVIOUS
<1>11. /\ OverallResponse(T, D).num = SumFunction(terms)
       /\ OverallResponse(T, D).den = Product(c) * SumFunction(W)
  <2> DEFINE count(o) == Cardinality(Measured(T, OfOwner(T, D, o)))
             picked == {o \in owners : count(o) > 0}
             scale == Product([o \in picked |-> count(o)])
             parts == [o \in picked |-> Days(T, Measured(T, OfOwner(T, D, o)))
                                            * Weight(T, D, o) * (scale \div count(o))]
             weights == [o \in owners |-> Weight(T, D, o)]
  <2>1. OverallResponse(T, D) = [num |-> SumFunction(parts), den |-> scale * SumFunction(weights)]
    BY DEF OverallResponse, Product
  <2>2. \A o : count(o) = Cardinality(Of(o)) /\ Weight(T, D, o) = Cardinality(Of(o))
    <3> HIDE DEF Of
    <3> QED BY <1>5 DEF Weight
  <2>3. picked = rated
    <3> HIDE DEF Of, count, owners
    <3> QED BY <2>2
  <2>4. [o \in picked |-> count(o)] = c
    <3> HIDE DEF Of, count, rated, picked
    <3> QED BY <1>7, <2>2, <2>3
  <2>5. weights = W
    <3> HIDE DEF Of, owners
    <3> QED BY <1>8, <2>2
  <2>6. scale = Product(c)
    BY <2>4
  <2>7. parts = terms
    <3> HIDE DEF Of, count, rated, picked, scale
    <3> QED BY <1>5, <1>10, <2>2, <2>3, <2>6
  <2> HIDE DEF parts, weights, scale
  <2> QED BY <2>1, <2>5, <2>6, <2>7
<1>12. owners = {owner[d] : d \in D} /\ IsFiniteSet(owners) /\ IsFiniteSet(rated)
  <2>1. owners = {owner[d] : d \in D}
    BY <1>3
  <2>2. IsFiniteSet({owner[d] : d \in D})
    BY <1>4, KeysFinite
  <2> HIDE DEF owners
  <2>3. rated \subseteq owners
    OBVIOUS
  <2> QED
    BY <2>1, <2>2, <2>3, FS_Subset
<1>13. SumFunction(W) = Cardinality(R)
  <2>1. CountsGroups(W, D, owner, R)
    BY <1>8, <1>12 DEF CountsGroups
  <2> QED
    BY <1>4, <2>1, CountsTotal DEF Total
<1>14. \A d \in R : owner[d] \in rated
  <2> SUFFICES ASSUME NEW d \in R PROVE owner[d] \in rated
    OBVIOUS
  <2>1. owner[d] \in owners /\ d \in Of(owner[d])
    BY <1>4, <1>12
  <2>2. IsFiniteSet(Of(owner[d])) /\ Of(owner[d]) # {}
    BY <1>2, <2>1, FS_Subset
  <2>3. Cardinality(Of(owner[d])) > 0
    <3> HIDE DEF Of
    <3>1. Cardinality(Of(owner[d])) \in Nat /\ Cardinality(Of(owner[d])) # 0
      BY <1>6, <2>2, FS_EmptySet
    <3> QED BY <3>1
  <2> QED
    <3> HIDE DEF Of, owners
    <3> QED BY <2>1, <2>3
<1>15. SumFunctionOnSet(F, rated) = Days(T, R)
  <2>1. \A o \in rated : F[o] = SumFunctionOnSet(days, {d \in R : owner[d] = o})
    BY <1>2, <1>6, <1>9
  <2> HIDE DEF rated
  <2>2. AddsGroups(F, rated, days, R, owner)
    BY <1>14, <2>1 DEF AddsGroups
  <2>3. SumFunctionOnSet(F, rated) = SumFunctionOnSet(days, R)
    BY <1>2, <1>12, <2>2, SumOfGroups
  <2> QED
    BY <1>2, <2>3
<1> HIDE DEF Of, owners
<1>16. \A o \in rated : c[o] \in Nat /\ c[o] > 0 /\ c[o] = Cardinality(Of(o)) /\ F[o] \in Nat
  BY <1>2, <1>6, <1>7, <1>9
<1> HIDE DEF rated
<1>17. DOMAIN c = rated /\ IsNatural(c, rated) /\ IsNatural(F, rated)
  BY <1>7, <1>16 DEF IsNatural
<1>18. \A o \in rated : \E m \in Nat : Product(c) = c[o] * m
  BY <1>12, <1>17, FactorDivides
<1>19. Product(c) \in Nat
  <2>1. PICK o \in rated : TRUE
    BY <1>14
  <2>2. PICK m \in Nat : Product(c) = c[o] * m
    BY <1>18
  <2> QED
    BY <1>16, <2>2
<1>20. ASSUME NEW o \in rated PROVE terms[o] = Product(c) * F[o]
  <2>1. PICK m \in Nat : Product(c) = c[o] * m
    BY <1>18
  <2>2. terms[o] = F[o] * c[o] * ((c[o] * m) \div c[o])
    BY <1>9, <1>10, <1>16, <2>1
  <2>3. F[o] * c[o] * ((c[o] * m) \div c[o]) = (c[o] * m) * F[o]
    BY <1>16, DivideOut
  <2> QED
    BY <2>1, <2>2, <2>3
<1>21. SumFunctionOnSet(terms, rated) = Product(c) * SumFunctionOnSet(F, rated)
  BY <1>12, <1>17, <1>19, <1>20, SumScaled
<1>22. OverallResponse(T, D).num = Product(c) * Days(T, R)
  BY <1>10, <1>11, <1>15, <1>21 DEF SumFunction
<1>23. OverallResponse(T, D).den = Product(c) * Cardinality(R)
  BY <1>11, <1>13
<1>24. Days(T, R) \in Nat /\ Cardinality(R) \in Nat
  BY <1>2, FS_CardinalityType
<1>25. \A p, x, y \in Nat : (p * x) * y = (p * y) * x
  OBVIOUS
<1> QED
  BY <1>19, <1>22, <1>23, <1>24, <1>25

LEMMA MeanHolds == ReportTypeOK => OverallIsMean
  BY SelectionRows, MeanOfMeans DEF OverallIsMean

\* The endpoints of analytics.py agree with each other on every selection of
\* deals, for any number of deals, owners and lines and whatever columns are
\* NULL: what two queries of analytics_repo.py count of the same deals is
\* the same, and what one splits another one adds up.
THEOREM BooksAreBalanced == ReportSpec => []BooksBalance
<1>1. ReportInv => BooksBalance
  BY BooksHold DEF ReportInv
<1> QED
  BY <1>1, ReportInvariant, PTL

\* overall_avg_first_response_days, computed from the owners' averages, is the
\* average over the deals themselves, for any owners and deals, as long as no
\* first outgoing e-mail is older than its deal.
THEOREM OverallIsTheMean == ReportSpec => []OverallIsMean
<1>1. ReportInv => OverallIsMean
  BY MeanHolds DEF ReportInv
<1> QED
  BY <1>1, ReportInvariant, PTL

-----------------------------------------------------------------------------
(* The copies of Freshsales' records.                                       *)

\* The target that a run is about to write.
AtHand(s) == s.pc \in {"delete", "commit"}

\* What a run has when it gets to a label.
RunOK(s) ==
    /\ s \in Run
    /\ s.pc # "idle" => kind # "snapshot"
    /\ AtHand(s) => s.target \in Targets
    /\ s.pc = "delete" => kind \in Replaced
    /\ s.pc = "calls" => kind = "activity"
    /\ s.pc # "commit" => s.deleted = {}
    /\ kind \notin Replaced => s.deleted = {}

\* A DELETE has found what the table held, and the deals of a backfill have
\* no webhook event, unless another writer came in between.
RunIsAlone(s) ==
    /\ s.pc = "commit" /\ kind \in Replaced /\ s.target \notin s.raced
        => s.deleted = mirror[s.target]
    /\ kind = "timeline" /\ s.pc # "idle"
        => \A d \in Targets : (d \in s.todo \/ s.target = d) /\ d \notin s.raced => hooked[d] = {}

\* The rows of a target are of one writer, those that its last run has read.
TableOK(d) ==
    /\ kind \notin Replaced => \A row \in mirror[d] : row[2] = 0
    /\ kind # "timeline" => hooked[d] = {}
    /\ exact[d] # None =>
        /\ exact[d] \cap hooked[d] = {}
        /\ IF kind \in Replaced
           THEN \E n \in 0 .. MaxRuns : mirror[d] = {<<i, n>> : i \in exact[d]}
           ELSE \A i \in exact[d] : <<i, 0>> \in mirror[d]

MirrorInv ==
    /\ MirrorTypeOK
    /\ \A j \in Runners : RunOK(run[j]) /\ RunIsAlone(run[j])
    /\ \A d \in Targets : TableOK(d)

LEMMA NoRunOK == NoRun \in Run /\ RunOK(NoRun) /\ RunIsAlone(NoRun)
BY MirrorAssumptions DEF NoRun, NoCalls, Run, RunOK, RunIsAlone, AtHand

\* The count of the deals of a stage.
LEMMA DealsInCount ==
    ASSUME NEW s
    PROVE  Cardinality(DealsIn(s)) \in 0 .. Cardinality(PipelineDeals)
<1>1. DealsIn(s) \subseteq PipelineDeals
    BY DEF DealsIn
<1>2. Cardinality(DealsIn(s)) <= Cardinality(PipelineDeals) /\ IsFiniteSet(DealsIn(s))
    BY <1>1, FS_Subset, MirrorAssumptions
<1>3. Cardinality(DealsIn(s)) \in Nat /\ Cardinality(PipelineDeals) \in Nat
    BY <1>2, FS_CardinalityType, MirrorAssumptions
<1>4. QED
    BY <1>2, <1>3

\* What an action of the outside or of the daily snapshot leaves alone.
LEMMA TablesKept ==
    ASSUME MirrorInv, MirrorTypeOK',
           UNCHANGED <<kind, mirror, hooked, run, exact>>
    PROVE  MirrorInv'
<1>1. ASSUME NEW j \in Runners
      PROVE  RunOK(run[j])' /\ RunIsAlone(run[j])'
    <2>1. RunOK(run[j]) /\ RunIsAlone(run[j])
        BY DEF MirrorInv
    <2>2. QED
        BY <2>1 DEF RunOK, RunIsAlone, AtHand
<1>2. ASSUME NEW d \in Targets
      PROVE  TableOK(d)'
    <2>1. TableOK(d)
        BY DEF MirrorInv
    <2>2. QED
        BY <2>1 DEF TableOK
<1>3. QED
    BY <1>1, <1>2 DEF MirrorInv

\* What a step of one run leaves alone when it commits nothing.
LEMMA RunMoves ==
    ASSUME MirrorInv, NEW j \in Runners, NEW s,
           run' = [run EXCEPT ![j] = s],
           RunOK(s), RunIsAlone(s),
           runs' \in 0 .. MaxRuns, mfaults' \in 0 .. MaxCrmFailures,
           UNCHANGED <<kind, mirror, exact, tables>>
    PROVE  MirrorInv'
<1>1. s \in Run /\ run' \in [Runners -> Run]
    BY DEF RunOK, MirrorInv, MirrorTypeOK
<1>2. MirrorTypeOK'
    BY <1>1 DEF MirrorInv, MirrorTypeOK, tables
<1>3. UNCHANGED <<kind, mirror, hooked, exact>>
    BY DEF tables
<1>4. ASSUME NEW o \in Runners
      PROVE  RunOK(run[o])' /\ RunIsAlone(run[o])'
    <2>1. run'[o] = s \/ run'[o] = run[o]
        BY DEF MirrorInv, MirrorTypeOK
    <2>2. RunOK(run'[o]) /\ RunIsAlone(run'[o])
        BY <2>1 DEF MirrorInv
    <2>3. QED
        BY <2>2, <1>3 DEF RunOK, RunIsAlone, AtHand
<1>5. ASSUME NEW d \in Targets
      PROVE  TableOK(d)'
    <2>1. TableOK(d)
        BY DEF MirrorInv
    <2>2. QED
        BY <2>1, <1>3 DEF TableOK
<1>6. QED
    BY <1>2, <1>4, <1>5 DEF MirrorInv

LEMMA MirrorInitInv == MirrorInit => MirrorInv
<1> SUFFICES ASSUME MirrorInit PROVE MirrorInv
    OBVIOUS
<1>1. (CHOOSE s \in Stages : TRUE) \in Stages
    BY MirrorAssumptions
<1>2. MirrorTypeOK
    BY <1>1, NoRunOK, MirrorAssumptions DEF MirrorInit, MirrorTypeOK, Rows
<1>3. ASSUME NEW j \in Runners PROVE RunOK(run[j]) /\ RunIsAlone(run[j])
    BY NoRunOK DEF MirrorInit
<1>4. ASSUME NEW d \in Targets PROVE TableOK(d)
    BY DEF MirrorInit, TableOK
<1>5. QED
    BY <1>2, <1>3, <1>4 DEF MirrorInv

\* Freshsales changes, deals move, and the snapshot of the day is written.
LEMMA OutsideKeeps ==
    ASSUME MirrorInv,
           \/ \E d \in Targets, i \in Items : CrmChanges(d, i)
           \/ \E d \in Targets : DealStageChanges(d)
           \/ \E d \in PipelineDeals, s \in Stages : MoveStage(d, s)
           \/ WriteTodaySnapshot
           \/ NextDay
    PROVE  MirrorInv'
<1> USE DEF MirrorInv, MirrorTypeOK
<1>1. CASE \E d \in Targets, i \in Items : CrmChanges(d, i)
    <2>1. MirrorTypeOK' /\ UNCHANGED <<kind, mirror, hooked, run, exact>>
        BY <1>1 DEF CrmChanges
    <2>2. QED
        BY <2>1, TablesKept
<1>2. CASE \E d \in Targets : DealStageChanges(d)
    <2>1. MirrorTypeOK' /\ UNCHANGED <<kind, mirror, hooked, run, exact>>
        BY <1>2 DEF DealStageChanges
    <2>2. QED
        BY <2>1, TablesKept
<1>3. CASE \E d \in PipelineDeals, s \in Stages : MoveStage(d, s)
    <2>1. PICK d \in PipelineDeals, s \in Stages : MoveStage(d, s)
        BY <1>3
    <2>2. stage' \in [PipelineDeals -> Stages] /\ emptied' \subseteq Stages
        BY <2>1 DEF MoveStage
    <2>3. MirrorTypeOK' /\ UNCHANGED <<kind, mirror, hooked, run, exact>>
        BY <2>1, <2>2 DEF MoveStage
    <2>4. QED
        BY <2>3, TablesKept
<1>4. CASE WriteTodaySnapshot
    <2>1. TodaySnapshot \in [Stages -> (0 .. Cardinality(PipelineDeals)) \cup {None}]
        BY DealsInCount DEF TodaySnapshot
    <2>2. runs' \in 0 .. MaxRuns /\ emptied' \subseteq Stages
        BY <1>4, MirrorAssumptions DEF WriteTodaySnapshot
    <2>3. MirrorTypeOK' /\ UNCHANGED <<kind, mirror, hooked, run, exact>>
        BY <1>4, <2>1, <2>2 DEF WriteTodaySnapshot
    <2>4. QED
        BY <2>3, TablesKept
<1>5. CASE NextDay
    <2>1. MirrorTypeOK' /\ UNCHANGED <<kind, mirror, hooked, run, exact>>
        BY <1>5 DEF NextDay
    <2>2. QED
        BY <2>1, TablesKept
<1>6. QED
    BY <1>1, <1>2, <1>3, <1>4, <1>5

\* A run is cut off, or ends.
LEMMA StopRunKeeps ==
    ASSUME MirrorInv, NEW j \in Runners, StopRun(j),
           runs' = runs, mfaults' \in 0 .. MaxCrmFailures,
           UNCHANGED <<kind, mirror, exact, tables>>
    PROVE  MirrorInv'
<1>1. runs' \in 0 .. MaxRuns
    BY DEF MirrorInv, MirrorTypeOK
<1>2. QED
    BY <1>1, NoRunOK, RunMoves DEF StopRun

LEMMA FailureCounts ==
    ASSUME MirrorInv, CrmFails
    PROVE  mfaults' \in 0 .. MaxCrmFailures
BY MirrorAssumptions DEF CrmFails, MirrorInv, MirrorTypeOK

\* No target is at hand between the steps of a run.
LEMMA RunStartsKeeps ==
    ASSUME MirrorInv, NEW j \in Runners, RunStarts(j)
    PROVE  MirrorInv'
<1> DEFINE s == [NoRun EXCEPT !.pc = "fetch", !.no = runs + 1, !.todo = ListTargets]
<1>1. /\ kind \in Kinds /\ kind # "snapshot" /\ runs + 1 \in 0 .. MaxRuns
      /\ run' = [run EXCEPT ![j] = s] /\ runs' = runs + 1
      /\ UNCHANGED <<kind, mirror, mfaults, exact, tables>>
    BY MirrorAssumptions DEF RunStarts, MirrorInv, MirrorTypeOK
<1>2. ListTargets \subseteq Targets
    BY <1>1 DEF ListTargets, Kinds, DealsWithoutEvents, MirrorInv, MirrorTypeOK
<1>3. /\ s.pc = "fetch" /\ s.no = runs + 1 /\ s.todo = ListTargets /\ s.target = None
      /\ s.deleted = {} /\ s.raced = {} /\ s \in Run
    BY <1>1, <1>2, NoRunOK DEF NoRun, NoCalls, Run
<1>4. RunOK(s)
    BY <1>1, <1>3 DEF RunOK, AtHand
<1>5. RunIsAlone(s)
    <2>1. ASSUME kind = "timeline", NEW d \in ListTargets
          PROVE  hooked[d] = {}
        BY <2>1 DEF ListTargets, DealsWithoutEvents
    <2>2. QED
        BY <1>3, <2>1, MirrorAssumptions DEF RunIsAlone
<1>6. mfaults' \in 0 .. MaxCrmFailures /\ runs' \in 0 .. MaxRuns
    BY <1>1 DEF MirrorInv, MirrorTypeOK
<1> HIDE DEF s
<1>7. QED
    BY <1>1, <1>4, <1>5, <1>6, RunMoves

LEMMA FetchTargetKeeps ==
    ASSUME MirrorInv, NEW j \in Runners, FetchTarget(j)
    PROVE  MirrorInv'
<1>1. run[j].pc = "fetch" /\ runs' = runs /\ UNCHANGED <<kind, mirror, exact, tables>>
    BY DEF FetchTarget
<1>2. RunOK(run[j]) /\ RunIsAlone(run[j]) /\ run[j] \in Run
    BY DEF MirrorInv, RunOK
<1>3. CASE run[j].todo # {} /\ CrmFails /\ StopRun(j)
    BY <1>1, <1>3, StopRunKeeps, FailureCounts
<1>4. CASE \E d \in run[j].todo :
            /\ run' = [run EXCEPT ![j].pc = IF kind \in Replaced THEN "delete" ELSE "commit",
                                  ![j].todo = @ \ {d}, ![j].target = d,
                                  ![j].fetched = Parsed(crm[d])]
            /\ UNCHANGED mfaults
    <2>1. PICK d \in run[j].todo :
            /\ run' = [run EXCEPT ![j].pc = IF kind \in Replaced THEN "delete" ELSE "commit",
                                  ![j].todo = @ \ {d}, ![j].target = d,
                                  ![j].fetched = Parsed(crm[d])]
            /\ UNCHANGED mfaults
        BY <1>4
    <2> DEFINE s == [run[j] EXCEPT !.pc = IF kind \in Replaced THEN "delete" ELSE "commit",
                                   !.todo = @ \ {d}, !.target = d,
                                   !.fetched = Parsed(crm[d])]
    <2>2. d \in Targets /\ crm[d] \subseteq Items
        BY <1>2 DEF Run, MirrorInv, MirrorTypeOK
    <2>3. kind \in Kinds \ {"snapshot"}
        BY <1>1, <1>2 DEF RunOK, MirrorInv, MirrorTypeOK
    <2>4. Parsed(crm[d]) \subseteq Items
        BY <2>2, <2>3 DEF Parsed, ParseTasks, ParseEmails, ParseTimeline, ParseContact, Kinds
    <2>5. run' = [run EXCEPT ![j] = s]
        BY <2>1 DEF MirrorInv, MirrorTypeOK
    <2>6. /\ s \in Run /\ s.target = d /\ s.todo = run[j].todo \ {d}
          /\ s.raced = run[j].raced /\ s.deleted = run[j].deleted
          /\ s.pc = IF kind \in Replaced THEN "delete" ELSE "commit"
        BY <1>2, <2>2, <2>4 DEF Run
    <2>7. RunOK(s)
        BY <1>1, <1>2, <2>2, <2>3, <2>6 DEF RunOK, AtHand
    <2>8. RunIsAlone(s)
        <3>1. ASSUME kind = "timeline", NEW e \in Targets,
                     e \in s.todo \/ s.target = e, e \notin s.raced
              PROVE  hooked[e] = {}
            BY <1>1, <1>2, <2>6, <3>1 DEF RunIsAlone
        <3>2. ~(s.pc = "commit" /\ kind \in Replaced)
            BY <2>6
        <3>3. QED
            BY <3>1, <3>2 DEF RunIsAlone
    <2>9. mfaults' \in 0 .. MaxCrmFailures /\ runs' \in 0 .. MaxRuns
        BY <1>1, <2>1 DEF MirrorInv, MirrorTypeOK
    <2> HIDE DEF s
    <2>10. QED
        BY <1>1, <2>5, <2>7, <2>8, <2>9, RunMoves
<1>5. QED
    BY <1>3, <1>4 DEF FetchTarget

LEMMA DeleteRowsKeeps ==
    ASSUME MirrorInv, NEW j \in Runners, DeleteRows(j)
    PROVE  MirrorInv'
<1> DEFINE s == [run[j] EXCEPT !.pc = "commit", !.deleted = RowsToDelete(run[j].target)]
<1>1. /\ run[j].pc = "delete" /\ run[j] \in Run /\ RunOK(run[j]) /\ RunIsAlone(run[j])
      /\ UNCHANGED <<kind, runs, mirror, exact, mfaults, tables>>
    BY DEF DeleteRows, MirrorInv, RunOK
<1>2. run[j].target \in Targets /\ kind \in Replaced
    BY <1>1 DEF RunOK, AtHand
<1>3. mirror[run[j].target] \subseteq Rows
    BY <1>2 DEF MirrorInv, MirrorTypeOK
<1>4. run' = [run EXCEPT ![j] = s]
    BY DEF DeleteRows, MirrorInv, MirrorTypeOK
<1>5. /\ s \in Run /\ s.pc = "commit" /\ s.target = run[j].target /\ s.todo = run[j].todo
      /\ s.raced = run[j].raced /\ s.deleted = mirror[run[j].target]
    BY <1>1, <1>3 DEF Run, RowsToDelete
<1>6. RunOK(s)
    BY <1>1, <1>2, <1>5 DEF RunOK, AtHand
<1>7. RunIsAlone(s)
    BY <1>1, <1>5 DEF RunIsAlone
<1>8. mfaults' \in 0 .. MaxCrmFailures /\ runs' \in 0 .. MaxRuns
    BY <1>1 DEF MirrorInv, MirrorTypeOK
<1> HIDE DEF s
<1>9. QED
    BY <1>1, <1>4, <1>6, <1>7, <1>8, RunMoves

LEMMA RunEndsKeeps ==
    ASSUME MirrorInv, NEW j \in Runners, RunEnds(j)
    PROVE  MirrorInv'
<1>1. /\ run[j].pc = "fetch" /\ run[j] \in Run /\ RunOK(run[j]) /\ RunIsAlone(run[j])
      /\ runs' = runs /\ UNCHANGED <<kind, mirror, exact, tables>>
    BY DEF RunEnds, MirrorInv, RunOK
<1>2. CASE StopRun(j) /\ (CrmFails \/ UNCHANGED mfaults)
    <2>1. mfaults' \in 0 .. MaxCrmFailures
        BY <1>2, FailureCounts DEF MirrorInv, MirrorTypeOK
    <2>2. QED
        BY <1>1, <1>2, <2>1, StopRunKeeps
<1>3. CASE /\ kind = "activity" /\ UNCHANGED mfaults
           /\ run' = [run EXCEPT ![j].pc = "calls",
                                 ![j].calls = [d \in Targets |-> crm[d] \cap Dated \cap Calls]]
    <2> DEFINE c == [d \in Targets |-> crm[d] \cap Dated \cap Calls]
               s == [run[j] EXCEPT !.pc = "calls", !.calls = c]
    <2>1. c \in [Targets -> SUBSET Items]
        BY DEF MirrorInv, MirrorTypeOK
    <2>2. run' = [run EXCEPT ![j] = s]
        BY <1>3 DEF MirrorInv, MirrorTypeOK
    <2> HIDE DEF c
    <2>3. s \in Run /\ s.pc = "calls" /\ s.deleted = run[j].deleted
        BY <1>1, <2>1 DEF Run
    <2>4. RunOK(s) /\ RunIsAlone(s)
        BY <1>1, <1>3, <2>3 DEF RunOK, RunIsAlone, AtHand, Replaced
    <2>5. mfaults' \in 0 .. MaxCrmFailures /\ runs' \in 0 .. MaxRuns
        BY <1>1, <1>3 DEF MirrorInv, MirrorTypeOK
    <2> HIDE DEF s
    <2>6. QED
        BY <1>1, <2>2, <2>4, <2>5, RunMoves
<1>4. QED
    BY <1>2, <1>3 DEF RunEnds

LEMMA MirrorCrashKeeps ==
    ASSUME MirrorInv, MirrorCrash
    PROVE  MirrorInv'
<1>1. /\ run' = [j \in Runners |-> NoRun]
      /\ UNCHANGED <<kind, runs, mirror, exact, crm, open, hooked, stage, counted, emptied>>
    BY DEF MirrorCrash, tables
<1>2. MirrorTypeOK'
    BY <1>1, NoRunOK, FailureCounts DEF MirrorCrash, MirrorInv, MirrorTypeOK
<1>3. ASSUME NEW j \in Runners
      PROVE  RunOK(run[j])' /\ RunIsAlone(run[j])'
    <2>1. run'[j] = NoRun
        BY <1>1
    <2>2. QED
        BY <2>1, <1>1, NoRunOK DEF RunOK, RunIsAlone, AtHand
<1>4. ASSUME NEW d \in Targets
      PROVE  TableOK(d)'
    <2>1. TableOK(d)
        BY DEF MirrorInv
    <2>2. QED
        BY <1>1, <2>1 DEF TableOK
<1>5. QED
    BY <1>2, <1>3, <1>4 DEF MirrorInv

\* An event of a webhook: the runs that have listed the deal are disturbed,
\* and so is a backfill that has stored the change.
LEMMA WebhookKeeps ==
    ASSUME MirrorInv, NEW d \in Targets, NEW i \in Items, WebhookEvent(d, i)
    PROVE  MirrorInv'
<1>1. /\ kind = "timeline" /\ UNCHANGED <<kind, mirror>>
      /\ hooked' = [hooked EXCEPT ![d] = @ \cup {i}]
    BY DEF WebhookEvent
<1>2. ASSUME NEW j \in Runners
      PROVE  /\ Listed(j, d) => run'[j] = [run[j] EXCEPT !.raced = @ \cup {d}]
             /\ ~Listed(j, d) => run'[j] = run[j]
    BY DEF WebhookEvent
<1>3. ASSUME NEW j \in Runners
      PROVE  /\ run'[j] \in Run
             /\ run'[j].pc = run[j].pc /\ run'[j].target = run[j].target
             /\ run'[j].todo = run[j].todo /\ run'[j].deleted = run[j].deleted
             /\ run[j].raced \subseteq run'[j].raced
             /\ Listed(j, d) => d \in run'[j].raced
    <2>1. run[j] \in Run
        BY DEF MirrorInv, MirrorTypeOK
    <2>2. CASE ~Listed(j, d)
        BY <1>2, <2>1, <2>2
    <2>3. CASE Listed(j, d)
        <3> DEFINE s == run[j]
        <3>1. run'[j] = [s EXCEPT !.raced = @ \cup {d}] /\ s \in Run
            BY <1>2, <2>1, <2>3
        <3> HIDE DEF s
        <3>2. /\ run'[j] \in Run
              /\ run'[j].pc = s.pc /\ run'[j].target = s.target
              /\ run'[j].todo = s.todo /\ run'[j].deleted = s.deleted
              /\ run'[j].raced = s.raced \cup {d}
            BY <3>1 DEF Run
        <3>3. QED
            BY <3>2 DEF s
    <2>4. QED
        BY <2>2, <2>3
<1>4. ASSUME NEW j \in Runners
      PROVE  RunOK(run[j])' /\ RunIsAlone(run[j])'
    <2>1. RunOK(run[j]) /\ RunIsAlone(run[j])
        BY DEF MirrorInv
    <2>2. RunOK(run[j])'
        BY <1>1, <1>3, <2>1 DEF RunOK, AtHand
    <2>3. ASSUME run'[j].pc # "idle", NEW e \in Targets,
                 e \in run'[j].todo \/ run'[j].target = e, e \notin run'[j].raced
          PROVE  hooked'[e] = {}
        <3>1. e \notin run[j].raced /\ run[j].pc # "idle"
              /\ (e \in run[j].todo \/ run[j].target = e)
            BY <1>3, <2>3
        <3>2. e # d
            BY <1>3, <2>3, <3>1 DEF Listed, Running
        <3>3. hooked[e] = {}
            BY <1>1, <2>1, <3>1 DEF RunIsAlone
        <3>4. QED
            BY <1>1, <3>2, <3>3 DEF MirrorInv, MirrorTypeOK
    <2>4. run'[j].pc = "commit" /\ kind \in Replaced /\ run'[j].target \notin run'[j].raced
            => run'[j].deleted = mirror[run'[j].target]
        BY <1>3, <2>1 DEF RunIsAlone
    <2>5. QED
        BY <1>1, <2>2, <2>3, <2>4 DEF RunIsAlone
<1>5. ASSUME NEW e \in Targets
      PROVE  TableOK(e)'
    <2>1. TableOK(e)
        BY DEF MirrorInv
    <2>2. exact'[e] # None => exact'[e] = exact[e] /\ (e = d => i \notin exact[e])
        <3>1. CASE i \in {row[1] : row \in mirror[d]}
            BY <3>1 DEF WebhookEvent, MirrorInv, MirrorTypeOK
        <3>2. CASE i \notin {row[1] : row \in mirror[d]}
            <4>1. exact' = exact
                BY <3>2 DEF WebhookEvent
            <4>2. e = d /\ exact[e] # None => i \notin exact[e]
                <5>1. SUFFICES ASSUME e = d, exact[e] # None, i \in exact[e] PROVE FALSE
                    OBVIOUS
                <5>2. kind \in Replaced
                    BY <1>1 DEF Replaced
                <5>3. PICK n \in 0 .. MaxRuns : mirror[d] = {<<k, n>> : k \in exact[d]}
                    BY <2>1, <5>1, <5>2 DEF TableOK
                <5>4. <<i, n>> \in mirror[d] /\ <<i, n>>[1] = i
                    BY <5>1, <5>3
                <5>5. QED
                    BY <5>4, <3>2
            <4>3. QED
                BY <4>1, <4>2
        <3>3. QED
            BY <3>1, <3>2
    <2>3. hooked'[e] = IF e = d THEN hooked[e] \cup {i} ELSE hooked[e]
        BY <1>1 DEF MirrorInv, MirrorTypeOK
    <2>4. QED
        BY <1>1, <2>1, <2>2, <2>3 DEF TableOK, Replaced
<1>6. MirrorTypeOK'
    <2>1. run' \in [Runners -> Run]
        BY <1>3 DEF WebhookEvent
    <2>2. hooked' \in [Targets -> SUBSET Items]
        BY <1>1 DEF MirrorInv, MirrorTypeOK
    <2>3. exact' \in [Targets -> (SUBSET Items) \cup {None}]
        BY DEF WebhookEvent, MirrorInv, MirrorTypeOK
    <2>4. QED
        BY <2>1, <2>2, <2>3 DEF WebhookEvent, MirrorInv, MirrorTypeOK
<1>7. QED
    BY <1>4, <1>5, <1>6 DEF MirrorInv

\* The rows that a run writes for a target.
LEMMA WrittenRows ==
    ASSUME MirrorInv, NEW j \in Runners, NEW items \in SUBSET Items
    PROVE  LET n == IF kind \in Replaced THEN run[j].no ELSE 0
           IN  /\ n \in 0 .. MaxRuns
               /\ Written(j, items) = {<<i, n>> : i \in items}
               /\ Written(j, items) \subseteq Rows
<1> DEFINE n == IF kind \in Replaced THEN run[j].no ELSE 0
<1>1. n \in 0 .. MaxRuns
    BY MirrorAssumptions DEF MirrorInv, MirrorTypeOK, Run
<1>2. Written(j, items) = {<<i, n>> : i \in items}
    BY DEF Written
<1> HIDE DEF n
<1>3. {<<i, n>> : i \in items} \subseteq Rows
    BY <1>1 DEF Rows
<1>4. QED
    BY <1>1, <1>2, <1>3 DEF n

LEMMA CommitCallsKeeps ==
    ASSUME MirrorInv, NEW j \in Runners, CommitCalls(j)
    PROVE  MirrorInv'
<1>1. /\ run[j].pc = "calls" /\ RunOK(run[j]) /\ run[j] \in Run
      /\ mirror' = [d \in Targets |-> mirror[d] \cup Written(j, run[j].calls[d])]
      /\ UNCHANGED <<kind, runs, mfaults, exact, crm, open, hooked, stage, counted, emptied>>
    BY DEF CommitCalls, MirrorInv, RunOK, tables
<1>2. kind = "activity" /\ kind \notin Replaced
    BY <1>1 DEF RunOK, Replaced
<1>3. ASSUME NEW d \in Targets
      PROVE  /\ mirror'[d] = mirror[d] \cup {<<i, 0>> : i \in run[j].calls[d]}
             /\ mirror'[d] \subseteq Rows
    <2>1. run[j].calls[d] \in SUBSET Items
        BY <1>1 DEF Run
    <2>2. QED
        BY <1>1, <1>2, <2>1, WrittenRows DEF MirrorInv, MirrorTypeOK
<1>4. run' \in [Runners -> Run] /\ \A o \in Runners : run'[o] = NoRun \/ run'[o] = run[o]
    BY NoRunOK DEF CommitCalls, StopRun, MirrorInv, MirrorTypeOK
<1>5. MirrorTypeOK'
    <2>1. mirror' \in [Targets -> SUBSET Rows]
        BY <1>1, <1>3
    <2>2. QED
        BY <1>1, <1>4, <2>1 DEF MirrorInv, MirrorTypeOK
<1>6. ASSUME NEW o \in Runners
      PROVE  RunOK(run[o])' /\ RunIsAlone(run[o])'
    <2>1. RunOK(run'[o])
        BY <1>4, NoRunOK DEF MirrorInv
    <2>2. QED
        BY <2>1, <1>1, <1>2 DEF RunOK, RunIsAlone, AtHand
<1>7. ASSUME NEW d \in Targets
      PROVE  TableOK(d)'
    <2>1. TableOK(d)
        BY DEF MirrorInv
    <2>2. QED
        BY <1>1, <1>2, <1>3, <2>1 DEF TableOK
<1>8. QED
    BY <1>5, <1>6, <1>7 DEF MirrorInv

\* The commit of a target: an undisturbed run leaves what it has read, and the
\* runs whose DELETE has seen the rows of before are disturbed.
LEMMA CommitTargetKeeps ==
    ASSUME MirrorInv, NEW j \in Runners, CommitTarget(j)
    PROVE  MirrorInv'
<1> DEFINE s == run[j]
           d == s.target
           n == IF kind \in Replaced THEN s.no ELSE 0
           ended == [s EXCEPT !.pc = "fetch", !.target = None, !.fetched = {}, !.deleted = {}]
<1>1. /\ s.pc = "commit" /\ RunOK(s) /\ RunIsAlone(s) /\ s \in Run
      /\ UNCHANGED <<kind, runs, mfaults, crm, open, hooked, stage, counted, emptied>>
    BY DEF CommitTarget, MirrorInv, RunOK, tables
<1>2. d \in Targets /\ s.fetched \in SUBSET Items /\ n \in 0 .. MaxRuns
    BY <1>1, MirrorAssumptions DEF RunOK, AtHand, Run
<1>3. /\ mirror' = [mirror EXCEPT ![d] = (@ \ s.deleted) \cup Written(j, s.fetched)]
      /\ exact' = [exact EXCEPT ![d] = IF d \in s.raced THEN None ELSE s.fetched]
    BY DEF CommitTarget
<1>4. /\ Written(j, s.fetched) = {<<i, n>> : i \in s.fetched}
      /\ Written(j, s.fetched) \subseteq Rows
    BY <1>2, WrittenRows
<1>5. /\ mirror'[d] = (mirror[d] \ s.deleted) \cup {<<i, n>> : i \in s.fetched}
      /\ mirror' \in [Targets -> SUBSET Rows]
      /\ \A e \in Targets \ {d} : mirror'[e] = mirror[e] /\ exact'[e] = exact[e]
      /\ exact'[d] = IF d \in s.raced THEN None ELSE s.fetched
      /\ exact' \in [Targets -> (SUBSET Items) \cup {None}]
    BY <1>2, <1>3, <1>4 DEF MirrorInv, MirrorTypeOK
<1>6. /\ run'[j] = ended
      /\ \A o \in Runners \ {j} :
            IF kind \in Replaced /\ run[o].pc = "commit" /\ run[o].target = d
            THEN run'[o] = [run[o] EXCEPT !.raced = @ \cup {d}]
            ELSE run'[o] = run[o]
      /\ run' = [o \in Runners |-> run'[o]]
    BY DEF CommitTarget
<1> HIDE DEF n
<1>7. /\ ended \in Run /\ ended.pc = "fetch" /\ ended.target = None /\ ended.deleted = {}
      /\ ended.todo = s.todo /\ ended.raced = s.raced
    BY <1>1 DEF Run
<1> HIDE DEF ended
<1>8. ASSUME NEW o \in Runners \ {j}
      PROVE  /\ run'[o] \in Run
             /\ run'[o].pc = run[o].pc /\ run'[o].target = run[o].target
             /\ run'[o].todo = run[o].todo /\ run'[o].deleted = run[o].deleted
             /\ run[o].raced \subseteq run'[o].raced
             /\ kind \in Replaced /\ run[o].pc = "commit" /\ run[o].target = d
                    => d \in run'[o].raced
    <2> DEFINE r == run[o]
    <2>1. r \in Run
        BY DEF MirrorInv, MirrorTypeOK
    <2>2. CASE run'[o] = run[o] /\ ~(kind \in Replaced /\ run[o].pc = "commit" /\ run[o].target = d)
        BY <2>1, <2>2
    <2>3. CASE run'[o] = [run[o] EXCEPT !.raced = @ \cup {d}]
        <3> HIDE DEF r, d
        <3>1. run'[o] = [r EXCEPT !.raced = @ \cup {d}]
            BY <2>3 DEF r
        <3>2. /\ run'[o] \in Run /\ run'[o].pc = r.pc /\ run'[o].target = r.target
              /\ run'[o].todo = r.todo /\ run'[o].deleted = r.deleted
              /\ run'[o].raced = r.raced \cup {d}
            BY <2>1, <3>1, <1>2 DEF Run
        <3>3. QED
            BY <3>2 DEF r
    <2>4. QED
        BY <1>6, <2>2, <2>3
<1>9. ASSUME NEW o \in Runners
      PROVE  RunOK(run[o])' /\ RunIsAlone(run[o])'
    <2>1. CASE o = j
        <3>1. RunOK(run[j])'
            BY <1>1, <1>6, <1>7 DEF RunOK, AtHand
        <3>2. RunIsAlone(run[j])'
            BY <1>1, <1>6, <1>7, MirrorAssumptions DEF RunIsAlone
        <3>3. QED
            BY <2>1, <3>1, <3>2
    <2>2. CASE o # j
        <3>1. RunOK(run[o]) /\ RunIsAlone(run[o])
            BY DEF MirrorInv
        <3>2. RunOK(run[o])'
            BY <1>1, <1>8, <2>2, <3>1 DEF RunOK, AtHand
        <3>3. ASSUME run'[o].pc = "commit", kind \in Replaced, run'[o].target \notin run'[o].raced
              PROVE  run'[o].deleted = mirror'[run'[o].target]
            <4>1. run[o].target \in Targets /\ run[o].target # d
                BY <1>8, <2>2, <3>1, <3>3 DEF RunOK, AtHand
            <4>2. mirror'[run[o].target] = mirror[run[o].target]
                BY <1>5, <4>1
            <4>3. run[o].deleted = mirror[run[o].target]
                BY <1>8, <2>2, <3>1, <3>3 DEF RunIsAlone
            <4>4. QED
                BY <1>8, <2>2, <4>2, <4>3
        <3>4. kind = "timeline" /\ run'[o].pc # "idle" =>
                \A e \in Targets : (e \in run'[o].todo \/ run'[o].target = e)
                                    /\ e \notin run'[o].raced => hooked[e] = {}
            BY <1>8, <2>2, <3>1 DEF RunIsAlone
        <3>5. QED
            BY <1>1, <3>2, <3>3, <3>4 DEF RunIsAlone
    <2>3. QED
        BY <2>1, <2>2
<1>10. ASSUME NEW e \in Targets
       PROVE  TableOK(e)'
    <2>1. TableOK(e)
        BY DEF MirrorInv
    <2>2. CASE e # d
        BY <1>1, <1>5, <2>1, <2>2 DEF TableOK
    <2>3. CASE e = d
        <3>1. kind \notin Replaced => s.deleted = {} /\ n = 0
            BY <1>1 DEF RunOK, n
        <3>2. kind \notin Replaced => \A row \in mirror'[d] : row[2] = 0
            BY <1>5, <2>1, <2>3, <3>1 DEF TableOK
        <3>3. ASSUME exact'[d] # None
              PROVE  exact'[d] = s.fetched /\ d \notin s.raced
            BY <1>5, <3>3
        <3>4. ASSUME exact'[d] # None
              PROVE  hooked[d] = {}
            BY <1>1, <1>2, <2>1, <2>3, <3>3, <3>4 DEF TableOK, RunIsAlone
        <3>5. ASSUME exact'[d] # None, kind \in Replaced
              PROVE  mirror'[d] = {<<i, n>> : i \in exact'[d]}
            BY <1>1, <1>5, <3>3, <3>5 DEF RunIsAlone
        <3>6. ASSUME exact'[d] # None, kind \notin Replaced
              PROVE  \A i \in exact'[d] : <<i, 0>> \in mirror'[d]
            BY <1>5, <3>1, <3>3, <3>6
        <3>7. QED
            BY <1>1, <1>2, <2>1, <2>3, <3>2, <3>4, <3>5, <3>6 DEF TableOK
    <2>4. QED
        BY <2>2, <2>3
<1>11. MirrorTypeOK'
    <2>1. \A o \in Runners : run'[o] \in Run
        BY <1>6, <1>7, <1>8
    <2>2. run' \in [Runners -> Run]
        BY <1>6, <2>1
    <2>3. QED
        BY <1>1, <1>5, <2>2 DEF MirrorInv, MirrorTypeOK
<1>12. QED
    BY <1>9, <1>10, <1>11 DEF MirrorInv

LEMMA MirrorStep == MirrorInv /\ [MirrorNext]_mirrorVars => MirrorInv'
<1> SUFFICES ASSUME MirrorInv, [MirrorNext]_mirrorVars PROVE MirrorInv'
    OBVIOUS
<1>1. CASE UNCHANGED mirrorVars
    <2>1. MirrorTypeOK' /\ UNCHANGED <<kind, mirror, hooked, run, exact>>
        BY <1>1 DEF mirrorVars, MirrorInv, MirrorTypeOK
    <2>2. QED
        BY <2>1, TablesKept
<1>2. CASE MirrorNext
    BY <1>2, OutsideKeeps, WebhookKeeps, RunStartsKeeps, FetchTargetKeeps, DeleteRowsKeeps,
       CommitTargetKeeps, RunEndsKeeps, CommitCallsKeeps, MirrorCrashKeeps DEF MirrorNext
<1>3. QED
    BY <1>1, <1>2

LEMMA MirrorInvariant == MirrorSpec => []MirrorInv
<1>1. QED
    BY MirrorInitInv, MirrorStep, PTL DEF MirrorSpec

\* The copies of Freshsales' records, the runs that write them and the counts
\* of the day hold values of their types (email_sync, task_sync,
\* timeline_backfill, nog_activity_sync, snapshot_repo).
THEOREM MirrorTypeCorrect == MirrorSpec => []MirrorTypeOK
<1>1. MirrorInv => MirrorTypeOK
    BY DEF MirrorInv
<1>2. QED
    BY <1>1, MirrorInvariant, PTL

\* Re-running a sync never duplicates what it has read, and a table that is
\* deleted and inserted anew holds nothing else, for any number of runs,
\* failures, restarts and webhooks: only a run that met another writer between
\* its DELETE and its commit, or a webhook beside its backfill, is excepted.
THEOREM MirrorsExact == MirrorSpec => []MirrorIsExact
<1>1. ASSUME MirrorInv PROVE MirrorIsExact
    <2>1. SUFFICES ASSUME NEW d \in Targets, exact[d] # None
                   PROVE  /\ \A i \in exact[d] : TimesCounted(d, i) = 1
                          /\ kind \in Replaced => \A row \in mirror[d] : row[1] \in exact[d]
        BY DEF MirrorIsExact
    <2>2. TableOK(d)
        BY <1>1 DEF MirrorInv
    <2>3. ASSUME NEW i \in exact[d] PROVE TimesCounted(d, i) = 1
        <3>1. i \notin hooked[d]
            BY <2>1, <2>2 DEF TableOK
        <3>2. PICK n : {row \in mirror[d] : row[1] = i} = {<<i, n>>}
            <4>1. CASE kind \in Replaced
                <5>1. PICK n \in 0 .. MaxRuns : mirror[d] = {<<k, n>> : k \in exact[d]}
                    BY <2>1, <2>2, <4>1 DEF TableOK
                <5>2. {row \in mirror[d] : row[1] = i} = {<<i, n>>}
                    BY <5>1
                <5>3. QED
                    BY <5>2
            <4>2. CASE kind \notin Replaced
                <5>1. <<i, 0>> \in mirror[d] /\ \A row \in mirror[d] : row[2] = 0
                    BY <2>1, <2>2, <4>2 DEF TableOK
                <5>2. \A row \in mirror[d] : row = <<row[1], row[2]>>
                    BY <1>1 DEF MirrorInv, MirrorTypeOK, Rows
                <5>3. {row \in mirror[d] : row[1] = i} = {<<i, 0>>}
                    BY <5>1, <5>2
                <5>4. QED
                    BY <5>3
            <4>3. QED
                BY <4>1, <4>2
        <3>3. Cardinality({row \in mirror[d] : row[1] = i}) = 1
            BY <3>2, FS_Singleton
        <3>4. QED
            BY <3>1, <3>3 DEF TimesCounted
    <2>4. ASSUME kind \in Replaced, NEW row \in mirror[d] PROVE row[1] \in exact[d]
        BY <2>1, <2>2, <2>4 DEF TableOK
    <2>5. QED
        BY <2>3, <2>4
<1>2. QED
    BY <1>1, MirrorInvariant, PTL

-----------------------------------------------------------------------------
(* The daily snapshot adds up.                                              *)

\* The deals of a stage.
AsIn(st, s) == {d \in PipelineDeals : st[d] = s}
RowOf(s) == IF counted[s] = None THEN 0 ELSE counted[s]

\* A row of today whose stage has no deal left is known to be out of date.
EmptyIsKnown ==
    \A s \in Stages : counted[s] # None /\ DealsIn(s) = {} => s \in emptied

\* But for those, the rows of today are the counts of one state of the deals,
\* the one the last run of the day has seen.
OneState ==
    (\E s \in Stages : counted[s] # None) =>
        \E st \in [PipelineDeals -> Stages] :
            \A s \in Stages \ emptied : RowOf(s) = Cardinality(AsIn(st, s))

DayInv == EmptyIsKnown /\ OneState

LEMMA DayInit == MirrorInit => DayInv
  BY DEF MirrorInit, DayInv, EmptyIsKnown, OneState

LEMMA DayNext == MirrorTypeOK /\ DayInv /\ [MirrorNext]_mirrorVars => DayInv'
<1> SUFFICES ASSUME MirrorTypeOK, DayInv, [MirrorNext]_mirrorVars PROVE DayInv'
  OBVIOUS
<1>t. stage \in [PipelineDeals -> Stages]
  BY DEF MirrorTypeOK
<1>1. ASSUME NEW d \in PipelineDeals, NEW s \in Stages, MoveStage(d, s) PROVE DayInv'
  <2>1. /\ counted' = counted /\ stage' = [stage EXCEPT ![d] = s] /\ stage[d] \in Stages
        /\ emptied' = IF DealsIn(stage[d]) = {d} /\ counted[stage[d]] # None
                      THEN emptied \cup {stage[d]} ELSE emptied
    BY <1>1, <1>t DEF MoveStage
  <2>2. ASSUME NEW r \in Stages, counted[r] # None, DealsIn(r)' = {} PROVE r \in emptied'
    <3>1. DealsIn(r) \subseteq {d} /\ (d \in DealsIn(r) => r = stage[d])
      BY <1>t, <2>1, <2>2 DEF DealsIn
    <3>2. CASE DealsIn(r) = {}
      BY <2>1, <2>2, <3>2 DEF DayInv, EmptyIsKnown
    <3>3. CASE DealsIn(r) # {}
      <4>1. DealsIn(r) = {d} /\ r = stage[d]
        BY <3>1, <3>3
      <4> QED
        BY <2>1, <2>2, <4>1
    <3> QED
      BY <3>2, <3>3
  <2>3. EmptyIsKnown'
    BY <2>1, <2>2 DEF EmptyIsKnown
  <2>4. emptied \subseteq emptied'
    BY <2>1
  <2>5. OneState'
    BY <2>1, <2>4 DEF DayInv, OneState, RowOf, AsIn
  <2> QED
    BY <2>3, <2>5 DEF DayInv
<1>2. CASE WriteTodaySnapshot
  <2>1. /\ counted' = [s \in Stages |-> IF DealsIn(s) = {} THEN counted[s]
                                        ELSE Cardinality(DealsIn(s))]
        /\ emptied' = emptied \ {s \in Stages : DealsIn(s) # {}}
        /\ stage' = stage
    BY <1>2 DEF WriteTodaySnapshot, TodaySnapshot
  <2>2. EmptyIsKnown'
    <3> SUFFICES ASSUME NEW s \in Stages, counted'[s] # None, DealsIn(s)' = {}
                 PROVE  s \in emptied'
      BY DEF EmptyIsKnown
    <3>1. DealsIn(s) = {} /\ counted[s] # None
      BY <2>1 DEF DealsIn
    <3> QED
      BY <2>1, <3>1 DEF DayInv, EmptyIsKnown
  <2>3. ASSUME NEW s \in Stages \ emptied' PROVE RowOf(s)' = Cardinality(AsIn(stage, s))
    <3>1. AsIn(stage, s) = DealsIn(s)
      BY DEF AsIn, DealsIn
    <3>2. CASE DealsIn(s) = {}
      <4>1. s \notin emptied
        BY <2>1, <2>3, <3>2
      <4>2. counted[s] = None /\ counted'[s] = None
        BY <2>1, <3>2, <4>1 DEF DayInv, EmptyIsKnown
      <4> QED
        BY <3>1, <3>2, <4>2, FS_EmptySet DEF RowOf
    <3>3. CASE DealsIn(s) # {}
      <4>1. counted'[s] = Cardinality(DealsIn(s))
        BY <2>1, <3>3
      <4>2. Cardinality(DealsIn(s)) # None
        BY MirrorAssumptions, FS_Subset, FS_CardinalityType DEF DealsIn
      <4> QED
        BY <3>1, <4>1, <4>2 DEF RowOf
    <3> QED
      BY <3>2, <3>3
  <2>4. OneState'
    BY <1>t, <2>3 DEF OneState, AsIn
  <2> QED
    BY <2>2, <2>4 DEF DayInv
<1>3. CASE NextDay
  BY <1>3 DEF NextDay, DayInv, EmptyIsKnown, OneState
<1>4. CASE UNCHANGED <<stage, counted, emptied>>
  BY <1>4 DEF DayInv, EmptyIsKnown, OneState, DealsIn, RowOf
<1>5. \/ \E d \in PipelineDeals, s \in Stages : MoveStage(d, s)
      \/ WriteTodaySnapshot \/ NextDay \/ UNCHANGED <<stage, counted, emptied>>
  BY DEF MirrorNext, CrmChanges, WebhookEvent, DealStageChanges, RunStarts, FetchTarget,
         DeleteRows, CommitTarget, RunEnds, CommitCalls, MirrorCrash, mirrorVars, tables
<1> QED
  BY <1>1, <1>2, <1>3, <1>4, <1>5

LEMMA DayHolds == MirrorTypeOK /\ DayInv => DayAddsUp
<1> SUFFICES ASSUME MirrorTypeOK, DayInv, emptied = {}, \E s \in Stages : counted[s] # None
             PROVE  SumFunction([s \in Stages |-> IF counted[s] = None THEN 0 ELSE counted[s]])
                        = Cardinality(PipelineDeals)
  BY DEF DayAddsUp
<1>1. PICK st \in [PipelineDeals -> Stages] :
            \A s \in Stages \ emptied : RowOf(s) = Cardinality(AsIn(st, s))
  BY DEF DayInv, OneState
<1> DEFINE F == [s \in Stages |-> RowOf(s)]
           ones == [d \in PipelineDeals |-> 1]
<1>f. IsFiniteSet(Stages) /\ IsFiniteSet(PipelineDeals)
  BY MirrorAssumptions
<1>2. ASSUME NEW s \in Stages
      PROVE  F[s] = SumFunctionOnSet(ones, {d \in PipelineDeals : st[d] = s})
  <2> DEFINE G == {d \in PipelineDeals : st[d] = s}
  <2>1. F[s] = Cardinality(G)
    BY <1>1 DEF AsIn
  <2>2. IsFiniteSet(G) /\ \A d \in G : ones[d] = 1
    BY <1>f, FS_Subset
  <2>3. SumFunctionOnSet(ones, G) = Cardinality(G)
    <3> HIDE DEF G, ones
    <3> QED BY <2>2, SumOfOnes
  <2> QED
    BY <2>1, <2>3
<1>3. AddsGroups(F, Stages, ones, PipelineDeals, st)
  <2> HIDE DEF F, ones
  <2> QED
    BY <1>2 DEF AddsGroups
<1>4. IsNatural(ones, PipelineDeals) /\ \A d \in PipelineDeals : ones[d] = 1
  BY DEF IsNatural
<1>5. SumFunctionOnSet(F, Stages) = Cardinality(PipelineDeals)
  <2> HIDE DEF F, ones
  <2> QED
    BY <1>f, <1>3, <1>4, SumOfGroups, SumOfOnes
<1>6. F = [s \in Stages |-> IF counted[s] = None THEN 0 ELSE counted[s]] /\ DOMAIN F = Stages
  BY DEF RowOf
<1> QED
  <2> HIDE DEF F
  <2> QED BY <1>5, <1>6 DEF SumFunction, SumFunctionOnSet

\* The rows that a day's runs of write_today_snapshot have left count every deal
\* once, however often the deals move and the run is repeated, unless a stage
\* that was counted has been emptied since (repositories/snapshot_repo.py).
THEOREM DayIsConsistent == MirrorSpec => []DayAddsUp
<1>1. MirrorInv => MirrorTypeOK
  BY DEF MirrorInv
<1> QED
  BY <1>1, MirrorInvariant, DayInit, DayNext, DayHolds, PTL DEF MirrorSpec

-----------------------------------------------------------------------------
(* The parts together                                                       *)

\* A step of one part is a step or a stutter of every part.
LEMMA OfficeStep ==
    [OfficeNext]_allVars
        => /\ [UserNext]_userVars /\ [DocNext]_docVars /\ [MirrorNext]_mirrorVars
           /\ [TransferNext]_transferVars /\ [ScriptNext]_scriptVars
           /\ [ReportNext]_reportVars /\ part' = part
BY DEF OfficeNext, allVars

\* The parts share no state: what is proved of each holds of all of them
\* together, which is the specification that the run `office` checks.
THEOREM OfficeIsItsParts ==
    OfficeSpec => UserSpec /\ DocSpec /\ MirrorSpec /\ TransferSpec /\ ScriptSpec /\ ReportSpec
<1>1. OfficeInit => /\ UserInit /\ DocInit /\ MirrorInit /\ TransferInit /\ ScriptInit
                    /\ ReportInit
    BY DEF OfficeInit
<1>2. QED
    BY <1>1, OfficeStep, PTL
       DEF OfficeSpec, UserSpec, DocSpec, MirrorSpec, TransferSpec, ScriptSpec, ReportSpec

\* The tables, requests, runs and scripts of every part hold values of their
\* types, whichever part a behaviour is about.
THEOREM OfficeTypeCorrect == OfficeSpec => []OfficeTypeOK
<1>1. OfficeInit => part \in Parts
    BY DEF OfficeInit
<1>2. part \in Parts /\ [OfficeNext]_allVars => (part \in Parts)'
    BY OfficeStep
<1>3. OfficeSpec => [](part \in Parts)
    BY <1>1, <1>2, PTL DEF OfficeSpec
<1>4. ReportInv => ReportTypeOK
    BY DEF ReportInv
<1>5. ASSUME part \in Parts, UserTypeOK, DocTypeOK, MirrorTypeOK, TransferTypeOK,
             ScriptTypeOK, ReportTypeOK
      PROVE  OfficeTypeOK
    <2>1. CASE part = "users"
        BY <1>5, <2>1 DEF OfficeTypeOK
    <2>2. CASE part = "documents"
        BY <1>5, <2>2 DEF OfficeTypeOK
    <2>3. CASE part = "mirrors"
        BY <1>5, <2>3 DEF OfficeTypeOK
    <2>4. CASE part = "transfer"
        BY <1>5, <2>4 DEF OfficeTypeOK
    <2>5. CASE part = "scripts"
        BY <1>5, <2>5 DEF OfficeTypeOK
    <2>6. CASE part = "reports"
        BY <1>5, <2>6 DEF OfficeTypeOK
    <2>7. QED
        BY <1>5, <2>1, <2>2, <2>3, <2>4, <2>5, <2>6 DEF Parts
<1>6. QED
    BY <1>3, <1>4, <1>5, OfficeIsItsParts, UserTypeCorrect, DocTypeCorrect,
       MirrorTypeCorrect, TransferTypeCorrect, ScriptTypeCorrect, ReportInvariant, PTL
=============================================================================
