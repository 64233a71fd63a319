---------------------------- MODULE LeadScripts ----------------------------
(***************************************************************************)
(* The operators' scripts over the leads of one campaign: the import of the *)
(* reps' sheet, the Apollo enrichment, the ICP scoring and the reconnect     *)
(* broadcast.  Each is meant to be re-run: it skips the leads it has marked. *)
(* The marks are keys of one JSON column, `responses`; a script loads all    *)
(* leads at its start and writes that column back whole, while visitors      *)
(* register again and the other scripts run.                                 *)
(***************************************************************************)
EXTENDS Naturals, FiniteSets, UnitOfWork

CONSTANTS
    Visitors,       \* e-mail addresses of the campaign's leads
    Corporate,      \* those with the domain of a (one) company
    InSheet,        \* those in the reps' sheet
    MaxForms,       \* bound: registrations by a visitor
    MaxScripts,     \* bound: runs of the scripts
    MaxScriptFaults \* bound: lost answers, and scripts cut off

ASSUME ScriptAssumptions ==
    /\ Corporate \subseteq Visitors /\ InSheet \subseteq Visitors
    /\ MaxForms \in Nat /\ MaxScripts \in Nat /\ MaxScriptFaults \in Nat

Marks == {"captured_by", "enrichment", "reconnect_sent_at"}

\* The column: whose answers it holds (0: the sheet's, n: the n-th form sent
\* in), and which marks.  icp_tier is a column of its own.
Responses == [form: 0 .. MaxForms, marks: SUBSET Marks]
LeadRow == [responses: Responses, icp: {None, "Skip", "tier"}]

ASSUME NoLeadRowAssumption == None \notin LeadRow \cup Visitors \cup {"Skip", "tier"}

Scripts == {"import", "enrich", "score", "reconnect"}

\* A running script: the leads as loaded, those left, the one at hand.
ScriptRun == [pc: {"idle", "pick", "write"}, copy: [Visitors -> LeadRow \cup {None}],
              todo: SUBSET Visitors, at: Visitors \cup {None}]

NoLeads == [v \in Visitors |-> None]
NoScript == [pc |-> "idle", copy |-> NoLeads, todo |-> {}, at |-> None]

VARIABLES
    leads,      \* the leads of the campaign
    script,     \* the scripts
    mails,      \* reconnect mails each visitor got, up to 2
    forms, started, sfaults,
    answers,    \* history: the responses the lead would hold had every write
                \* changed only its own key
    unstamped,  \* history: mailed, but the script did not learn of it or was cut
    raced,      \* history: leads written under a copy a script then wrote back
    wiped       \* history: visitors who registered again after the reconnect mail

scriptVars == <<leads, script, mails, forms, started, sfaults, answers, unstamped, raced, wiped>>

ScriptTypeOK ==
    /\ leads \in [Visitors -> LeadRow \cup {None}]
    /\ script \in [Scripts -> ScriptRun]
    /\ mails \in [Visitors -> 0 .. 2]
    /\ forms \in 0 .. MaxForms
    /\ started \in 0 .. MaxScripts
    /\ sfaults \in 0 .. MaxScriptFaults
    /\ answers \in [Visitors -> Responses]
    /\ unstamped \subseteq Visitors
    /\ raced \subseteq Visitors
    /\ wiped \subseteq Visitors

Blank == [form |-> 0, marks |-> {}]

ScriptInit ==
    /\ leads = NoLeads
    /\ script = [k \in Scripts |-> NoScript]
    /\ mails = [v \in Visitors |-> 0]
    /\ forms = 0 /\ started = 0 /\ sfaults = 0
    /\ answers = [v \in Visitors |-> Blank]
    /\ unstamped = {} /\ raced = {} /\ wiped = {}

ScriptFault == sfaults < MaxScriptFaults /\ sfaults' = sfaults + 1
EndScript(k) == script' = [script EXCEPT ![k] = NoScript]
Marked(v, mark) == leads[v] # None /\ mark \in leads[v].responses.marks
Quiet(k) == script[k].pc = "idle"

\* Answers of a visitor replace the column with all its marks.
Submit(v) ==
    LET filled == [form |-> forms + 1, marks |-> {}]
    IN  /\ forms < MaxForms
        /\ forms' = forms + 1
        /\ leads' = [leads EXCEPT ![v] = [responses |-> filled,
                                          icp |-> IF @ = None THEN None ELSE @.icp]]
        /\ answers' = [answers EXCEPT ![v] = filled]
        /\ wiped' = IF mails[v] > 0 THEN wiped \cup {v} ELSE wiped
        /\ UNCHANGED <<script, mails, started, sfaults, unstamped, raced>>

-----------------------------------------------------------------------------
(* What the scripts have in common                                          *)

\* The enrichment asks for company domains only.
Enrichable(v) == leads[v] # None /\ v \in Corporate /\ ~Marked(v, "enrichment")

\* Mutant: the broadcast does not look for its stamp.
ReconnectableAgain(v) == leads[v] # None

Reconnectable(v) == leads[v] # None /\ ~Marked(v, "reconnect_sent_at")

\* The leads a run takes up.
Eligible(k, v) ==
    CASE k = "import"    -> v \in InSheet
      [] k = "enrich"    -> Enrichable(v)
      [] k = "score"     -> leads[v] # None /\ leads[v].icp = None
      [] k = "reconnect" -> Reconnectable(v)

\* Operators do not run a script beside itself.  The import loads nothing yet.
ScriptStarts(k) ==
    /\ Quiet(k) /\ started < MaxScripts
    /\ started' = started + 1
    /\ script' = [script EXCEPT ![k] =
                    [pc |-> "pick", copy |-> IF k = "import" THEN NoLeads ELSE leads,
                     todo |-> {v \in Visitors : Eligible(k, v)}, at |-> None]]
    /\ UNCHANGED <<leads, mails, forms, sfaults, answers, unstamped, raced, wiped>>

\* Mutant: the column is set to the mark alone.
WithMarkOnly(responses, mark) == [responses EXCEPT !.marks = {mark}]

\* The column a script writes back: its copy and one more mark.
WithMark(responses, mark) == [responses EXCEPT !.marks = @ \cup {mark}]

\* A commit of leads `vs` that adds `mark` over the copies of script k.
MarkLeads(k, vs, mark) ==
    LET copy == script[k].copy
    IN  /\ leads' = [v \in Visitors |->
                        IF v \in vs
                        THEN Flushed(leads[v], copy[v],
                                [copy[v] EXCEPT !.responses = WithMark(@, mark)])
                        ELSE leads[v]]
        /\ answers' = [v \in Visitors |->
                        IF v \in vs THEN [answers[v] EXCEPT !.marks = @ \cup {mark}]
                        ELSE answers[v]]
        /\ raced' = raced \cup {v \in vs : leads[v].responses # copy[v].responses}

\* A run that has nothing left to do ends.
ScriptEnds(k) ==
    /\ script[k].pc = "pick" /\ script[k].todo = {}
    /\ EndScript(k)
    /\ UNCHANGED <<leads, mails, forms, started, sfaults, answers, unstamped, raced, wiped>>

\* An operator stops it, or it loses the database.
ScriptCut(k) ==
    /\ ~Quiet(k) /\ ScriptFault
    /\ EndScript(k)
    /\ unstamped' = IF k = "reconnect" /\ script[k].pc = "write"
                    THEN unstamped \cup {script[k].at} ELSE unstamped
    /\ UNCHANGED <<leads, mails, forms, started, answers, raced, wiped>>

-----------------------------------------------------------------------------
(* scripts/send_nog_reconnect.py: mail, then stamp, lead by lead            *)

\* SendGrid accepts the mail and says so; accepts it and the answer is lost;
\* or refuses it.  Only the first is taken as sent.
SendReconnect ==
    LET s == script["reconnect"]
        sent(v) == mails' = [mails EXCEPT ![v] = IF @ = 2 THEN 2 ELSE @ + 1]
        passed(v) == script' = [script EXCEPT !["reconnect"].todo = @ \ {v}]
    IN  /\ s.pc = "pick"
        /\ \E v \in s.todo :
            \/ /\ sent(v)
               /\ script' = [script EXCEPT !["reconnect"].todo = @ \ {v},
                                           !["reconnect"].pc = "write", !["reconnect"].at = v]
               /\ UNCHANGED <<sfaults, unstamped>>
            \/ ScriptFault /\ sent(v) /\ passed(v) /\ unstamped' = unstamped \cup {v}
            \/ ScriptFault /\ passed(v) /\ UNCHANGED <<mails, unstamped>>
        /\ UNCHANGED <<leads, forms, started, answers, raced, wiped>>

StampReconnect ==
    LET s == script["reconnect"]
    IN  /\ s.pc = "write"
        /\ MarkLeads("reconnect", {s.at}, "reconnect_sent_at")
        /\ script' = [script EXCEPT !["reconnect"].pc = "pick", !["reconnect"].at = None]
        /\ UNCHANGED <<mails, forms, started, sfaults, unstamped, wiped>>

-----------------------------------------------------------------------------
(* scripts/enrich_leads.py: one call and one commit for a company's leads   *)

\* Apollo knows the company; it does not, or the call fails for good.
EnrichDomain ==
    LET s == script["enrich"]
    IN  /\ s.pc = "pick" /\ s.todo # {}
        /\ \/ MarkLeads("enrich", s.todo, "enrichment")
           \/ UNCHANGED <<leads, answers, raced>>
        /\ EndScript("enrich")
        /\ UNCHANGED <<mails, forms, started, sfaults, unstamped, wiped>>

-----------------------------------------------------------------------------
(* scripts/score_leads_icp.py                                               *)

\* The leads of a run that were not enriched when it loaded them.
NoData(s) == {v \in s.todo : "enrichment" \notin s.copy[v].responses.marks}

SetTier(vs, tier) ==
    leads' = [v \in Visitors |-> IF v \in vs THEN [leads[v] EXCEPT !.icp = tier] ELSE leads[v]]

\* First, in one commit, the "Skip" of every lead without data.
ScoreNoData ==
    LET s == script["score"]
    IN  /\ s.pc = "pick" /\ NoData(s) # {}
        /\ SetTier(NoData(s), "Skip")
        /\ script' = [script EXCEPT !["score"].todo = @ \ NoData(s)]
        /\ UNCHANGED <<mails, forms, started, sfaults, answers, unstamped, raced, wiped>>

\* What score_lead can return: a tier, "Skip" too, or None if it raises (the
\* call failed, or the answer is not a valid result).
ScoreLead == {"tier", "Skip", None}

\* Then one question per company, answered for all its leads; one that raises
\* leaves them for a later run.
ScoreCompany ==
    LET s == script["score"]
    IN  /\ s.pc = "pick" /\ s.todo # {} /\ NoData(s) = {}
        /\ \E tier \in ScoreLead :
            IF tier = None THEN UNCHANGED leads ELSE SetTier(s.todo, tier)
        /\ script' = [script EXCEPT !["score"].todo = {}]
        /\ UNCHANGED <<mails, forms, started, sfaults, answers, unstamped, raced, wiped>>

-----------------------------------------------------------------------------
(* scripts/import_rep_leads.py                                              *)

\* get_by_campaign_email, for the next row of the sheet.
ImportLooksUpLead ==
    LET s == script["import"]
    IN  /\ s.pc = "pick"
        /\ \E v \in s.todo :
            script' = [script EXCEPT !["import"] = [pc |-> "write", todo |-> s.todo \ {v},
                                                    at |-> v, copy |-> [NoLeads EXCEPT ![v] = leads[v]]]]
        /\ UNCHANGED <<leads, mails, forms, started, sfaults, answers, unstamped, raced, wiped>>

\* An unknown prospect is captured (which replaces the answers of a visitor
\* who registered since the look-up); a known lead only gets its mark.
ImportWrites ==
    LET s == script["import"]
        v == s.at
        captured == [form |-> 0, marks |-> {"captured_by"}]
    IN  /\ s.pc = "write"
        /\ CASE s.copy[v] = None ->
                  /\ leads' = [leads EXCEPT ![v] = [responses |-> captured,
                                    icp |-> IF @ = None THEN None ELSE @.icp]]
                  /\ answers' = [answers EXCEPT ![v].marks = @ \cup {"captured_by"}]
                  /\ raced' = IF leads[v] # None THEN raced \cup {v} ELSE raced
             [] s.copy[v] # None /\ "captured_by" \notin s.copy[v].responses.marks ->
                  MarkLeads("import", {v}, "captured_by")
             [] OTHER -> UNCHANGED <<leads, answers, raced>>
        /\ script' = [script EXCEPT !["import"].pc = "pick", !["import"].at = None,
                                    !["import"].copy = NoLeads]
        /\ UNCHANGED <<mails, forms, started, sfaults, unstamped, wiped>>

ScriptNext ==
    \/ \E v \in Visitors : Submit(v)
    \/ \E k \in Scripts : ScriptStarts(k) \/ ScriptEnds(k) \/ ScriptCut(k)
    \/ SendReconnect \/ StampReconnect \/ EnrichDomain
    \/ ScoreNoData \/ ScoreCompany \/ ImportLooksUpLead \/ ImportWrites

ScriptSpec == ScriptInit /\ [][ScriptNext]_scriptVars

-----------------------------------------------------------------------------
(* Properties                                                               *)

\* "A re-run skips anyone already emailed": a visitor gets the reconnect mail
\* once, unless the script was cut off before the stamp, never heard that the
\* mail was accepted, or the stamp went with the old answers when the visitor
\* registered again (or another script wrote an older copy back).
ReconnectOnce ==
    \A v \in Visitors :
        mails[v] > 1 => v \in unstamped \cup wiped \cup raced

\* "Never overwrites the rest of `responses`": what a lead's column holds is
\* the visitor's latest answers and every mark set since, unless some write
\* came between a script's load and its own write of that lead.
AnswersSurvive ==
    \A v \in Visitors : leads[v] # None /\ v \notin raced => leads[v].responses = answers[v]
=============================================================================
