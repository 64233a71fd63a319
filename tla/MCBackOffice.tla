---------------------------- MODULE MCBackOffice ----------------------------
(***************************************************************************)
(* The parts of the service around the pipelines, checked together.  They   *)
(* share no state, so a behaviour is of one `part` and the others stay as   *)
(* they are.                                                                *)
(***************************************************************************)
EXTENDS UserAdmin, TradeDocuments, CrmMirrors, ExportTransfer, LeadScripts,
        Dashboards, TLC

\* Rows of deals that differ in what the queries test: thresholds on both
\* sides, NULLs, an outgoing mail before the deal was created.
OpenDeal == [line |-> "rental", stage |-> "Open", owner |-> "ann", value |-> 2,
             dead |-> FALSE, age |-> 29, moved |-> 5, active |-> None, tasks |-> {"due"},
             close |-> FALSE, created |-> 1, outreach |-> 5, reason |-> None]
DealChoices ==
    {OpenDeal,
     [OpenDeal EXCEPT !.owner = None, !.moved = None, !.tasks = {"undated"}, !.age = 90,
                      !.outreach = 1],
     [OpenDeal EXCEPT !.line = None, !.moved = 40, !.active = 31, !.tasks = {}, !.age = None,
                      !.outreach = None],
     [OpenDeal EXCEPT !.owner = "bob", !.moved = 31, !.active = -3, !.age = 800,
                      !.close = TRUE, !.value = 3, !.outreach = 0],
     [OpenDeal EXCEPT !.stage = "Closed Lost", !.reason = "other", !.created = None],
     [OpenDeal EXCEPT !.stage = None, !.value = None, !.owner = None, !.outreach = 2]}

VARIABLE part

Parts == {"users", "documents", "mirrors", "transfer", "scripts", "reports"}

\* Open requests are interchangeable.
OfficeSymmetry == Permutations(UserRequests) \cup Permutations(Uploaders)

allVars == <<part, userVars, docVars, mirrorVars, transferVars, scriptVars,
             reportVars>>

OfficeInit ==
    /\ part \in Parts
    /\ UserInit /\ DocInit /\ MirrorInit /\ TransferInit /\ ScriptInit
    /\ ReportInit
    /\ part # "users" => \A e \in Staff : users[e] # None /\ users[e].role = "superadmin"
    /\ part # "mirrors" => kind = "snapshot"
    /\ part # "transfer" => \A s \in Sources : second[s] = None

OfficeNext ==
    \/ part = "users" /\ UserNext
        /\ UNCHANGED <<part, docVars, mirrorVars, transferVars, scriptVars, reportVars>>
    \/ part = "documents" /\ DocNext
        /\ UNCHANGED <<part, userVars, mirrorVars, transferVars, scriptVars, reportVars>>
    \/ part = "mirrors" /\ MirrorNext
        /\ UNCHANGED <<part, userVars, docVars, transferVars, scriptVars, reportVars>>
    \/ part = "transfer" /\ TransferNext
        /\ UNCHANGED <<part, userVars, docVars, mirrorVars, scriptVars, reportVars>>
    \/ part = "scripts" /\ ScriptNext
        /\ UNCHANGED <<part, userVars, docVars, mirrorVars, transferVars, reportVars>>
    \/ part = "reports" /\ ReportNext
        /\ UNCHANGED <<part, userVars, docVars, mirrorVars, transferVars, scriptVars>>

OfficeSpec == OfficeInit /\ [][OfficeNext]_allVars

-----------------------------------------------------------------------------

\* The tables, requests and scripts of the part hold values of their types.
OfficeTypeOK ==
    CASE part = "users"     -> UserTypeOK
      [] part = "documents" -> DocTypeOK
      [] part = "mirrors"   -> MirrorTypeOK
      [] part = "transfer"  -> TransferTypeOK
      [] part = "scripts"   -> ScriptTypeOK
      [] part = "reports"   -> ReportTypeOK
=============================================================================
