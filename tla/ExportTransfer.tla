--------------------------- MODULE ExportTransfer ---------------------------
(***************************************************************************)
(* scripts/transfer_export_launchpad.py moves campaign registrations into   *)
(* the trade tables: one or two participants each, and the e-mail events of *)
(* the primary.  It is "re-runnable": a registration that has trade rows is *)
(* skipped.  A registration takes several commits, and the unique index on  *)
(* (program, e-mail) can refuse any insert; scripts/import_trade_leads.py   *)
(* and the public form fill the same table.                                 *)
(***************************************************************************)
EXTENDS Naturals, FiniteSets, UnitOfWork

CONSTANTS
    Sources,        \* leads of the source campaign; also their e-mail addresses
    OtherEmails,    \* addresses of nobody in the source campaign
    MaxEvents,      \* bound: e-mail events of one lead
    MaxTransferFaults   \* bound: runs cut off from outside

ASSUME TransferAssumptions ==
    /\ None \notin Sources \cup OtherEmails
    /\ MaxEvents \in Nat /\ MaxTransferFaults \in Nat

Emails == Sources \cup OtherEmails

\* A trade_leads row: its registration (None: not from the campaign), its
\* participant_index, its e-mail (None: the empty string), whether it is synced.
TradeRow == [reg: Sources \cup {None}, index: {1, 2}, email: Emails \cup {None},
             synced: BOOLEAN]

VARIABLES
    second,     \* responses["second_participant"]: None, or the e-mail given there
    trade,      \* the trade_leads rows of the program
    events,     \* email_events of each lead: committed ones
    pointed,    \* those with a trade_lead_id
    archived,   \* the source campaign is archived
    transfer,   \* the running script: [todo, reg, pc, pointing], or None
    import,     \* import_trade_leads.py: the e-mails it found new, or None
    xfaults,
    due,        \* history: the events a run has re-pointed, committed or not
    torn        \* history: registrations a run stopped in the middle of

transferVars == <<second, trade, events, pointed, archived, transfer, import, xfaults, due, torn>>

\* The run: registrations listed and not begun, the one at hand, what comes
\* next for it, the events its open transaction has re-pointed.
Transfer == [pc: {"primary", "events", "second"}, todo: SUBSET Sources,
             reg: Sources \cup {None}, pointing: [Sources -> SUBSET (1 .. MaxEvents)]]

ASSUME NoTransferAssumption == None \notin Transfer

TransferTypeOK ==
    /\ second \in [Sources -> Emails \cup {None}]
    /\ trade \subseteq TradeRow
    /\ events \in [Sources -> SUBSET (1 .. MaxEvents)]
    /\ pointed \in [Sources -> SUBSET (1 .. MaxEvents)]
    /\ archived \in BOOLEAN
    /\ transfer \in Transfer \cup {None}
    /\ import \in (SUBSET Emails) \cup {None}
    /\ xfaults \in 0 .. MaxTransferFaults
    /\ due \in [Sources -> SUBSET (1 .. MaxEvents)]
    /\ torn \subseteq Sources

NoPointing == [s \in Sources |-> {}]

TransferInit ==
    /\ second \in [Sources -> Emails \cup {None}]
    /\ trade = {}
    /\ events = NoPointing /\ pointed = NoPointing
    /\ archived = FALSE
    /\ transfer = None /\ import = None
    /\ xfaults = 0 /\ due = NoPointing /\ torn = {}

RegistrationRows(s) == {row \in trade : row.reg = s}
TakenEmails == {row.email : row \in trade} \ {None}

\* The unique index skips rows whose e-mail is empty.
Insertable(row) == row.email \notin TakenEmails

-----------------------------------------------------------------------------
(* The rest of the service                                                  *)

\* The campaign still mails its leads: the webhook stores an event by lead_id.
EmailEventArrives(s) ==
    /\ \E e \in 1 .. MaxEvents : e \notin events[s] /\ events' = [events EXCEPT ![s] = @ \cup {e}]
    /\ UNCHANGED <<second, trade, pointed, archived, transfer, import, xfaults, due, torn>>

\* The public trade form registers an address.
TradeFormRegisters(e) ==
    LET row == [reg |-> None, index |-> 1, email |-> e, synced |-> FALSE]
    IN  /\ Insertable(row)
        /\ trade' = trade \cup {row}
        /\ UNCHANGED <<second, events, pointed, archived, transfer, import, xfaults, due, torn>>

\* import_trade_leads.py looks all its rows up before it writes the first.
ImportLooksUp(file) ==
    /\ import = None /\ file # {}
    /\ import' = file \ TakenEmails
    /\ UNCHANGED <<second, trade, events, pointed, archived, transfer, xfaults, due, torn>>

\* One commit per row; an address taken since is refused, which ends the run.
ImportInserts ==
    /\ import # None
    /\ \/ \E e \in import :
            LET row == [reg |-> None, index |-> 1, email |-> e, synced |-> FALSE]
            IN  IF Insertable(row)
                THEN trade' = trade \cup {row} /\ import' = import \ {e}
                ELSE import' = None /\ UNCHANGED trade
       \/ import = {} /\ import' = None /\ UNCHANGED trade
    /\ UNCHANGED <<second, events, pointed, archived, transfer, xfaults, due, torn>>

\* --archive-source
ArchiveSource ==
    /\ ~archived /\ archived' = TRUE
    /\ UNCHANGED <<second, trade, events, pointed, transfer, import, xfaults, due, torn>>

-----------------------------------------------------------------------------
(* --commit                                                                 *)

\* _build_primary: linked to its contact, so never pushed again.
BuildPrimary(s) == [reg |-> s, index |-> 1, email |-> s, synced |-> TRUE]

\* _build_second_participant: the primary's own address is dropped.
BuildSecond(s) == [reg |-> s, index |-> 2,
                   email |-> IF second[s] = s THEN None ELSE second[s], synced |-> FALSE]

TransferLists ==
    /\ transfer = None
    /\ transfer' = [pc |-> "primary", todo |-> {s \in Sources : RegistrationRows(s) = {}},
                    reg |-> None, pointing |-> NoPointing]
    /\ UNCHANGED <<second, trade, events, pointed, archived, import, xfaults, due, torn>>

\* A commit of the session: also of the events re-pointed since the last one.
CommitEvents == pointed' = [s \in Sources |-> pointed[s] \cup transfer.pointing[s]]

\* The run ends with a refused insert or from outside: what it has not
\* committed is rolled back.
TransferStops(lost) ==
    /\ transfer' = None
    /\ torn' = torn \cup lost
        \cup {s \in Sources : transfer.pointing[s] \ pointed[s] # {}}

TransferPrimary ==
    /\ transfer # None /\ transfer.pc = "primary"
    /\ \E s \in transfer.todo :
        \/ /\ Insertable(BuildPrimary(s))
           /\ trade' = trade \cup {BuildPrimary(s)}
           /\ CommitEvents
           /\ transfer' = [pc |-> "events", todo |-> transfer.todo \ {s}, reg |-> s,
                           pointing |-> NoPointing]
           /\ UNCHANGED torn
        \/ ~Insertable(BuildPrimary(s)) /\ TransferStops({}) /\ UNCHANGED <<trade, pointed>>
    /\ UNCHANGED <<second, events, archived, import, xfaults, due>>

\* UPDATE email_events SET trade_lead_id ..., not committed by itself.
RepointEvents ==
    /\ transfer # None /\ transfer.pc = "events"
    /\ transfer' = [transfer EXCEPT !.pc = IF second[transfer.reg] = None THEN "primary"
                                           ELSE "second",
                                    !.pointing[transfer.reg] = events[transfer.reg]]
    /\ due' = [due EXCEPT ![transfer.reg] = events[transfer.reg]]
    /\ UNCHANGED <<second, trade, events, pointed, archived, import, xfaults, torn>>

TransferSecond ==
    /\ transfer # None /\ transfer.pc = "second"
    /\ \/ /\ Insertable(BuildSecond(transfer.reg))
          /\ trade' = trade \cup {BuildSecond(transfer.reg)}
          /\ CommitEvents
          /\ transfer' = [transfer EXCEPT !.pc = "primary", !.pointing = NoPointing]
          /\ UNCHANGED torn
       \/ /\ ~Insertable(BuildSecond(transfer.reg)) /\ TransferStops({transfer.reg})
          /\ UNCHANGED <<trade, pointed>>
    /\ UNCHANGED <<second, events, archived, import, xfaults, due>>

\* Mutant: the script closes its session without the last commit.
TransferEndsUncommitted ==
    /\ transfer # None /\ transfer.pc = "primary" /\ transfer.todo = {}
    /\ transfer' = None
    /\ UNCHANGED <<second, trade, events, pointed, archived, import, xfaults, due, torn>>

TransferEnds ==
    /\ transfer # None /\ transfer.pc = "primary" /\ transfer.todo = {}
    /\ CommitEvents
    /\ transfer' = None
    /\ UNCHANGED <<second, trade, events, archived, import, xfaults, due, torn>>

\* The script is stopped, or loses the database.
TransferCut ==
    /\ transfer # None /\ xfaults < MaxTransferFaults
    /\ xfaults' = xfaults + 1
    /\ TransferStops(IF transfer.pc \in {"events", "second"} THEN {transfer.reg} ELSE {})
    /\ UNCHANGED <<second, trade, events, pointed, archived, import, due>>

TransferNext ==
    \/ \E s \in Sources : EmailEventArrives(s)
    \/ \E e \in Emails : TradeFormRegisters(e)
    \/ \E file \in SUBSET Emails : ImportLooksUp(file)
    \/ ImportInserts \/ ArchiveSource
    \/ TransferLists \/ TransferPrimary \/ RepointEvents \/ TransferSecond
    \/ TransferEnds \/ TransferCut

TransferSpec == TransferInit /\ [][TransferNext]_transferVars

-----------------------------------------------------------------------------
(* Properties                                                               *)

\* The transfer is "re-runnable": between runs a registration is in the trade
\* tables either not at all or whole, with the second participant that was
\* given, if any, and with the events of its primary re-pointed; unless a run
\* stopped in the middle of it, which no later run repairs, because the
\* registration has a row by then.
TransferIsWhole ==
    transfer = None => \A s \in Sources \ torn : RegistrationRows(s) # {}
        => /\ BuildPrimary(s) \in trade
           /\ second[s] # None => BuildSecond(s) \in trade
           /\ due[s] \subseteq pointed[s]
=============================================================================
