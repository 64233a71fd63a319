--------------------------- MODULE TradeDocuments ---------------------------
(***************************************************************************)
(* The eligibility documents of one trade registration: files in a private *)
(* object store, the trade_documents rows that name them, and the roll-up  *)
(* eligibility_status on the registration's participants.  Nothing makes   *)
(* the store and the database change together.                             *)
(***************************************************************************)
EXTENDS Naturals, FiniteSets, UnitOfWork

CONSTANTS
    DocKeys,        \* config["required_documents"]: the keys it lists
    Required,       \* those marked required
    Uploaders,      \* upload requests that can be open at once
    MaxUploads,     \* bound: uploads
    MaxDocFaults    \* bound: failed calls of the store, and restarts

ASSUME DocAssumptions ==
    /\ Required \subseteq DocKeys
    /\ None \notin DocKeys
    /\ MaxUploads \in Nat /\ MaxDocFaults \in Nat

Participants == {1, 2}          \* participant_index
Objects == 1 .. MaxUploads      \* an object is named by its upload (a uuid)

\* eligibility_status, and whether eligibility_submitted_at is set.
Participant == [status: {"not_requested", "pending", "submitted"}, stamped: BOOLEAN]

\* A trade_documents row: its id (the upload that inserted it), its object.
TradeDocument == [id: Objects, object: Objects]

ASSUME NoDocAssumption == None \notin Participant \cup TradeDocument \cup Objects

\* An upload request: the key and the object of the new file, the row found,
\* the participants as loaded at the start, those still to be updated.
Upload == [pc: {"idle", "upload", "lookup", "delete", "replace", "insert", "list", "update"},
           key: DocKeys \cup {None}, new: Objects \cup {None},
           existing: TradeDocument \cup {None},
           copy: [Participants -> Participant \cup {None}],
           todo: SUBSET Participants, status: {"not_requested", "pending", "submitted"}]

VARIABLES
    people,     \* the participants of the registration (trade_leads)
    docs,       \* the trade_documents rows
    objects,    \* the object store
    up,         \* the upload requests
    doomed,     \* the clean-up script: the rows it loaded, None if not running
    uploads, dfaults,
    dangling,   \* history: keys whose request stopped between delete and commit
    unrolled    \* history: a change no upload has rolled up afterwards

docVars == <<people, docs, objects, up, doomed, uploads, dfaults, dangling, unrolled>>

NoUpload == [pc |-> "idle", key |-> None, new |-> None, existing |-> None,
             copy |-> [p \in Participants |-> None], todo |-> {},
             status |-> "not_requested"]

DocTypeOK ==
    /\ people \in [Participants -> Participant \cup {None}]
    /\ docs \in [DocKeys -> TradeDocument \cup {None}]
    /\ objects \subseteq Objects
    /\ up \in [Uploaders -> Upload]
    /\ doomed \in (SUBSET Participants) \cup {None}
    /\ uploads \in 0 .. MaxUploads
    /\ dfaults \in 0 .. MaxDocFaults
    /\ dangling \subseteq DocKeys
    /\ unrolled \in BOOLEAN

NewParticipant == [status |-> "not_requested", stamped |-> FALSE]

DocInit ==
    /\ people = [p \in Participants |-> IF p = 1 THEN NewParticipant ELSE None]
    /\ docs = [k \in DocKeys |-> None]
    /\ objects = {}
    /\ up = [r \in Uploaders |-> NoUpload]
    /\ doomed = None
    /\ uploads = 0 /\ dfaults = 0
    /\ dangling = {} /\ unrolled = FALSE

Uploading(r) == up[r].pc # "idle"
Present == {k \in DocKeys : docs[k] # None}
CloseUpload(r) == up' = [up EXCEPT ![r] = NoUpload]
DocFault == dfaults < MaxDocFaults /\ dfaults' = dfaults + 1

\* Mutant: one missing document is let through.
ComputeEligibilityStatusAny(present) ==
    CASE present = {} -> "not_requested"
      [] present # {} /\ (Required \cap present # {} \/ Required = {}) -> "submitted"
      [] OTHER -> "pending"

ComputeEligibilityStatus(present) ==
    CASE present = {} -> "not_requested"
      [] present # {} /\ Required \subseteq present -> "submitted"
      [] OTHER -> "pending"

-----------------------------------------------------------------------------
(* POST /trade/programs/{slug}/eligibility                                  *)

\* Mutant: the object's name is the document key alone.
BuildStorageKeyFixed(k) == IF docs[k] # None THEN docs[k].object ELSE uploads + 1

\* program/registration/key-<uuid>: a name no other upload has.
BuildStorageKey(k) == uploads + 1

\* A registration without participants answers 404.
SubmitStart(r, k) ==
    /\ up[r].pc = "idle" /\ uploads < MaxUploads
    /\ \E p \in Participants : people[p] # None
    /\ uploads' = uploads + 1
    /\ up' = [up EXCEPT ![r] = [NoUpload EXCEPT !.pc = "upload", !.key = k,
                                    !.new = BuildStorageKey(k), !.copy = people]]
    /\ unrolled' = (unrolled \/ doomed # None \/ \E q \in Uploaders : Uploading(q))
    /\ UNCHANGED <<people, docs, objects, doomed, dfaults, dangling>>

\* put_object: stored; or it raises, with or without the object stored.
UploadDocument(r) ==
    LET s == up[r]
    IN  /\ s.pc = "upload"
        /\ \/ /\ objects' = objects \cup {s.new}
              /\ up' = [up EXCEPT ![r].pc = "lookup"]
              /\ UNCHANGED dfaults
           \/ DocFault /\ CloseUpload(r) /\ objects' \in {objects, objects \cup {s.new}}
        /\ UNCHANGED <<people, docs, doomed, uploads, dangling, unrolled>>

GetDocument(r) ==
    LET row == docs[up[r].key]
    IN  /\ up[r].pc = "lookup"
        /\ up' = [up EXCEPT ![r].pc = IF row = None THEN "insert" ELSE "delete",
                            ![r].existing = row]
        /\ UNCHANGED <<people, docs, objects, doomed, uploads, dfaults, dangling, unrolled>>

\* delete_document never raises: a failed delete leaves an orphan.
DeleteDocument(r) ==
    LET s == up[r]
    IN  /\ s.pc = "delete"
        /\ \/ objects' = objects \ {s.existing.object} /\ UNCHANGED dfaults
           \/ DocFault /\ UNCHANGED objects
        /\ up' = [up EXCEPT ![r].pc = "replace"]
        /\ UNCHANGED <<people, docs, doomed, uploads, dangling, unrolled>>

\* The row found is pointed at the new object; a row that is gone by then
\* raises.
ReplaceDocument(r) ==
    LET s == up[r]
        here == docs[s.key] # None /\ docs[s.key].id = s.existing.id
    IN  /\ s.pc = "replace"
        /\ \/ /\ here
              /\ docs' = [docs EXCEPT ![s.key].object = s.new]
              /\ up' = [up EXCEPT ![r].pc = "list", ![r].existing = None]
           \/ ~here /\ CloseUpload(r) /\ UNCHANGED docs
        /\ UNCHANGED <<people, objects, doomed, uploads, dfaults, dangling, unrolled>>

\* The unique index refuses a second row for the key: 500, and the object
\* just stored is named by no row.
InsertDocument(r) ==
    LET s == up[r]
    IN  /\ s.pc = "insert"
        /\ \/ /\ docs[s.key] = None
              /\ docs' = [docs EXCEPT ![s.key] = [id |-> s.new, object |-> s.new]]
              /\ up' = [up EXCEPT ![r].pc = "list"]
           \/ docs[s.key] # None /\ CloseUpload(r) /\ UNCHANGED docs
        /\ UNCHANGED <<people, objects, doomed, uploads, dfaults, dangling, unrolled>>

ListDocuments(r) ==
    LET s == up[r]
    IN  /\ s.pc = "list"
        /\ up' = [up EXCEPT ![r].pc = "update",
                            ![r].status = ComputeEligibilityStatus(Present),
                            ![r].todo = {p \in Participants : s.copy[p] # None}]
        /\ UNCHANGED <<people, docs, objects, doomed, uploads, dfaults, dangling, unrolled>>

\* One commit per participant, primary first, over the copy loaded before
\* the upload.
UpdateParticipant(r) ==
    LET s == up[r]
    IN  /\ s.pc = "update"
        /\ \E p \in s.todo :
            LET set == [s.copy[p] EXCEPT !.status = s.status,
                                         !.stamped = @ \/ s.status = "submitted"]
            IN  /\ \A q \in s.todo : p <= q
                /\ \/ /\ people[p] # None
                      /\ people' = [people EXCEPT ![p] = Flushed(people[p], s.copy[p], set)]
                      /\ IF s.todo = {p} THEN CloseUpload(r)
                         ELSE up' = [up EXCEPT ![r].todo = @ \ {p}]
                   \/ people[p] = None /\ CloseUpload(r) /\ UNCHANGED people
        /\ UNCHANGED <<docs, objects, doomed, uploads, dfaults, dangling, unrolled>>

-----------------------------------------------------------------------------
(* The rest of the service                                                  *)

\* A registration sent again with a second participant inserts that row.
SecondJoins ==
    /\ people[1] # None /\ people[2] = None
    /\ people' = [people EXCEPT ![2] = NewParticipant]
    /\ unrolled' = (unrolled \/ Present # {} \/ \E r \in Uploaders : Uploading(r))
    /\ UNCHANGED <<docs, objects, up, doomed, uploads, dfaults, dangling>>

\* scripts/cleanup_trade_test_data.py: the participants are listed, and later
\* those rows and every document row of the registration are deleted in one
\* transaction; the stored objects stay.  E-mail events and CRM contacts of the
\* participants go too; this module has no state for them.
CleanupLoads ==
    /\ doomed = None
    /\ \E p \in Participants : people[p] # None
    /\ doomed' = {p \in Participants : people[p] # None}
    /\ unrolled' = (unrolled \/ \E r \in Uploaders : Uploading(r))
    /\ UNCHANGED <<people, docs, objects, up, uploads, dfaults, dangling>>

CleanupDeletes ==
    /\ doomed # None
    /\ people' = [p \in Participants |-> IF p \in doomed THEN None ELSE people[p]]
    /\ docs' = [k \in DocKeys |-> None]
    /\ doomed' = None
    /\ unrolled' = (unrolled \/ \E p \in Participants : people[p] # None /\ p \notin doomed)
    /\ UNCHANGED <<objects, up, uploads, dfaults, dangling>>

DocCrash ==
    /\ DocFault
    /\ dangling' = dangling \cup {up[r].key : r \in {q \in Uploaders : up[q].pc = "replace"}}
    /\ unrolled' = (unrolled \/ \E r \in Uploaders : Uploading(r))
    /\ up' = [r \in Uploaders |-> NoUpload]
    /\ UNCHANGED <<people, docs, objects, doomed, uploads>>

DocNext ==
    \/ \E r \in Uploaders :
        \/ \E k \in DocKeys : SubmitStart(r, k)
        \/ UploadDocument(r) \/ GetDocument(r) \/ DeleteDocument(r) \/ ReplaceDocument(r)
        \/ InsertDocument(r) \/ ListDocuments(r) \/ UpdateParticipant(r)
    \/ SecondJoins \/ CleanupLoads \/ CleanupDeletes \/ DocCrash

DocSpec == DocInit /\ [][DocNext]_docVars

-----------------------------------------------------------------------------
(* Properties                                                               *)

\* A document row names an object that is in the store, although a re-upload
\* deletes the old object before the row is committed: what is missing is
\* missing only while that request is between the two, or if it stopped there.
RowHasObject ==
    \A k \in DocKeys : docs[k] # None
        => \/ docs[k].object \in objects
           \/ k \in dangling
           \/ \E r \in Uploaders : /\ up[r].pc = "replace" /\ up[r].key = k
                                   /\ up[r].existing.object = docs[k].object

\* Once nothing is in flight, every participant's eligibility_status is the
\* roll-up of the documents that are there, unless uploads overlapped, one
\* failed half-way, or a participant joined after the documents.
StatusIsRollup ==
    ~unrolled /\ (\A r \in Uploaders : ~Uploading(r))
        => \A p \in Participants : people[p] # None
            => /\ (people[p].status = "not_requested") <=> (Present = {})
               /\ (people[p].status = "submitted") <=> (Present # {} /\ Required \subseteq Present)
=============================================================================
