------------------------------ MODULE Ingestion ------------------------------
(***************************************************************************)
(* The synchronous ingestion pipeline of services/ingestion-service: every *)
(* POST /v1/documents/upload/complete is a call that runs in one database  *)
(* session, interleaved with the other calls at every await.               *)
(*                                                                         *)
(* A session has one open transaction at a time.  pdoc and pjob hold the   *)
(* document row and the job row it has flushed and not yet committed; docs,*)
(* chunks and jobs are the committed tables.  Unique indexes and primary   *)
(* keys are checked when a row is flushed: a clash with a committed row    *)
(* raises IntegrityError, a clash with a row another session has flushed   *)
(* makes the flush wait for that session.  So do the flush hooks of a      *)
(* document, which refresh two derived tables: what they lock is locked    *)
(* until the transaction ends.                                             *)
(***************************************************************************)
EXTENDS Naturals

CONSTANTS
  Call,         (* upload/complete requests; several may post one form     *)
  Form,         (* signed upload forms, each with its fresh document_id    *)
                (* and ingestion_id: a form stands for both identifiers    *)
  Content,      (* file contents, identified with their SHA-256            *)
  Fields,       (* what a form was signed for: scope, owner, country, name *)
  BadMetadata,  (* forms whose metadata has an unreadable publication_year *)
  ChunksOf,     (* number of chunks the chunker makes of a content         *)
  BatchSize,    (* chunks written per commit                               *)
  SkipRefresh,  (* skip_view_refresh: no refresh after the activation      *)
  NoOwner,      (* SQL NULL in owner_user_id                               *)
  SystemOwner   (* SYSTEM_OWNER_SENTINEL                                   *)

(* What request_upload signs: owner_user_id is empty exactly on base       *)
(* documents, and else the user's who asked.                               *)
Signed(f) == Fields[f].scope = "base" <=> Fields[f].owner = NoOwner

(* The lock of the active_chunks materialized view.                        *)
View == "active_chunks"

ASSUME IngestionAssumption ==
  /\ \A f \in Form : Signed(f)
  /\ ChunksOf \in [Content -> Nat]
  /\ BatchSize \in Nat \ {0}
  /\ SkipRefresh \in BOOLEAN
  /\ View \notin Form
  /\ NoOwner # SystemOwner

VARIABLES
  docs,     (* committed rows of documents                                 *)
  chunks,   (* committed rows of chunks, counted per document              *)
  jobs,     (* committed rows of ingestion_jobs                            *)
  expired,  (* forms whose expires_at has passed                           *)
  form,     (* the form each call posts                                    *)
  content,  (* the file each call posts                                    *)
  pc,       (* where the handler of a call is                              *)
  pdoc,     (* document row the call's open transaction holds              *)
  pjob,     (* job row the call's open transaction holds                   *)
  locked,   (* what else it holds: the view, and rows of the table         *)
            (* base_documents_by_country, each named by its document       *)
  written,  (* chunks the call has committed so far                        *)
  target,   (* the document the call answers with                          *)
  seen,     (* the status it read, or gave, that document                  *)
  resp      (* its answer                                                  *)

tables == <<docs, chunks, jobs>>
pending == <<pdoc, pjob, locked>>
inputs == <<form, content>>
local == <<written, target, seen>>
vars == <<docs, chunks, jobs, expired, form, content, pc, pdoc, pjob, locked,
          written, target, seen, resp>>

NoDoc == [hash |-> "none", status |-> "absent"]
Row(c, s) == [hash |-> c, status |-> s]
DocRow == [hash : Content, status : {"ingesting", "active", "failed"}]

NoJob == [status |-> "absent", doc |-> "none"]
Job(s, d) == [status |-> s, doc |-> d]
JobRow == [status : {"succeeded", "failed"}, doc : Form]

Present(row) == row.status # "absent"

(* In the database steps a DBAPI error may surface; the others are CPU or  *)
(* network work.  A flush of the document refreshes its base country; its  *)
(* outcome then needs the view and, last, the job's key.                   *)
Refreshing == {"enlist", "chunk", "activate", "reject", "abort", "refresh"}
Concluding == {"activating", "rejecting", "aborting"}
DbLabel == {"lookup", "dedupe", "create", "convert", "write", "commit",
            "commitReject"} \cup Refreshing \cup Concluding
Label == {"idle", "embed", "conflict", "error", "done"} \cup DbLabel
Reply == {"none", "ok", "gone", "rejected", "conflict", "error", "lost"}

InFlight(r) == pc[r] \notin {"idle", "done"}

-----------------------------------------------------------------------------
(* The unique indexes of the documents table.                              *)

(* Fault: the index is on (owner, scope, hash).                            *)
PerScopeContent(f, h, d, g) ==
  /\ Fields[f].owner # NoOwner /\ Fields[f].owner = Fields[d].owner
  /\ Fields[f].scope = Fields[d].scope
  /\ h = g
(* uq_documents_owner_content_hash_active: whatever the scope.             *)
SameOwnerContent(f, h, d, g) ==
  /\ Fields[f].owner # NoOwner /\ Fields[f].owner = Fields[d].owner
  /\ h = g

(* uq_documents_base_country_hash.                                         *)
SameCountryContent(f, h, d, g) ==
  /\ Fields[f].scope = "base" /\ Fields[d].scope = "base"
  /\ Fields[f].country = Fields[d].country
  /\ h = g

(* uq_documents_owner_canonical_name_active.                               *)
SameOwnerName(f, d) ==
  /\ Fields[f].owner # NoOwner /\ Fields[f].owner = Fields[d].owner
  /\ Fields[f].scope # "base" /\ Fields[d].scope # "base"
  /\ Fields[f].name = Fields[d].name

Clash(f, h, d, g) ==
  \/ SameOwnerContent(f, h, d, g)
  \/ SameCountryContent(f, h, d, g)
  \/ SameOwnerName(f, d)

(* Fault: a form posted again takes its failed row over.                   *)
RetryOverFailed(f, h) ==
  \E d \in Form :
    /\ Present(docs[d])
    /\ IF d = f THEN docs[d].status # "failed" ELSE Clash(f, h, d, docs[d].hash)
(* A committed row, or the primary key, refuses a document f of hash h.    *)
Refused(f, h) ==
  \E d \in Form :
    Present(docs[d]) /\ (d = f \/ Clash(f, h, d, docs[d].hash))

(* Fault: keys are checked against committed rows only.                    *)
NeverWaits(r, h) == FALSE

(* Another session has flushed a row such a document would clash with.     *)
Waits(r, h) ==
  \E q \in Call \ {r} :
    /\ Present(pdoc[q])
    /\ \/ form[q] = form[r]
       \/ Clash(form[r], h, form[q], pdoc[q].hash)

(* A status change, and every inserted chunk, refreshes the active_chunks  *)
(* materialized view, whose exclusive lock is then held until commit.      *)
ViewLocked(r) == \E q \in Call \ {r} : View \in locked[q]

(* Fault: the hooks do not ask for the scope of the document.              *)
AnyScope(r) ==
  {d \in Form : Present(docs[d]) /\ Fields[d].country = Fields[form[r]].country}
(* refresh_base_documents_by_country, which every flush of a base document *)
(* calls, deletes and inserts the row of each committed one of the country.*)
BaseRows(r) ==
  {d \in Form : /\ Fields[form[r]].scope = "base" /\ Fields[d].scope = "base"
                /\ Present(docs[d])
                /\ Fields[d].country = Fields[form[r]].country}

Refreshed(r) == BaseRows(r) \subseteq locked[r]
-----------------------------------------------------------------------------
Init ==
  /\ docs = [f \in Form |-> NoDoc]
  /\ chunks = [f \in Form |-> 0]
  /\ jobs = [f \in Form |-> NoJob]
  /\ expired = {}
  /\ form \in [Call -> Form]
  /\ content \in [Call -> Content]
  /\ pc = [r \in Call |-> "idle"]
  /\ pdoc = [r \in Call |-> NoDoc]
  /\ pjob = [r \in Call |-> NoJob]
  /\ locked = [r \in Call |-> {}]
  /\ written = [r \in Call |-> 0]
  /\ target = form
  /\ seen = [r \in Call |-> "absent"]
  /\ resp = [r \in Call |-> "none"]

Goto(r, l) == pc' = [pc EXCEPT ![r] = l]

Answer(r, a) ==
  /\ Goto(r, "done")
  /\ resp' = [resp EXCEPT ![r] = a]

(* Fault: the job row outlives its session.                                *)
KeepJob(r) ==
  /\ pdoc' = [pdoc EXCEPT ![r] = NoDoc]
  /\ locked' = [locked EXCEPT ![r] = {}]
  /\ UNCHANGED pjob
(* The session gives up what it has flushed, locks included.               *)
Discard(r) ==
  /\ pdoc' = [pdoc EXCEPT ![r] = NoDoc]
  /\ pjob' = [pjob EXCEPT ![r] = NoJob]
  /\ locked' = [locked EXCEPT ![r] = {}]

(* A statement takes one more lock, which no other session holds.          *)
Lock(r, l) ==
  /\ \A q \in Call \ {r} : l \notin locked[q]
  /\ locked' = [locked EXCEPT ![r] = @ \cup {l}]
  /\ UNCHANGED <<tables, expired, inputs, pc, pdoc, pjob, local, resp>>

(* Fault: a job recorded under a used ingestion_id replaces it.            *)
NeverTaken(r) == FALSE

(* _record_job: the row takes the form's ingestion_id as its primary key.  *)
JobTaken(r) == Present(jobs[form[r]])
JobWaits(r) == \E q \in Call \ {r} : form[q] = form[r] /\ Present(pjob[q])

RecordJob(r, job, next) ==
  /\ ~JobWaits(r)
  /\ IF JobTaken(r)
       THEN Goto(r, "conflict") /\ UNCHANGED pjob
       ELSE Goto(r, next) /\ pjob' = [pjob EXCEPT ![r] = job]
-----------------------------------------------------------------------------
(* The form arrives: its signature holds and it has, or has not, expired.  *)
CompleteUpload(r) ==
  /\ pc[r] = "idle"
  /\ \/ form[r] \in expired /\ Answer(r, "gone")
     \/ form[r] \notin expired /\ Goto(r, "lookup") /\ UNCHANGED resp
  /\ UNCHANGED <<tables, expired, inputs, pending, local>>

(* The rows _find_duplicate searches.  Among base documents owner_user_id  *)
(* IN (NULL, sentinel) is true of the sentinel only, for NULL equals       *)
(* nothing in SQL.                                                         *)
SearchedFrom(f, d) ==
  IF Fields[f].scope = "base"
    THEN /\ Fields[d].scope = "base"
         /\ Fields[d].owner = SystemOwner
         /\ Fields[d].country = Fields[f].country
    ELSE /\ Fields[d].scope = Fields[f].scope
         /\ Fields[d].owner = Fields[f].owner

(* Fault: the content hash is left out of the query.                       *)
AnyDocument(r) == {d \in Form : Present(docs[d]) /\ SearchedFrom(form[r], d)}
(* _find_duplicate: the rows its query matches; it takes one of them.      *)
Duplicates(r) ==
  {d \in Form : /\ Present(docs[d]) /\ docs[d].hash = content[r]
                /\ SearchedFrom(form[r], d)}

FindDuplicate(r) ==
  /\ pc[r] = "lookup"
  /\ \/ Duplicates(r) = {} /\ Goto(r, "create") /\ UNCHANGED <<target, seen>>
     \/ \E d \in Duplicates(r) :
          /\ target' = [target EXCEPT ![r] = d]
          /\ seen' = [seen EXCEPT ![r] = docs[d].status]
          /\ Goto(r, "dedupe")
  /\ UNCHANGED <<tables, expired, inputs, pending, written, resp>>

(* The duplicate, whatever its status, gets a succeeded job.               *)
RecordDeduped(r) ==
  /\ pc[r] = "dedupe"
  /\ RecordJob(r, Job("succeeded", target[r]), "commit")
  /\ UNCHANGED <<tables, expired, inputs, pdoc, locked, local, resp>>

(* Fault: the row is created active.                                       *)
BornActive(c) == Row(c, "active")

(* _create_document: IngestionError on unreadable metadata, else a flush.  *)
NewRow(c) == Row(c, "ingesting")

CreateDocument(r) ==
  LET f == form[r]
      c == content[r]
  IN
  /\ pc[r] = "create"
  /\ \/ f \in BadMetadata /\ Goto(r, "commitReject") /\ UNCHANGED <<pdoc, seen>>
     \/ /\ f \notin BadMetadata
        /\ Refused(f, c) /\ Goto(r, "conflict") /\ UNCHANGED <<pdoc, seen>>
     \/ /\ f \notin BadMetadata
        /\ ~Refused(f, c) /\ ~Waits(r, c)
        /\ pdoc' = [pdoc EXCEPT ![r] = NewRow(c)]
        /\ seen' = [seen EXCEPT ![r] = "ingesting"]
        /\ Goto(r, "enlist")
  /\ UNCHANGED <<tables, expired, inputs, pjob, locked, written, target, resp>>

(* A refresh deletes the rows of its country one after the other, in no    *)
(* order that is promised, and waits at one that another session deleted.  *)
(* If that session commits, the insert that follows may clash with its row:*)
(* one of DbError's errors here, the subject of BaseDocuments.             *)
LockRow(r) ==
  /\ pc[r] \in Refreshing
  /\ \E d \in BaseRows(r) \ locked[r] : Lock(r, d)

(* The hook of the insert; a user's document has nothing to refresh.       *)
Enlist(r) ==
  /\ pc[r] = "enlist"
  /\ Refreshed(r)
  /\ Goto(r, "convert")
  /\ UNCHANGED <<tables, expired, inputs, pending, local, resp>>

(* MarkdownConverter.convert: IngestionError, or any other exception.      *)
Convert(r) ==
  /\ pc[r] = "convert"
  /\ \E l \in {"chunk", "reject", "abort"} : Goto(r, l)
  /\ UNCHANGED <<tables, expired, inputs, pending, local, resp>>

(* The flush of the chunk stage, MarkdownChunker.chunk, and the flush of   *)
(* the embed stage.                                                        *)
Chunk(r) ==
  /\ pc[r] = "chunk"
  /\ Refreshed(r)
  /\ Goto(r, IF ChunksOf[content[r]] = 0 THEN "reject" ELSE "embed")
  /\ UNCHANGED <<tables, expired, inputs, pending, local, resp>>

(* Voyage: ValueError or a wrong count is an IngestionError; a network     *)
(* error is not.                                                           *)
Embed(r) ==
  /\ pc[r] = "embed"
  /\ \E l \in {"write", "reject", "abort"} : Goto(r, l)
  /\ UNCHANGED <<tables, expired, inputs, pending, local, resp>>
-----------------------------------------------------------------------------
(* Fault: the transaction of a rejected document is not committed whole.   *)
DroppedOnReject(r) ==
  IF Present(pdoc[r]) /\ pc[r] # "commitReject"
    THEN [docs EXCEPT ![form[r]] = pdoc[r]] ELSE docs
(* What a commit makes of the documents: the first one of the loop adds the *)
(* row, still ingesting, and the last one makes it active or failed.       *)
CommittedDocs(r) ==
  IF Present(pdoc[r]) THEN [docs EXCEPT ![form[r]] = pdoc[r]] ELSE docs

Batch(r) ==
  LET rest == ChunksOf[content[r]] - written[r]
  IN IF rest < BatchSize THEN rest ELSE BatchSize

(* Fault: the remainder after the last full batch is not written.          *)
FullBatchesOnly(c, k) == k + BatchSize > ChunksOf[c]
(* The loop, and the remainder after it, are over.                         *)
AllWritten(c, k) == k = ChunksOf[c]

(* One commit of the loop: a full batch, or the remainder.  Its             *)
(* acknowledgement may be lost with the connection.                        *)
WriteBatch(r) ==
  LET k == written[r] + Batch(r)
      next == IF AllWritten(content[r], k) THEN "activate" ELSE "write"
  IN
  /\ pc[r] = "write"
  /\ ~ViewLocked(r)
  /\ docs' = CommittedDocs(r)
  /\ chunks' = [chunks EXCEPT ![form[r]] = @ + Batch(r)]
  /\ written' = [written EXCEPT ![r] = k]
  /\ pdoc' = [pdoc EXCEPT ![r] = NoDoc]
  /\ locked' = [locked EXCEPT ![r] = {}]
  /\ \E l \in {next, "error"} : Goto(r, l)
  /\ UNCHANGED <<jobs, expired, inputs, pjob, target, seen, resp>>

(* status = active: the flush updates the row, whose hook refreshes the    *)
(* base country, then the view; what it inserts, the job, comes last.      *)
Activate(r) ==
  /\ pc[r] = "activate"
  /\ Refreshed(r)
  /\ pdoc' = [pdoc EXCEPT ![r] = Row(content[r], "active")]
  /\ seen' = [seen EXCEPT ![r] = "active"]
  /\ Goto(r, "activating")
  /\ UNCHANGED <<tables, expired, inputs, pjob, locked, written, target, resp>>

(* _fail_document, the same with status = failed.  complete_upload commits *)
(* it after an IngestionError and rolls it back after any other exception. *)
FailDocument(r) ==
  /\ pc[r] \in {"reject", "abort"}
  /\ Refreshed(r)
  /\ pdoc' = [pdoc EXCEPT ![r] = Row(content[r], "failed")]
  /\ seen' = [seen EXCEPT ![r] = "failed"]
  /\ Goto(r, IF pc[r] = "reject" THEN "rejecting" ELSE "aborting")
  /\ UNCHANGED <<tables, expired, inputs, pjob, locked, written, target, resp>>

(* REFRESH MATERIALIZED VIEW active_chunks.                                *)
LockView(r) ==
  /\ pc[r] \in Concluding /\ View \notin locked[r]
  /\ Lock(r, View)

(* The job of the flush, which may wait for its key with the view locked.  *)
RecordOutcome(r) ==
  /\ pc[r] \in Concluding /\ View \in locked[r]
  /\ \/ /\ pc[r] = "activating"
        /\ RecordJob(r, Job("succeeded", form[r]),
                     IF SkipRefresh THEN "commit" ELSE "refresh")
     \/ /\ pc[r] # "activating"
        /\ RecordJob(r, Job("failed", form[r]),
                     IF pc[r] = "rejecting" THEN "commitReject" ELSE "error")
  /\ UNCHANGED <<tables, expired, inputs, pdoc, locked, local, resp>>

(* ingest_file refreshes the view, which is locked, and the base country   *)
(* once more.                                                              *)
RefreshAgain(r) ==
  /\ pc[r] = "refresh"
  /\ Refreshed(r)
  /\ Goto(r, "commit")
  /\ UNCHANGED <<tables, expired, inputs, pending, local, resp>>

(* The commit that ends the session, and the answer: 500 for what is        *)
(* committed, when the acknowledgement of the commit is lost.              *)
Commit(r) ==
  /\ pc[r] \in {"commit", "commitReject"}
  /\ docs' = CommittedDocs(r)
  /\ jobs' = IF Present(pjob[r]) THEN [jobs EXCEPT ![form[r]] = pjob[r]] ELSE jobs
  /\ Discard(r)
  /\ \E a \in {IF pc[r] = "commit" THEN "ok" ELSE "rejected", "error"} :
       Answer(r, a)
  /\ UNCHANGED <<chunks, expired, inputs, local>>

(* Fault: a conflict is tried again, from the look-up.                     *)
RetryConflict(r) ==
  /\ pc[r] \in {"conflict", "error"}
  /\ Discard(r)
  /\ IF pc[r] = "conflict" THEN Goto(r, "lookup") /\ UNCHANGED resp
                          ELSE Answer(r, pc[r])
  /\ UNCHANGED <<tables, expired, inputs, local>>
(* Any other exception: rollback and 500.                                  *)
Rollback(r) ==
  /\ pc[r] \in {"conflict", "error"}
  /\ Discard(r)
  /\ Answer(r, pc[r])
  /\ UNCHANGED <<tables, expired, inputs, local>>
-----------------------------------------------------------------------------
(* The environment.                                                        *)

(* A statement or a commit fails: the session is unusable until rollback,  *)
(* so that _fail_document fails as well.                                   *)
DbError(r) ==
  /\ pc[r] \in DbLabel
  /\ Goto(r, "error")
  /\ UNCHANGED <<tables, expired, inputs, pending, local, resp>>

(* The replica that serves r stops; the database rolls its session back.   *)
Crash(r) ==
  /\ InFlight(r)
  /\ Discard(r)
  /\ Answer(r, "lost")
  /\ UNCHANGED <<tables, expired, inputs, local>>

(* The waits of a statement of call r, each with the session it waits for. *)
WaitsFor(r, q) ==
  /\ q # r
  /\ \/ /\ pc[r] = "create" /\ form[r] \notin BadMetadata
        /\ ~Refused(form[r], content[r])
        /\ Present(pdoc[q])
        /\ form[q] = form[r] \/ Clash(form[r], content[r], form[q], pdoc[q].hash)
     \/ pc[r] \in Refreshing /\ (BaseRows(r) \ locked[r]) \cap locked[q] # {}
     \/ /\ pc[r] \in Concluding \cup {"write"}
        /\ View \notin locked[r] /\ View \in locked[q]
     \/ /\ pc[r] = "dedupe" \/ (pc[r] \in Concluding /\ View \in locked[r])
        /\ form[q] = form[r] /\ Present(pjob[q])

Deadlocked(r) == \E S \in SUBSET Call :
  /\ r \in S
  /\ \A q \in S : (\E p \in S : WaitsFor(q, p)) /\ (\E p \in S : WaitsFor(p, q))

(* PostgreSQL finds sessions that wait for one another in a circle and     *)
(* raises an error in one of them.                                         *)
BreakDeadlock(r) ==
  /\ Deadlocked(r)
  /\ Goto(r, "error")
  /\ UNCHANGED <<tables, expired, inputs, pending, local, resp>>

(* Time passes a form's expires_at, which only a call yet to come can see. *)
Expire(f) ==
  /\ f \notin expired
  /\ \E r \in Call : form[r] = f /\ pc[r] = "idle"
  /\ expired' = expired \cup {f}
  /\ UNCHANGED <<tables, inputs, pc, pending, local, resp>>

Handle(r) ==
  \/ FindDuplicate(r) \/ RecordDeduped(r) \/ CreateDocument(r) \/ Enlist(r)
  \/ Convert(r) \/ Chunk(r) \/ Embed(r) \/ WriteBatch(r) \/ Activate(r)
  \/ FailDocument(r) \/ RecordOutcome(r) \/ RefreshAgain(r)
  \/ LockRow(r) \/ LockView(r) \/ Commit(r) \/ Rollback(r)
  \/ BreakDeadlock(r)

Next ==
  \/ \E r \in Call : CompleteUpload(r) \/ Handle(r) \/ DbError(r) \/ Crash(r)
  \/ \E f \in Form : Expire(f)

Spec == Init /\ [][Next]_vars

(* The event loop resumes every handler, and the database the statement it *)
(* waits for, or aborts it in a deadlock; nobody has to post a form, and   *)
(* nothing else has to fail.                                               *)
Fairness == \A r \in Call : WF_vars(Handle(r))
FairSpec == Spec /\ Fairness
-----------------------------------------------------------------------------
(* Rows and variables keep their types.                                    *)
TypeOK ==
  /\ docs \in [Form -> DocRow \cup {NoDoc}]
  /\ chunks \in [Form -> Nat]
  /\ jobs \in [Form -> JobRow \cup {NoJob}]
  /\ expired \subseteq Form
  /\ form \in [Call -> Form]
  /\ content \in [Call -> Content]
  /\ pc \in [Call -> Label]
  /\ pdoc \in [Call -> DocRow \cup {NoDoc}]
  /\ pjob \in [Call -> JobRow \cup {NoJob}]
  /\ locked \in [Call -> SUBSET (Form \cup {View})]
  /\ written \in [Call -> Nat]
  /\ target \in [Call -> Form]
  /\ seen \in [Call -> {"absent", "ingesting", "active", "failed"}]
  /\ resp \in [Call -> Reply]

(* A document retrieval may search has every chunk of its file, although   *)
(* the chunks were committed in batches by a call that may have died; a    *)
(* failed document has none.                                               *)
ActiveDocumentsComplete ==
  \A f \in Form :
    /\ docs[f].status = "active" => chunks[f] = ChunksOf[docs[f].hash]
    /\ docs[f].status \in {"absent", "failed"} => chunks[f] = 0

(* Documents are listed under their owner, or their base country.          *)
KeyOf == [f \in Form |-> IF Fields[f].scope = "base"
                           THEN <<"country", Fields[f].country>>
                           ELSE <<"owner", Fields[f].owner>>]

(* Concurrent uploads of one file never leave two documents of it under    *)
(* one owner or base country, although the lookup and the insert are       *)
(* separate statements.                                                    *)
UniqueContent ==
  \A d, e \in Form :
    d # e /\ KeyOf[d] = KeyOf[e] /\ Present(docs[d]) /\ Present(docs[e])
      => docs[d].hash # docs[e].hash

(* An active document and its succeeded job appear together, and so do a   *)
(* failed one and its failed job: no crash or error separates them.        *)
OutcomeHasItsJob ==
  \A f \in Form :
    /\ docs[f].status = "active" => jobs[f] = Job("succeeded", f)
    /\ docs[f].status = "failed" <=> jobs[f] = Job("failed", f)

(* A 400 answer for a document the pipeline rejected is on record: the     *)
(* document is failed and so is the job.                                   *)
RejectionIsRecorded ==
  \A r \in Call :
    resp[r] = "rejected" /\ form[r] \notin BadMetadata =>
      /\ docs[form[r]] = Row(content[r], "failed")
      /\ jobs[form[r]] = Job("failed", form[r])

(* "Ingestion completed" is said of a document that is there, complete,    *)
(* with the content that was posted.                                       *)
CompletedMeansSearchable ==
  \A r \in Call :
    resp[r] = "ok" /\ seen[r] = "active" =>
      /\ docs[target[r]] = Row(content[r], "active")
      /\ chunks[target[r]] = ChunksOf[content[r]]

(* A client is told the truth: what it was answered outlasts the calls that*)
(* overlap it.                                                             *)
AnswersTrue == RejectionIsRecorded /\ CompletedMeansSearchable

(* Active and failed documents, their chunks and their jobs never change:  *)
(* a replayed form cannot touch what an earlier call finished.             *)
FinishedDocumentsFrozen ==
  [][\A f \in Form : docs[f].status \in {"active", "failed"} =>
       /\ docs'[f] = docs[f]
       /\ chunks'[f] = chunks[f]
       /\ jobs'[f] = jobs[f]]_vars

(* Every call that reached the handler is answered, whatever keys, rows and*)
(* view locks the other calls hold on its way, deadlocks included.         *)
EveryCallAnswered ==
  \A r \in Call : InFlight(r) ~> pc[r] = "done"

(* What retrieval finds of each document.                                  *)
Shown ==
  [f \in Form |->
     IF docs[f].status = "active"
       THEN [published |-> TRUE, hash |-> docs[f].hash, chunks |-> chunks[f]]
       ELSE [published |-> FALSE]]

Catalog == INSTANCE DocumentCatalog WITH Doc <- Form, catalog <- Shown

(* The pipeline implements the catalog retrieval relies on: a document     *)
(* appears in one step, whole, once.                                       *)
PublishesAtomically == Catalog!Spec
-----------------------------------------------------------------------------
(* The inductive invariant: what a handler knows at each label, who owns a *)
(* document, and that no two rows, committed or flushed, clash.            *)

(* Labels between the flush of the document row and its first commit.      *)
Fresh == {"enlist", "convert", "chunk", "embed", "reject", "abort"}

(* The call is the one that writes its form's document.                    *)
Writes(r) ==
  Present(pdoc[r]) \/ pc[r] \in Fresh \cup {"write", "activate"}

(* The document a deduplicated call will answer with.                      *)
Found(r) ==
  /\ docs[target[r]] \in DocRow
  /\ docs[target[r]].hash = content[r]
  /\ seen[r] = "active" => docs[target[r]].status = "active"

WriteInv(r) ==
  /\ written[r] = chunks[form[r]]
  /\ written[r] < ChunksOf[content[r]]
  /\ IF written[r] = 0
       THEN /\ pdoc[r] = Row(content[r], "ingesting")
            /\ docs[form[r]] = NoDoc
       ELSE /\ pdoc[r] = NoDoc
            /\ docs[form[r]] = Row(content[r], "ingesting")

ActivateInv(r) ==
  /\ docs[form[r]] = Row(content[r], "ingesting")
  /\ chunks[form[r]] = ChunksOf[content[r]]

(* The document is active in the transaction of the call that wrote it.    *)
ActivatedInv(r) ==
  /\ pdoc[r] = Row(content[r], "active")
  /\ target[r] = form[r]
  /\ ActivateInv(r)

(* It is failed there, and in no other.                                    *)
FailedInv(r) ==
  /\ pdoc[r] = Row(content[r], "failed")
  /\ docs[form[r]] = NoDoc

CommitInv(r) ==
  \/ /\ pdoc[r] = NoDoc
     /\ pjob[r] = Job("succeeded", target[r])
     /\ Found(r)
  \/ ActivatedInv(r) /\ pjob[r] = Job("succeeded", form[r])

CommitRejectInv(r) ==
  \/ /\ pdoc[r] = NoDoc
     /\ pjob[r] = NoJob
     /\ form[r] \in BadMetadata
  \/ FailedInv(r) /\ pjob[r] = Job("failed", form[r])

PhaseInv(r) ==
  /\ pc[r] \in {"idle", "lookup", "dedupe", "create", "activate", "done"} =>
       pdoc[r] = NoDoc
  /\ pc[r] \notin {"refresh", "commit", "commitReject", "conflict", "error"} =>
       pjob[r] = NoJob
  /\ pc[r] \in {"idle", "lookup", "dedupe", "create"} \cup Fresh =>
       written[r] = 0
  /\ pc[r] \in {"idle", "lookup", "create", "write", "activate"} \cup Fresh =>
       target[r] = form[r]
  /\ pc[r] # "done" => resp[r] = "none"
  /\ pc[r] = "dedupe" => Found(r)
  /\ pc[r] \in Fresh => /\ pdoc[r] = Row(content[r], "ingesting")
                        /\ docs[form[r]] = NoDoc
  /\ pc[r] = "embed" => ChunksOf[content[r]] # 0
  /\ pc[r] = "write" => WriteInv(r)
  /\ pc[r] = "activate" => ActivateInv(r)
  /\ pc[r] \in {"activating", "refresh"} => ActivatedInv(r)
  /\ pc[r] \in {"rejecting", "aborting"} => FailedInv(r)
  /\ pc[r] = "refresh" => pjob[r] = Job("succeeded", form[r])
  /\ pc[r] = "commit" => CommitInv(r)
  /\ pc[r] = "commitReject" => CommitRejectInv(r)
  /\ Present(pdoc[r]) =>
       /\ pdoc[r].hash = content[r]
       /\ docs[form[r]] \in {NoDoc, Row(content[r], "ingesting")}
  /\ Present(pjob[r]) => jobs[form[r]] = NoJob

(* Two calls never write one document, nor record one job, at a time: a    *)
(* replayed form cannot interleave its chunks with the first call's.       *)
OneWriter ==
  \A q, r \in Call : q # r /\ form[q] = form[r] =>
    /\ ~(Writes(q) /\ Writes(r))
    /\ ~(Present(pjob[q]) /\ Present(pjob[r]))

NoClash ==
  /\ \A d, e \in Form :
       d # e /\ Present(docs[d]) /\ Present(docs[e]) =>
         ~Clash(d, docs[d].hash, e, docs[e].hash)
  /\ \A r \in Call, d \in Form :
       Present(pdoc[r]) /\ d # form[r] /\ Present(docs[d]) =>
         ~Clash(form[r], content[r], d, docs[d].hash)
  /\ \A q, r \in Call :
       q # r /\ Present(pdoc[q]) /\ Present(pdoc[r]) =>
         ~Clash(form[q], content[q], form[r], content[r])

IInv ==
  /\ TypeOK
  /\ \A r \in Call : PhaseInv(r)
  /\ OneWriter
  /\ NoClash
  /\ ActiveDocumentsComplete
  /\ OutcomeHasItsJob
  /\ RejectionIsRecorded
  /\ CompletedMeansSearchable
-----------------------------------------------------------------------------
(* Why every call is answered: whom a deadlock can meet, and how few the   *)
(* steps are.                                                              *)

(* A user's upload is never caught in a deadlock: sessions lock the rows of*)
(* a base country in different orders, and hold the view's lock while they *)
(* wait for rows and for job keys, yet only uploads of base documents can  *)
(* close a circle.                                                         *)
OnlyBaseUploadsDeadlock ==
  \A r \in Call : Deadlocked(r) => Fields[form[r]].scope = "base"

(* The labels at which nothing is left to wait for.                        *)
Ending == {"commit", "commitReject", "conflict", "error"}

(* What a call may have locked.                                            *)
LockInv(r) ==
  /\ pc[r] \in {"idle", "lookup", "dedupe", "create", "done"} => locked[r] = {}
  /\ View \in locked[r] => pc[r] \in Concluding \cup {"refresh"} \cup Ending
  /\ locked[r] \ {View} # {} => Fields[form[r]].scope = "base"

LInv == \A r \in Call : LockInv(r)

(* What is left to a call: labels ahead of it, and chunks to be written.   *)
Ahead ==
  [idle |-> 15, lookup |-> 14, dedupe |-> 13, create |-> 13, enlist |-> 12,
   convert |-> 11, chunk |-> 10, embed |-> 9, write |-> 8, activate |-> 7,
   reject |-> 7, abort |-> 7, activating |-> 5, rejecting |-> 5, aborting |-> 5,
   refresh |-> 4, commit |-> 2, commitReject |-> 2, conflict |-> 1, error |-> 1,
   done |-> 0]

(* The labels from which a call may still write chunks.                    *)
MayWrite == {"idle", "lookup", "dedupe", "create", "enlist", "convert", "chunk",
             "embed", "write"}

Left(r) ==
  Ahead[pc[r]]
    + (IF pc[r] \in MayWrite THEN ChunksOf[content[r]] - written[r] ELSE 0)

(* No call goes back, tries again or loops: whatever happens, each one is  *)
(* nearer to its answer, has one more lock, or is as it was.               *)
CallsAdvance ==
  [][\A r \in Call :
       \/ Left(r)' \in Nat /\ Left(r)' < Left(r)
       \/ /\ locked[r] \subseteq locked'[r]
          /\ UNCHANGED <<pc[r], pdoc[r], pjob[r], written[r], target[r], seen[r],
                         resp[r]>>]_vars

-----------------------------------------------------------------------------
(* What the documents say and the code does not do.                        *)

(* docs/data/schema_and_persistence.md: a duplicate that is not active     *)
(* resumes the pipeline.  A succeeded job then stands for an active        *)
(* document.                                                               *)
SucceededJobMeansActive ==
  \A f \in Form :
    jobs[f].status = "succeeded" => docs[jobs[f].doc].status = "active"
=============================================================================
