# Housing assistant: a TLA+ verification project

This directory holds TLA+ models of the services in `services/` and of the data
layer in `packages/shared_data_layer`, the TLC configurations that check them
on small instances, and TLAPS proofs of what matters most for every value of
the constants. `PROJECT.json` maps each definition to the lines it models.

## 1. Inventory

| Component | State it keeps | Operations | Hard behaviour | What makes it correct |
|---|---|---|---|---|
| Ingestion pipeline (`services/ingestion-service`, `pipeline.py`, `main.py`) | rows of `documents`, `chunks`, `ingestion_jobs`; an open transaction per call, with its locks | request form, complete upload (dedupe, create, convert, chunk, embed, write in batches, activate, fail) | overlapping calls, replayed forms, commits inside the handler, unique indexes and flush hooks that make sessions wait, fail or deadlock, lost acknowledgements, crashes | an active document is complete and unique; its job says so; answers are true; every call is answered |
| Document copies and listings (`ingestion_service/s3.py`, `agent_api/storage.py`, `http/routes/documents.py`) | one S3 object per document id and name | store beside the pipeline, store alone, download by id or name, list, relay an upload | two stores without a common transaction, reads in two statements, swallowed failures | copies match rows; what was there is found |
| Chat streaming (`streaming/sse_emitter.py`, `http/streaming.py`) | bounded queue, sequence id, closed flag, drop counter; runner task; generator | emit, close, iterate with heartbeats, disconnect | producer and consumer on one loop, back pressure, time-outs, cancellation | frames in order, losses counted, the terminal frame last, the stream ends |
| Report pre-generation (`services/job-service`) | `_is_running`, `_last_result`, scheduler entries | cron, start-up and manual runs; status | triggers racing the flag, failing log-ins, a client that times out while the server goes on | one run at a time, the counters describe it, a success stands for stored reports |
| Housing reports and S3 cache (`services/reports.py`, `report_cache.py`) | one object per country and month; a temporary conversation | generate, look up, upload | the month turns during a generation, concurrent uploads | a cached report is one generated for its month; it is written from the country's documents |
| Authentication (`services/auth-service`) and accounts (`services/user-service`) | users with status and reset token, refresh tokens | register, log in, refresh with rotation, log out, change and reset password, administer accounts | rotation in two transactions, concurrent refreshes, revocation and deletion racing both, several replicas | a password change ends all sessions, nothing else does unasked, none outlives its account |
| Request guard (`utils/request_guard.py`) | deque of times per scope and identity | allow, reset | the window's edges | never more than the limit within a window |
| Base document table (`db/events.py`, `db/maintenance.py`, initial migration) | `base_documents_by_country`, partitions per country; view `active_chunks` | refresh on every flush, rebuild | refreshes from concurrent snapshots, waiting deletes, unique violations | the table ends up equal to its query |
| Publication years (`scripts/backfill_publication_year.py`, `utils/publication_year.py`) | a key of `documents.metadata` | normalise, fill in | reads and writes apart, beside uploads that write the column | a year that was given stays, one that is filled in is the right one |
| Attachments (`repositories/documents.py`, `routes/attachments.py`, triggers) | link rows with soft deletion, `active_chat_refs`, garbage events | attach, detach, bulk attach; reports and preprocessing attach too | restored rows, concurrent attaches, row locks in any order | the count equals the live links, answers hold, every request ends |
| Conversations, messages (`services/conversations.py`, `agent/runner.py`, chat routes, `services/preprocessing.py`) | messages with ordinals and times | append, list by cursor, run a turn, warm the cache | ordinals read then inserted, flush without commit, equal timestamps, swallowed errors | a turn is stored whole or not at all; pages miss nothing |
| Chat response cache (`services/cache.py`) | response per country and question | look up, store, clear | two inserts of one key, a commit that commits more than its own | a cached answer is on record |
| Retrieval (`services/retrieval.py`, `retrieval_scope.py`, `clients.py`) | none | expand a question, search, fuse, merge, rerank, weight, cut | four cuts in four different orders, scores of two scales | nothing preferred is cut or ranked behind |
| Agent graph and tools (`agent/`) | a context variable per turn | model and tool calls | many turns between awaits; decided by the language model | an answer cites its own turn's documents |
| Data layer, other migrations and scripts, deployment | schema | - | - | - |

How they interact. A browser calls agent-api (chat, documents, attachments,
reports), ingestion-service (uploads), auth-service and user-service; the others
validate the tokens auth-service signs. All Python services share one PostgreSQL
database through `shared_data_layer`, whose session events and triggers refresh
derived tables inside the transaction that caused them. job-service logs in at
auth-service and calls agent-api's report route; agent-api and
ingestion-service write to S3. Voyage and the language model are external.

## 2. Modules

| Module | Models | Kind |
|---|---|---|
| `DocumentCatalog` | what retrieval may rely on: a document appears once, whole | abstract specification |
| `Ingestion` | the pipeline, one handler per call, the tables and their transactions | detailed specification |
| `DocumentFiles` | the copies in S3 and their readers, composed with `Ingestion` | composition |
| `EventStream` | what a chat client may rely on: ordered ids, losses, an end | abstract specification |
| `SseStream` | emitter, runner task, response generator, client | detailed specification |
| `ReportPregeneration` | the job's runs, agent-api's report route, the S3 keys, a calendar | detailed specification |
| `AccountSessions` | what an account's owner may rely on: sessions open once, end alone or together | abstract specification |
| `AuthSessions` | accounts, sessions, reset tokens, statement by statement | detailed specification |
| `Attachments` | what readers of links, counts and garbage events may rely on: they change together, within scope | abstract specification |
| `DocumentLinks` | links, counters and garbage events, with row locks | detailed specification |
| `Transcripts` | what readers of conversations and of the cache may rely on: whole turns, with their entry | abstract specification |
| `ChatTurns` | turns, the transcript, the response cache, paging | detailed specification |
| `BaseDocuments` | the table of base documents and the publication years | detailed specification |
| `Retrieval` | one call from its scope to its citations | algorithm in steps |
| `MC*` | instances for TLC | instances |
| `IngestionProofs`, `SseStreamProofs`, `ReportPregenerationProofs`, `AuthSessionsProofs`, `DocumentLinksProofs`, `ChatTurnsProofs`, `BaseDocumentsProofs`, `RetrievalProofs` | theorems about the module they are named after; those about `DocumentFiles` are in `IngestionProofs` | proofs |

`DocumentFiles` extends `Ingestion` without changing it, and the refinements
(`Ingestion` to `DocumentCatalog`, `SseStream` to `EventStream`, `ChatTurns` to
`Transcripts`, `AuthSessions` to `AccountSessions`, `DocumentLinks` to
`Attachments`) are checked and proved. The rest meet in the database only, through rows another module owns:
`DocumentLinks` takes a document's status as an input that may turn active
(`Activate`), `ChatTurns` what may be attached and active as a set that any turn
may find any part of, `BaseDocuments` has the pipeline's writes of a document's
row without its chunks.

Definitions commented "Fault" are not part of a specification. Each stands next
to the definition it is a broken form of, and shows what the property named
beside it in `PROJECT.json` would catch.

### Ingestion

A call `r` posts form `form[r]` and file `content[r]`. `pc[r]` is where its
handler is suspended or about to issue a statement; each action is what happens
up to the next one. `docs`, `chunks` and `jobs` are the committed tables; `pdoc`
and `pjob` the rows a session has flushed and not committed. A form stands for
both of its identifiers, `document_id` and `ingestion_id`, which are primary
keys. A content is identified with its hash.

* Unique keys are checked at flush. A committed clash is `Refused`: the handler
  goes to `conflict`. A clash with a row another session has flushed makes the
  flush wait (`Waits`, `JobWaits`), as PostgreSQL does.
* `_find_duplicate`, the insert, the batches and the activation are separate
  actions, so other calls and failures come between them. `WriteBatch` is one
  turn of the loop up to a commit, the remainder included, and the first one
  commits the document row with status `ingesting`.
* Conversion and embedding may succeed, raise `IngestionError` (`reject`, which
  the route commits) or anything else (`abort`, which the route rolls back).
* `DbError` may strike in any step that talks to the database; `Crash` ends a
  call anywhere and the database rolls its session back. A commit may also
  succeed whose acknowledgement is lost: the client is told 500 (`error`).
* Every flush of a base document refreshes the rows of its country in
  `base_documents_by_country`, and every change of status, and every inserted
  chunk, the view `active_chunks` (`db/events.py`). `locked` is what a session
  holds of the two until its transaction ends. A refresh deletes its rows one by
  one (`LockRow`), in an order that PostgreSQL does not promise, so two uploads
  of one country may hold rows the other one needs. `Enlist` is the hook of the
  first insert. A flush that ends an upload has four parts, with other sessions
  in between: the row and its country (`Activate`, `FailDocument`), the view
  (`LockView`), and last the job (`RecordOutcome`), which may have to wait for
  its key while the view is locked. `RefreshAgain` is the second refresh of
  `ingest_file`, without `skip_view_refresh`.
* `WaitsFor` names, for each statement that can block, the sessions whose locks
  it waits for, and `BreakDeadlock` is PostgreSQL's answer to a circle of them:
  an error in any one.

`BaseRows` are the rows of the committed base documents, which the table holds
by `CacheFaithful` of `BaseDocuments`. That a row which was waited for may have
been replaced, so that the insert after the delete fails, is one of `DbError`'s
errors here and modelled statement by statement there. The partition of a
country is taken to exist: creating it happens once and locks the whole table.

Not in the model: deletion of documents (no route of this service does it) and
publication-year parsing beyond "readable or not" (it is in `BaseDocuments`).

### DocumentFiles

`complete_upload` puts the PDF into S3 in the turn in which it accepts the form,
before anything is known of the database's answer, and swallows a failure.
`bucket` is the object under each key (a document id and a cleaned name), and a
step of the pipeline is one of `Ingestion`. One reader at a time (`ask`) reads
rows first (`rows`) and S3, or the rows again, in a later step; `had` records
which of its rows had a copy when it asked. A relayed upload
(`POST /v1/documents/upload`) registers a row of `uploaded_files` that refers to
its document before that document exists: see section 4.

A download by id tells an object that is not there (404) from an S3 that failed
(500). One by name does not: it passes over every document whose object it did
not get (`main.py:497`), and answers 404 if none is left. So `Fetch` may answer
"no copy" by name although there is one, and `ReadersMissNothing` does not
promise otherwise; with two copies of one name, any may be the one handed out.

How a name is cleaned for a key, the fallback that lists the bucket, and the
variation with `.pdf` are abstracted to "the copy under this document's key".

### SseStream

A frame is its SSE id, `None` the sentinel of `close()`. Everything runs on one
event loop, so an action is what happens between two suspensions: `emit` never
suspends, hence `Finish` (terminal frame, then `close` in `finally`) is one
action. The generator is `sending` (the transport has its chunk), `waiting` (in
`wait_for`), `cancelled`, `leaving` (awaiting the runner in `finally`) or
`ended`. `Timeout` may fire although an item is already queued: from Python
3.12 on, `wait_for` raises `TimeoutError` when its timer fires in the same loop
turn, before the generator is resumed. `Disconnect` in a wait cancels it,
which closes the emitter; between chunks it only finalises the generator.

### ReportPregeneration

A trigger is one call of `run()`: by the cron wrapper, by a POST's background
task or at start-up. `pc` is where it is suspended: before it starts, in a
log-in, waiting for a report, or in the delay between two. Its result
(`at`, `ok`, `failed`, `outcome`) stays with it; `_last_result` is that of the
latest one that ended. The actions of one call are what `run()` does between
two suspensions, and `Restart` kills every call and forgets what it counted,
but not what agent-api is doing for it.

* `request[r][c]` is agent-api's side of a request. `GiveUp` (the client's
  time-out, or a broken connection) ends the wait only: `Serve` may make and
  upload the report at any later time. Nothing obliges it to answer.
* The look-up and the generation are one step, because a look-up that fails
  counts as a miss: whatever it found, a generation may follow. The key is that
  of the month of the upload.
* `unsaved` holds the keys without an object whose report was not stored: an
  upload failed, or there is no `S3_HOUSING_PDF_BUCKET`, which is the case in
  which every one takes that branch of `Save`. It is there to
  say precisely what a swallowed failure costs.
* Countries before `start_from_country` are not requested, and reports of them
  touch no key a run uses, so `Country` is the others.
* How often a month has a cron time is left open, and a cron time may be missed
  by not taking `CronTime`: the model has more behaviours than the schedule.

`SkipCache = FALSE` allows every behaviour of `TRUE` (the default) and cache
hits besides, so the passing run uses it; the violation run uses the default.

### AuthSessions

auth-service runs as several replicas, and user-service writes the same tables,
so the statements of requests interleave although the handlers of one process
do not. A token is named by the request that makes it. `token` is the row a
log-in or refresh stored (live, revoked, or gone with its account), `account`
and `reset` are the columns of `users`; each request's handler is split where it
commits. `before[r]` is history: the sessions its account had when it arrived.

* Rotation is `Refresh` (verify), `RefreshOwner` (read the user), `Rotate`
  (revoke and commit) and `Mint` (insert and commit), and an error may end it
  after any of them: the client then has no session, which `NoSessionLost`
  explains by the token it presented.
* Whether a password is right is the request's choice. Whether a lifetime is
  over is decided when it is first looked at and stays so (`stale`, `lapsed`).
* An access token holds until it expires, whatever becomes of its session or
  account; `verify-token` and the middleware do not look at the account's
  status, and a suspended account keeps its sessions. The model has this as the
  code has it.
* A registration is refused for a known address, or for a user name that is the
  local part of a known one. The name is in the request and need not go with its
  address, so it may be refused as soon as there is any account.
* `revoke_all_user_tokens` raises what SQLAlchemy raises. For anything else it
  returns False, which the routes ignore; its update and commit raise nothing
  else, so `RevokeAll` has no such outcome.
* `delete_user` cascades to tokens; a foreign key stops `Mint` after it.
* `AccountSessions` sees of all this which accounts exist (suspended or not) and
  which sessions have been opened and not ended. A refresh is an end and, in a
  later step, an opening; everything else is one step or none.

Left out: edits of e-mail and role, profile fields, the texts of e-mails. No
service calls `verify_token_with_secret`, `AuthService.verify_access_token` or
`cleanup_expired_tokens`, nor the Flask decorators of `utils/decorators.py`.

### DocumentLinks

Each request is one transaction over the rows of `conversation_documents` and
the counters in `documents`. `seen` is the link as its `SELECT` found it, `pend`
and `newRefs` what it has written and keeps locked until it ends. An insert or
update of a link (`Write`) waits for another writer of the row, the trigger's
update of the counter (`CountLink`) for another writer of the document. A
deadlock's victim is chosen freely (`BreakDeadlock`). A bulk request, a report
and the preprocessing go through a list in an order of their own, and a report
holds its locks through its whole generation, then rolls back; the preprocessing
commits its links with the first answer it caches.

`Attachments` sees the three tables only: a commit changes links of one
conversation in one direction, and in that step the counts and reports that
follow from it. It also says that a base document is attached only to
conversations whose country's list would show it: the list and the check of the
scope are two pieces of code.

A document is reported to the garbage collector when its count falls to zero.
The triggers count a soft deletion, where
`docs/data/schema_and_persistence.md:174` says they ignore it until the row is
removed.

### ChatTurns

Each request has a session; `mine` is what it has flushed, `began` when its
transaction began, which is also the `created_at` of all it writes (times are
taken to be distinct between transactions). A turn looks the cache up, reads its
scope, flushes the question, lets the agent retrieve any number of times, and
flushes the answer; only `store_response` commits. So a turn without
`use_cache`, and every streamed one, leaves nothing in the database.

* The preprocessing asks its questions in one session and swallows the errors
  between them: a question that failed leaves its message flushed, to be
  committed with the next one that succeeds. `TurnsStandTogether` demands whole
  turns only of conversations that are not the preprocessing's own.
* A conflict in the cache costs a request its messages, and the preprocessing
  all its other questions: the session is not rolled back, so every later
  statement fails.
* `last` is the turn's `ToolRuntime`, in a context variable.
* A reader (`page`) pages by `created_at > cursor`. `PagesMissNothing` is stated
  for even limits, since pages then end between turns: with an odd limit a
  message of the same transaction is skipped
  (`docs/interfaces/api_contracts.md:165` says to follow the cursor until it is
  null).
* `Transcripts` sees the tables only. A commit is there one step that adds the
  messages of one turn, at a time nothing else has, with their conversation and
  the entry of that turn; in a conversation of the preprocessing it may add
  questions that went unanswered too.
* A chat that names no conversation makes one, has no document attached to it,
  and so ends with 400 always.

Left out: what a message says, LangGraph's memory (external), the routes that
list conversations or sum them up (they only read).

### BaseDocuments

Tasks are uploads, scans (`backfill_publication_year --apply`) and rebuilds
(`refresh_base_documents_by_country(NULL)`), each a transaction whose statements
see what is committed when they start and their own writes. `own` holds the rows
of `documents` it has written, `put` and `gone` the rows of the table it has
inserted and deleted. A refresh finds the rows to delete (`FindVictims`),
deletes them one by one, waiting for a row that another transaction has deleted
and passing over one that is gone, selects, and inserts row by row, waiting for
another transaction's key and failing on one that is there. Hence two refreshes
of a country that overlap end one of them in a unique violation, which is what
keeps the table faithful.

Years are numbers and so are the digits around them: `Coerce` and `Backfilled`
are `coerce_publication_year` and the choice of the script. `CHUNK_YEAR_SQL` has
no boundaries around the four digits while `YEAR_PATTERN` has, so a text with
120150 shows the year 2015 to the script; the instance has such a text. `filled`
is history: documents that a committed scan gave a year.

Left out: floats, booleans and leading zeros as years, a dry run (it writes
nothing), `ensure_base_documents_partition` (a refresh that fails is `Fail`),
the lock on `active_chunks` (in `Ingestion`), and `create_or_get_document`, which
only tests call. `MAX_PUBLICATION_YEAR` is fixed when the module is imported.

### Retrieval

`retrieve` reads its scope once and works on what it read, so this is an
algorithm in steps, and its variables are the intermediate lists: `words` and `near` the
two rankings of the query at hand, `best` the best fused score of each chunk
over the queries, `relevance` the reranker's. What is measured is any assignment
of scores, so what is checked holds for whatever the database, the embeddings
and the reranker return. `Returned` may answer with any of the sets that a limit
allows when scores tie.

* A chunk that the reranker scored 0, or left out, keeps its fused score
  (`score or chunk.score`), which is of another scale: it may outrank one the
  reranker scored low. `Preferred` therefore compares chunks it scored above 0.
* The cap per document equals `top_k`, so it never diversifies what is returned
  (`docs/agents/rag_blueprint.md:16`).
* A region given as the target has no countries, so their documents get no more
  weight than any other's.

## 3. Runs

| Run | Shows | Bounds and why they are enough |
|---|---|---|
| `MCIngestion` | the invariants, among them `OnlyBaseUploadsDeadlock`, and `FinishedDocumentsFrozen`, `CallsAdvance`, `EveryCallAnswered`, `PublishesAtomically` | two calls suffice for every pairwise race, and the forms cover one owner in two scopes, a shared name, unreadable metadata and two base documents of one country; the files have a full batch and a remainder (3 chunks, batches of 2), exactly one batch, and no text; the two base documents lock rows of one country beside one another, and can wait in a circle; 352,333 states |
| `IngestionDedupe` | `SucceededJobMeansActive` is violated (finding 1) | the same |
| `MCDocumentFiles` | `CopiesMatchRows`, `ReadersMissNothing` | two calls with three forms, of which two are PDFs with one name, and two files, so that one form can be posted with both; a loose copy; one reader who asks once, by id, by name, for a page, for the countries, or to relay an upload; batches and `MCIngestion`'s other cases are cut down because the composition multiplies them; 4,968,136 states |
| `SseStream` | the invariants, `StreamEnds`, `OrderedStream` | a queue of 3 and up to 7 frames: it overflows twice over, with and without the sentinel; 1,213 states |
| `SseTimeout` | `EndedMeansTerminal` is violated (finding 2) | the same |
| `ReportPregeneration` | the invariants, `RunEnds` | two calls race for the flag and overlap across a restart; two countries give a delay, a first and a last pass of the loop, and one more is skipped; two months let the month turn anywhere; 1,298,892 states |
| `ReportNextMonth` | `PregeneratedForNextMonth` is violated (finding 3) | the same, `SkipCache = TRUE` |
| `MCAuthSessions` | the invariants, `SessionsFollowAccounts` | a user and an administrator with a session each, two accounts that can be registered with one address, and three further requests of any kind: a refresh, a password change and a deletion of one account meet in every order; requests are interchangeable (symmetry); 492,427 states |
| `MCDocumentLinks` | the invariants, `EveryRequestAnswered`, `LinksAreTransactions` | three transactions, one more than a deadlock needs; two documents linked in both orders, one attached before and one still processing, one of the country and one of its region, and conversations of two countries; 234,615 states |
| `MCChatTurns` | the invariants, `TurnsAreTransactions` | three requests, chats and preprocessings over two questions: a conflict, a swallowed failure with a question after it, and a turn in the middle of another all occur; pages of two messages, the size of a turn, so that three turns make a second and a third page; requests are interchangeable together with their conversations (symmetry); 1,504,955 states |
| `MCBaseDocuments` | the invariants | two uploads of one country (with and without a year) race each other, a scan over four documents that show years in every way the script looks for, and a rebuild of the whole table; a text is at most the first batch of chunks; 1,946,477 states |
| `MCRetrieval` | `BestAreCited`, `BestMatchesKept` | five chunks, three of one document, scores of 0 and 1, and limits of 3 (rows of a ranking), 2 (chunks of a document, chunks of the context), so that each of these cuts something; `2 * top_k` never does with five chunks, and is a `Tops` like the others; five settings cover the profiles, hints and empty scopes; 469,185 states |

All systems stop when their calls, requests or tasks are used up, so deadlock
is not checked; `EveryCallAnswered`, `EveryRequestAnswered`, `StreamEnds` and
`RunEnds` say that they do not stop before that.

Types are checked where a plausible slip in the code would break them, and
proved for every module (`TypeCorrect` and its likes in section 5).

Fairness. `Ingestion!FairSpec` has weak fairness of each call's own handler:
the event loop resumes every runnable coroutine, and PostgreSQL grants a lock
that is free and ends a deadlock after `deadlock_timeout`. Nobody has to post a form; nothing has to fail.
`SseStream!FairSpec` has weak fairness of the runner (model and tool calls have
time-outs, and its number of frames is bounded) and of the generator (the
transport takes a chunk, or the client is gone). Clients need not leave.
`ReportPregeneration!FairSpec` has weak fairness of each call's steps (HTTP
clients and sleeps have time-outs). agent-api, S3 and the calendar owe nothing.
`DocumentLinks!Spec` has weak fairness of each request's handler together with
the database's detection of a deadlock it is in (`deadlock_timeout`); no request
has to be made, and nothing else has to fail. The other modules state safety
only: their handlers wait for nobody, or for the same locks as these.

## 4. Findings

1. `pipeline.py:284`. A duplicate is given a succeeded job whatever its status.
   The documented flow resumes a document that is not active
   (`docs/data/schema_and_persistence.md:487`). TLC's trace: a document fails,
   the same file is uploaded again, the answer carries a succeeded job of a
   failed document.
2. `sse_emitter.py:109`. A heartbeat time-out in the loop turn in which the
   runner emits its last frame and closes ends the stream with that frame still
   queued.
3. `report_cache.py:41`. A key holds the month of the upload, so what the run of
   the 25th makes serves the days left of that month; the job's README (line 7)
   says it is cached for the next one.

Read on the way. The models have this behaviour as the code has it, and no run
is about it:

* `pipeline.py:391`: the duplicate query filters by `access_scope`, the unique
  index does not contain it. An owner's own active file uploaded under another
  scope ends in an `IntegrityError` and a 500, where
  `docs/interfaces/api_contracts.md:64` promises deduplication.
* `job_service/main.py:154`: the trigger checks the flag, but its background
  task starts after the response ("Job triggered successfully", line 161); a
  call that starts in between makes `run()` return at once (`jobs.py:76`), with
  no trace in the last result.
* `documents.py:265` of agent-api: a relayed upload inserts into
  `uploaded_files`, whose `document_id` refers to a document that the upload is
  yet to make, so it always fails on the foreign key and answers 500; the unit
  tests replace the session. `RelayUpload` has it.
* `main.py:454` of ingestion-service: the docstring of the download by name says
  that it searches the caller's own documents; the code, and its comments at
  lines 465, 469 and 482, let every authenticated caller have any document of
  the name. `Selected` and `Fetch` follow the code.
* `documents.py:148`: a page and its count are two statements; a full page with
  `has_next` false may hide the oldest document when one was added in between.
* `docs/agents/implementation.md:19` and `docs/interfaces/api_contracts.md:140`
  say that messages are persisted; a turn without `use_cache`, and any streamed
  one, is never committed.
* `docs/agents/retrieval_config.md:19` and `architecture.md:22` of the same
  directory ask for a floor under rerank scores and for regeneration when facts
  carry no citation; neither is in the code. The numbers of citations start
  again with each retrieval while only the last retrieval's list is stored with
  the answer.
* `docs/data/schema_and_persistence.md:420` describes locks and checks for
  workflow steps; the tables have no writer in the services.
* `api_contracts.md:138` tells stream clients to rely on a 5xx status, but
  `streaming.py:77` copies the status before the runner has run.
* `scripts/generate_reports_all.sh` and `generate_reports_batch.sh` run under
  `set -e` and count with `((PROCESSED++))` from 0, whose status is 1: they stop
  before the first report.

## 5. Proofs

All theorems assume only the `ASSUME`s of the modules: for instance base
documents are the ones without owner, counts of chunks are naturals, the batch
size is positive (`IngestionAssumption`); the queue holds at least two items
(`StreamAssumption`); no two requests make the same temporary conversation, and
base documents have a country (`LinksAssumption`); a file that is
only stored has a key of its own (`FilesAssumption`: its id is fresh); a chat
names no conversation that another request would make, and the preprocessing
asks no question twice (`ChatAssumption`); rankings, results and contexts have
room for at least one chunk (`RetrievalAssumption`). TLC
evaluates each of them in the run of its module.

`IngestionProofs`. None of the safety invariants is inductive: that an active
document is complete depends on what the handler about to activate it knows.
`IInv` adds, per call, what holds at each label (`PhaseInv`: in `write`, the
chunks committed are `written[r]`, and the row is pending exactly before the
first commit), that two calls with one form never both own its document or job
(`OneWriter`), and that no two rows, committed or flushed, clash (`NoClash`).
One lemma per action shows that it keeps `IInv`; `Invariance` combines them,
and the other theorems follow: `TypeCorrect`, `Complete`, `SingleWriter`,
`OutcomeRecorded`, `AnswersHold`, `UniqueDocuments` (from `NoClash`), `Frozen`
(an action property) and `Refinement` (to `DocumentCatalog`: a document becomes
active only in `Commit`, which changes no other document and no chunks).

Liveness is out of the prover's reach, but what it rests on is not. Waits can
form circles. Two calls that add documents to one base country, whose rows are
committed, lock rows of the table in different orders; and the one that has the
view may need a row that the other has locked, which waits for the view.
PostgreSQL ends one of them with an error, a 500 and a document that stays
`ingesting`. `OnlyBaseInCircle` says that nobody else pays for it: with any
number of calls, no user's upload is ever in a circle. `LInv` says what a
session at each label has locked: nothing while it looks for a duplicate or
inserts its document, rows only for a base document, the view only from the last
flush on. So who waits at the first insert, or with the job of a duplicate,
holds nothing that another one waits for (`Holders`). A user's call in a circle
has no rows; somebody waits for it, so it has the view, and it waits for the key
of its job; but whoever has that key posted the same form, is a user's call too,
and has nothing left to wait for.

`Left` counts the labels ahead of a call and the chunks it has still to write.
Every step of a call takes one more lock, of finitely many, or decreases `Left`,
and leaves the other calls alone (`Advance`). A call that is never starved, and
whose deadlocks are broken, is therefore answered: `EveryCallAnswered` checks
that conclusion with fairness.

The second part of that module is about `DocumentFiles`. `Undisturbed` shows that a behaviour with copies and
readers is one of `Ingestion`, so `IInv` and all the theorems above hold of it.
`Sources` says that every copy, row and answer is of a file a call posted with
that form, and `ReaderInv` that what a reader relies on between its two reads
stays: copies are never removed, and rows of a listing stay in it; so a download
by id that found no copy had none to find. From them:
`FilesTypeCorrect`, `CopiesMatch`, `NothingMissed`.

`SseStreamProofs`. The account (`EveryFrameAccounted`) and the order of what is
queued (`NewestKept`) are followed through `Put`, `Tail` and `Append` by lemmas
on arbitrary sequences. The invariant adds that the sentinel is unique and absent
while the emitter is open, and `ConnectedInv`: while the client is there, a
running runner has an open emitter, and a finished one has a queue that ends
with the terminal frame and `None` - or just `None`, with the terminal frame
handed over. From it: `TypeCorrect`, `FramesAccounted`, `OldestLost`,
`TerminalArrives`, and `Refinement` to `EventStream`.

`ReportPregenerationProofs`. `OneRun` alone is nearly inductive and is what
makes the rest so: the busy call is the only one whose counters move
(`OthersKept`). The invariant adds to the checked ones that a call that has not
begun has sent nothing (`Unsent`), that while none has failed every country
answered for is a report (`AllReports`), and that each report has a key of a
month since its run began (`ReportsStored`), which keeps holding because keys
only grow (`StoredKept`). One lemma for each kind of step; `ServerKeeps` covers
all that agent-api, users and the calendar do. From it: `MutualExclusion`,
`CountersCorrect`, `SuccessDelivered`, `SuccessCached`.

`AuthSessionsProofs`. A step leaves alone what other requests remember
(`StepLocal`), and changes the stored sessions in one of four ways
(`TokenStep`): it stores one, spends one, ends all of an account, or deletes
them. `PlaceInv`, `StoredInv` and `MemoryInv` add what a handler's place says,
that a session is stored late in its request, and that a session a request
remembers was stored before, so no step can make it live again. From it:
`TypeCorrect`, `ChangeEnds`, `NothingLost`, `AccountsHold`, and `Refinement` to
`AccountSessions`: each of the four ways is one of its actions, and a step that
leaves the sessions alone creates an account or only suspends or reinstates one
(`AccountStep`).

`DocumentLinksProofs`. A transaction computes a counter long before it commits
it. `LockInv` (one writer per row) makes `CountInv` inductive: what it has
computed is what the committed tables will make of it. The count of a set that
gains or loses one element comes from `FiniteSetTheorems`. `ListedInv` and
`ReportInv` do the same for answers and for what a report covers. From them:
`TypeCorrect`, `RefsAreLinks`, `NoUnusedUnreported`, `AnswersAreKept`,
`CountryIsCovered`. `ScopeInv` adds that what a transaction links is within its
conversation's scope; with it, a commit is one step of `Attachments`
(`SaveIsWrite`, `Refinement`).

`BaseDocumentsProofs`. `CacheInv` follows a refresh through its statements: no
two transactions delete one row or insert one document (`RowInv`); what a
transaction has inserted is what it sees, and replaces all it deleted or wrote
(`PutInv`); what it has selected is what it sees or will not be inserted
(`SelectInv`) - the last is where the unique index is needed. `YearInv` adds
that every version of a row, committed, written or read, has a good year
(`VersionInv`), and where in its course an upload's failure can be committed
(`UploadInv`). From them: `BaseTypeCorrect`, `CacheStaysFaithful`,
`YearsStayRight`.

`ChatTurnsProofs`. The core is that the messages of a transaction share a time
that no other transaction has (`ClockInv`), though their ordinals may be those
of another's. So whatever is said of the messages of one time is true of a
transcript as soon as it is true of what each session has flushed (`Joined`):
that answers stand directly after their questions (`Stands`), that there is one
question and one answer (`Whole`), that no two have the same ordinal
(`Distinct`). `SessionInv` and `TurnInv` follow a session's flushed messages
through a turn, and through the preprocessing's further questions. For pages,
`SortedIs` shows that sorting by the number of messages before each one gives a
sequence with all of them, in order; that this number takes every value below
the cardinality is counted with `FS_Injection`. The times of a user's transcript
come in pairs, so a page of an even number of messages ends with an answer
(`PageEndsTurn`), and the cursor, its time, leaves no message of that time
behind. From them: `ChatTypeCorrect`, `TurnsStand`, `CachedOnRecord`,
`CitesInScope`, `PagesComplete`, and `ChatRefines` (to `Transcripts`: only
`StoreResponse` and the creation of a conversation change a table, and what it
commits is one turn).

`RetrievalProofs`. All that was found lies in the scope, and what is cited is a
ranking of it by the weighted scores (`RInv`). That the order of those scores
agrees with the reranker and the country where the two agree is arithmetic
(`PreferredIsHeavier`). What a query finds needs that a finite set of scores has
a greatest one. That is no induction here: strict inclusion is well founded on
the subsets of a finite set, so there is a least set that is closed upwards, and
it holds nothing but greatest scores (`GreatestExists`). A chunk that leads both
rankings is therefore scaled to all of `Scale` in each and every other one to
less (`PartIs`), so its fused score is above all others (`FusedIs`), and the
first of a set survives every cut that keeps anything (`LeaderIsKept`). From
them: `BestCited`, `BestKept`, `RetrievalTypeCorrect`.

Every invariant and every safety property that a passing run checks is a
theorem. Only model-checked:

* liveness (`EveryCallAnswered`, `StreamEnds`, `RunEnds`,
  `EveryRequestAnswered`), which needs ENABLED and is out of the prover's reach;
* the counterexamples.

## 6. Not modelled

* The request guard: it counts per process, and each check is one turn of the
  event loop. What is left is the window's arithmetic.
* What a report says, and the age of a cached one. A cached object is its key
  in `ReportPregeneration`, so the order in which two overlapping generations
  upload cannot be told apart; and a section that fails becomes a placeholder
  in a report that is cached like any other.
* Workflow, knowledge graph and retrieval-log tables: the repositories for them
  have no caller in the services.
* Read-only routes: lists of users and conversations, summaries, metrics.
* The language model's choices, LangGraph's memory and the sandboxed
  interpreter, which are external; chunking and embedding of a text, and the
  arithmetic of signatures and tokens, which are inputs or steps that may fail.
* agent-api's cache of the signing keys (`auth/validator.py`), which is filled in
  one turn of the event loop and lapses by time.
* Deployment, observability and the shell scripts for operators, which keep no
  state.

## 7. Plan

What a next step would add, in this order.

1. The safety half of liveness for `SseStream`, `ReportPregeneration` and
   `DocumentLinks` too, as for `Ingestion`: in `DocumentLinks` waits form
   circles of any requests, and the measure must show that breaking one frees
   the others.
2. `ReportPregeneration`: the age of a cached report, so that the order in which
   overlapping generations upload can be told.
3. `AuthSessions`: the expiry of rows as a clean-up, if the service gains a
   caller for it.
