---------------------------- MODULE BaseDocuments ----------------------------
(***************************************************************************)
(* The rows of documents that several programs write, and the table        *)
(* base_documents_by_country derived from them.  Uploads, the script that  *)
(* fills publication years in, and operators who rebuild the table run in  *)
(* transactions of the database (READ COMMITTED): every statement sees     *)
(* what is committed when it starts and its own writes, a row that another *)
(* transaction has written makes it wait, and a unique index is checked    *)
(* when a row is inserted.  Every flush of a base document deletes and     *)
(* inserts all rows of its country.                                        *)
(***************************************************************************)
EXTENDS Naturals, Sequences, FiniteSets

CONSTANTS
  Upload,      (* documents that are uploaded, each by a call              *)
  Old,         (* documents that are active from the start                 *)
  Scan,        (* runs of backfill_publication_year --apply                *)
  Rebuild,     (* refreshes of the whole table                             *)
  Base,        (* documents whose access_scope is base                     *)
  CountryOf,   (* country_code                                             *)
  Given,       (* publication_year in the metadata they come with, or None *)
  Names,       (* the numbers in a document's name and address             *)
  Texts,       (* the numbers in each of its first chunks                  *)
  LastYear,    (* MAX_PUBLICATION_YEAR                                     *)
  SkipRefresh, (* settings.skip_view_refresh                               *)
  None         (* SQL NULL, and "no such value"                            *)

Document == Upload \cup Old
Task == Upload \cup Scan \cup Rebuild
Form == {"int", "digits", "words"}
(* A year as metadata hold it: a number, a numeral, or words with numbers. *)
Raw == [form : Form, runs : Seq(Nat) \ {<< >>}]
Status == {"absent", "ingesting", "active", "failed"}
Row == [status : Status, year : Raw \cup {None}, reason : BOOLEAN]
(* The year of an upload is normalised.                                    *)
RowOf(d) == {r \in Row : d \in Upload /\ r.year # None => r.year.form = "int"}

ASSUME BaseAssumption ==
  /\ Base \subseteq Document /\ Upload \cap Old = {}
  /\ (Scan \cup Rebuild) \cap Document = {} /\ Scan \cap Rebuild = {}
  /\ Given \in [Document -> Raw \cup {None}]
  /\ Names \in [Document -> Seq(Nat)] /\ Texts \in [Document -> Seq(Seq(Nat))]
  /\ LastYear \in Nat /\ SkipRefresh \in BOOLEAN
  /\ None \notin Nat \cup Raw \cup Row \cup Document

VARIABLES
  docs,     (* rows of documents: status, year, reason of a failure        *)
  cache,    (* rows of base_documents_by_country: document and status      *)
  filled,   (* documents a committed scan has given their year             *)
  pc,       (* where a task is                                             *)
  step,     (* how far an upload is                                        *)
  own,      (* rows of documents a transaction has written                 *)
  put,      (* rows of the table it has inserted                           *)
  gone,     (* committed rows of the table it has deleted                  *)
  victims,  (* rows its DELETE has found and not yet deleted               *)
  rows,     (* rows its INSERT has selected and not yet inserted           *)
  left,     (* documents a scan has still to write                         *)
  read,     (* the documents as the scan's query found them                *)
  now       (* the document it is writing                                  *)

tables == <<docs, cache, filled>>
writes == <<own, put, gone>>
statement == <<victims, rows>>
scanning == <<left, read, now>>
vars == <<docs, cache, filled, pc, step, own, put, gone, victims, rows, left, read, now>>

Label == {"idle", "refresh", "delete", "insert", "work", "activate", "done"}
Entry(d, s) == [doc |-> d, status |-> s]
Absent == [status |-> "absent", year |-> None, reason |-> FALSE]
NotRead == [d \in Document |-> Absent]
Untouched == [d \in Document |-> None]
InFlight(t) == pc[t] \notin {"idle", "done"}
Goto(t, l) == pc' = [pc EXCEPT ![t] = l]
-----------------------------------------------------------------------------
(* Years.  YEAR_PATTERN looks for numbers of four digits, not for four     *)
(* digits of a longer number.                                              *)
YearLike == 1500..2199
ValidYear == 1500..LastYear

Found(s) == {i \in DOMAIN s : s[i] \in YearLike}
First(s) == s[CHOOSE i \in Found(s) : \A j \in Found(s) : i <= j]

(* coerce_publication_year.                                                *)
Coerce(raw) ==
  IF raw = None \/ (raw.form = "words" /\ Found(raw.runs) = {}) THEN None
  ELSE LET n == IF raw.form = "words" THEN First(raw.runs) ELSE raw.runs[1]
       IN  IF n \in ValidYear THEN n ELSE None

Int(n) == [form |-> "int", runs |-> <<n>>]
(* normalize_metadata_publication_year: what is no year is left out.       *)
Normal(raw) == IF Coerce(raw) = None THEN None ELSE Int(Coerce(raw))

(* extract_years_from_text, of the name and the address.                   *)
YearsInNames(d) == {Names[d][i] : i \in Found(Names[d])} \cap ValidYear

(* CHUNK_YEAR_SQL: of each chunk the first four digits that look like one, *)
(* be they part of a longer number.                                        *)
Windows(n) == [j \in 1..6 |-> (n \div 10 ^ (6 - j)) % 10000]
Inside(s) == {i \in DOMAIN s : Found(Windows(s[i])) # {}}
FirstInside(s) ==
  First(Windows(s[CHOOSE i \in Inside(s) : \A j \in Inside(s) : i <= j]))
YearsInChunks(d) ==
  {FirstInside(Texts[d][i]) : i \in {j \in DOMAIN Texts[d] : Inside(Texts[d][j]) # {}}}
    \cap ValidYear

(* _derive_publication_year.  A document that failed has no chunks.        *)
Candidates(d, s) ==
  IF YearsInNames(d) # {} THEN YearsInNames(d)
  ELSE IF s = "failed" THEN {} ELSE YearsInChunks(d)

(* _pick_year_from_sources: more than one is none.                         *)
PickYear(C) == IF \E n \in C : C = {n} THEN CHOOSE n \in C : C = {n} ELSE None

(* The year a scan gives a row: the one it has, or a derived one.          *)
Backfilled(d, row) ==
  LET year == IF Coerce(row.year) # None THEN Coerce(row.year)
              ELSE PickYear(Candidates(d, row.status))
  IN  IF year = None THEN row.year ELSE Int(year)
-----------------------------------------------------------------------------
(* What a transaction sees.                                                *)
Seen(t, d) == IF own[t][d] # None THEN own[t][d] ELSE docs[d]
RowLocked(t, d) == \E q \in Task \ {t} : own[q][d] # None

(* The documents whose countries' rows a refresh is about.                 *)
About(t) ==
  IF t \in Rebuild THEN Base
  ELSE LET d == IF t \in Upload THEN t ELSE now[t]
       IN  {e \in Base : CountryOf[e] = CountryOf[d]}

Faithful == {Entry(d, docs[d].status) : d \in {e \in Base : docs[e].status # "absent"}}

Init ==
  /\ docs = [d \in Document |-> IF d \in Old
                                THEN [Absent EXCEPT !.status = "active", !.year = Given[d]]
                                ELSE Absent]
  /\ cache = {Entry(d, "active") : d \in Base \cap Old}
  /\ filled = {}
  /\ pc = [t \in Task |-> "idle"]
  /\ step = [u \in Upload |-> 0]
  /\ own = [t \in Task |-> Untouched]
  /\ put = [t \in Task |-> {}]
  /\ gone = [t \in Task |-> {}]
  /\ victims = [t \in Task |-> {}]
  /\ rows = [t \in Task |-> {}]
  /\ left = [t \in Scan |-> {}]
  /\ read = [t \in Scan |-> NotRead]
  /\ now = [t \in Scan |-> None]
-----------------------------------------------------------------------------
(* A flush of document d, and the hook that follows it.                    *)
Flush(t, d, row) ==
  /\ own' = [own EXCEPT ![t][d] = row]
  /\ Goto(t, IF d \in Base THEN "refresh" ELSE "work")
  /\ UNCHANGED <<put, gone, statement>>

Close(t) ==
  /\ own' = [own EXCEPT ![t] = Untouched]
  /\ put' = [put EXCEPT ![t] = {}]
  /\ gone' = [gone EXCEPT ![t] = {}]
  /\ rows' = [rows EXCEPT ![t] = {}]

Forget(t) ==
  /\ left' = [q \in Scan |-> IF q = t THEN {} ELSE left[q]]
  /\ read' = [q \in Scan |-> IF q = t THEN NotRead ELSE read[q]]
  /\ now' = [q \in Scan |-> IF q = t THEN None ELSE now[q]]

(* A row that is gone when a waiting DELETE comes to it is passed over.    *)
Commit(t, l) ==
  /\ docs' = [d \in Document |-> Seen(t, d)]
  /\ cache' = (cache \ gone[t]) \cup put[t]
  /\ filled' = IF t \in Scan THEN filled \cup {d \in Document : own[t][d] # None} ELSE filled
  /\ Close(t)
  /\ Forget(t)
  /\ victims' = [q \in Task |-> IF q = t THEN {} ELSE victims[q] \ gone[t]]
  /\ Goto(t, l)
  /\ UNCHANGED step

(* Any error, a deadlock's victim, the end of the process.                 *)
Abort(t) ==
  /\ Close(t)
  /\ Forget(t)
  /\ victims' = [victims EXCEPT ![t] = {}]
  /\ Goto(t, "done")
  /\ UNCHANGED <<tables, step>>
-----------------------------------------------------------------------------
(* refresh_base_documents_by_country.  DELETE: the rows it finds, one by   *)
(* one, its own among them.                                                *)
FindVictims(t) ==
  /\ pc[t] = "refresh"
  /\ victims' = [victims EXCEPT ![t] = {r \in cache \ gone[t] : r.doc \in About(t)}]
  /\ put' = [put EXCEPT ![t] = {r \in put[t] : r.doc \notin About(t)}]
  /\ Goto(t, "delete")
  /\ UNCHANGED <<tables, step, own, gone, rows, scanning>>

Delete(t) ==
  /\ pc[t] = "delete"
  /\ \E r \in victims[t] :
       /\ \A q \in Task \ {t} : r \notin gone[q]
       /\ victims' = [victims EXCEPT ![t] = @ \ {r}]
       /\ gone' = [gone EXCEPT ![t] = @ \cup {r}]
  /\ UNCHANGED <<tables, pc, step, own, put, rows, scanning>>

(* INSERT ... SELECT.                                                      *)
Select(t) ==
  /\ pc[t] = "delete" /\ victims[t] = {}
  /\ LET found == {e \in About(t) : Seen(t, e).status # "absent"}
     IN  /\ rows' = [rows EXCEPT ![t] = {Entry(d, Seen(t, d).status) : d \in found}]
         /\ Goto(t, IF found = {} THEN "work" ELSE "insert")
  /\ UNCHANGED <<tables, step, writes, victims, scanning>>

(* Another transaction has inserted or deleted a row of this document.     *)
KeyLocked(t, d) == \E q \in Task \ {t} : \E r \in put[q] \cup gone[q] : r.doc = d

(* Fault: the table has no unique constraint.                              *)
NoConstraint(t, d) == FALSE
(* uq_base_documents_by_country_document_id.                               *)
Duplicate(t, d) == \E r \in cache \ gone[t] : r.doc = d

Insert(t) ==
  /\ pc[t] = "insert"
  /\ \E r \in rows[t] :
       /\ ~KeyLocked(t, r.doc)
       /\ IF Duplicate(t, r.doc)
            THEN Abort(t)
            ELSE /\ put' = [put EXCEPT ![t] = @ \cup {r}]
                 /\ rows' = [rows EXCEPT ![t] = @ \ {r}]
                 /\ Goto(t, IF rows[t] = {r} THEN "work" ELSE "insert")
                 /\ UNCHANGED <<tables, step, own, gone, victims, scanning>>
-----------------------------------------------------------------------------
(* An upload's row as the session holds it in memory.                      *)
InMemory(u, s, failure) == [status |-> s, year |-> Normal(Given[u]), reason |-> failure]

(* _create_document; an upload whose year cannot be read is refused.       *)
CreateDocument(u) ==
  /\ pc[u] = "idle"
  /\ Given[u] # None => Coerce(Given[u]) # None
  /\ Flush(u, u, InMemory(u, "ingesting", FALSE))
  /\ UNCHANGED <<tables, step, scanning>>

(* _update_stage, to chunk and to embed.                                   *)
UpdateStage(u) ==
  /\ pc[u] = "work" /\ step[u] < 2
  /\ step' = [step EXCEPT ![u] = @ + 1]
  /\ Flush(u, u, own[u][u])
  /\ UNCHANGED <<tables, scanning>>

(* The first batch of chunks commits the document.  The others, and the    *)
(* lock on active_chunks, are in Ingestion.                                *)
CommitChunks(u) ==
  /\ pc[u] = "work" /\ step[u] = 2
  /\ Commit(u, "activate")

Activate(u) ==
  /\ pc[u] = "activate" /\ ~RowLocked(u, u)
  /\ step' = [step EXCEPT ![u] = 3]
  /\ Flush(u, u, [docs[u] EXCEPT !.status = "active"])
  /\ UNCHANGED <<tables, scanning>>

(* ingest_file refreshes the country once more.                            *)
RefreshAgain(u) ==
  /\ pc[u] = "work" /\ step[u] = 3 /\ ~SkipRefresh /\ u \in Base
  /\ step' = [step EXCEPT ![u] = 4]
  /\ Goto(u, "refresh")
  /\ UNCHANGED <<tables, writes, statement, scanning>>

(* Fault: every failure is committed.                                      *)
AnyFailure(u) == pc[u] \in {"work", "activate"} /\ ~RowLocked(u, u)
(* An IngestionError, whose handler commits, is raised before the chunks   *)
(* are written; the other errors are rolled back.                          *)
CommitsFailure(u) == pc[u] = "work" /\ step[u] <= 2

(* _fail_document writes status and metadata.                              *)
FailDocument(u) ==
  /\ CommitsFailure(u)
  /\ step' = [step EXCEPT ![u] = 5]
  /\ Flush(u, u, InMemory(u, "failed", TRUE))
  /\ UNCHANGED <<tables, scanning>>

Finish(u) ==
  /\ pc[u] = "work"
  /\ step[u] >= (IF SkipRefresh \/ u \notin Base THEN 3 ELSE 4)
  /\ Commit(u, "done")

Ingest(u) ==
  \/ CreateDocument(u) \/ UpdateStage(u) \/ CommitChunks(u) \/ Activate(u)
  \/ RefreshAgain(u) \/ FailDocument(u) \/ Finish(u)
-----------------------------------------------------------------------------
(* backfill_publication_years: one query, then a flush for every document  *)
(* whose year it changes; --limit stops it early.                          *)
StartScan(t) ==
  /\ pc[t] = "idle"
  /\ read' = [read EXCEPT ![t] = docs]
  /\ \E some \in SUBSET {d \in Document : docs[d].status # "absent"
                                          /\ Backfilled(d, docs[d]) # docs[d].year} :
       left' = [left EXCEPT ![t] = some]
  /\ Goto(t, "work")
  /\ UNCHANGED <<tables, step, writes, statement, now>>

(* The UPDATE writes the metadata the query found, with the new year.      *)
SetYear(t) ==
  /\ pc[t] = "work"
  /\ \E d \in left[t] :
       /\ ~RowLocked(t, d)
       /\ left' = [left EXCEPT ![t] = @ \ {d}]
       /\ now' = [now EXCEPT ![t] = d]
       /\ Flush(t, d, [docs[d] EXCEPT !.year = Backfilled(d, read[t][d]),
                                      !.reason = read[t][d].reason])
  /\ UNCHANGED <<tables, step, read>>

EndScan(t) ==
  /\ pc[t] = "work" /\ left[t] = {}
  /\ Commit(t, "done")

(* SELECT refresh_base_documents_by_country(NULL).                         *)
StartRebuild(t) ==
  /\ pc[t] = "idle"
  /\ Goto(t, "refresh")
  /\ UNCHANGED <<tables, step, writes, statement, scanning>>

EndRebuild(t) ==
  /\ pc[t] = "work"
  /\ Commit(t, "done")

Refresh(t) == FindVictims(t) \/ Delete(t) \/ Select(t) \/ Insert(t)
Fail(t) == InFlight(t) /\ Abort(t)

Next ==
  \/ \E u \in Upload : Ingest(u)
  \/ \E t \in Scan : StartScan(t) \/ SetYear(t) \/ EndScan(t)
  \/ \E t \in Rebuild : StartRebuild(t) \/ EndRebuild(t)
  \/ \E t \in Task : Refresh(t) \/ Fail(t)

Spec == Init /\ [][Next]_vars
-----------------------------------------------------------------------------
Entries == [doc : Base, status : Status \ {"absent"}]

TypeOK ==
  /\ docs \in [Document -> Row]
  /\ \A d \in Document : docs[d] \in RowOf(d)
  /\ cache \subseteq Entries
  /\ filled \subseteq Document
  /\ pc \in [Task -> Label]
  /\ step \in [Upload -> 0..5]
  /\ own \in [Task -> [Document -> Row \cup {None}]]
  /\ \A t \in Task, d \in Document : own[t][d] \in RowOf(d) \cup {None}
  /\ put \in [Task -> SUBSET Entries]
  /\ gone \in [Task -> SUBSET Entries]
  /\ victims \in [Task -> SUBSET Entries]
  /\ rows \in [Task -> SUBSET Entries]
  /\ left \in [Scan -> SUBSET Document]
  /\ read \in [Scan -> [Document -> Row]]
  /\ \A t \in Scan, d \in Document : read[t][d] \in RowOf(d)
  /\ now \in [Scan -> Document \cup {None}]

(* However refreshes overlap, wait for one another, fail or are undone,    *)
(* base_documents_by_country shows each base document once, with its       *)
(* status: refresh_base_documents_by_country and the hooks that call it.   *)
CacheFaithful == cache = Faithful

(* The year of a document that came with a readable one stays that year; a *)
(* year that is filled in is the only one the name shows, or else the      *)
(* text; once filled in it stays; and filling it in loses no failure's     *)
(* reason: backfill_publication_years next to the pipeline, which writes   *)
(* the same column.                                                        *)
YearsAreRight ==
  \A d \in Document : docs[d].status # "absent" =>
    LET year == Coerce(docs[d].year)
        given == Coerce(Given[d])
    IN  /\ given # None => year = given
        /\ given = None /\ year # None => Candidates(d, docs[d].status) = {year}
        /\ d \in filled => year # None /\ docs[d].year = Int(year)
        /\ docs[d].status = "failed" => docs[d].reason
-----------------------------------------------------------------------------
(* What the proofs add.  Where a task is tells what it has in hand; an     *)
(* upload owns its row from its creation until the first commit.           *)
PlaceInv == \A t \in Task :
  /\ pc[t] \in {"idle", "activate", "done"} =>
       own[t] = Untouched /\ put[t] = {} /\ gone[t] = {}
  /\ pc[t] # "delete" => victims[t] = {}
  /\ pc[t] # "insert" => rows[t] = {}
  /\ pc[t] = "activate" => t \in Upload
  /\ t \in Upload => \A d \in Document : own[t][d] # None => d = t
  /\ t \in Upload /\ pc[t] = "idle" => docs[t].status = "absent"
  /\ t \in Upload /\ pc[t] \notin {"idle", "activate", "done"} => own[t][t] # None
  /\ t \in Rebuild => own[t] = Untouched
  /\ t \in Scan => \A d \in left[t] : docs[d].status # "absent"

(* A row has one writer at a time, and others write only what is there.    *)
LockInv == \A t \in Task, d \in Document : own[t][d] # None =>
  /\ own[t][d].status # "absent"
  /\ t # d => docs[d].status # "absent" /\ own[t][d].status = docs[d].status
  /\ \A q \in Task : own[q][d] # None => q = t

HasRow(S, d) == \E r \in S : r.doc = d

(* Rows of the table: no two transactions delete the same, none inserts    *)
(* what is there or what another has inserted.                             *)
RowInv == \A t \in Task :
  /\ gone[t] \subseteq cache /\ victims[t] \subseteq cache
  /\ \A r \in victims[t] : r.doc \in About(t)
  /\ \A r \in put[t] : ~Duplicate(t, r.doc)
  /\ \A q \in Task \ {t} :
       /\ gone[t] \cap gone[q] = {}
       /\ \A d \in Base : ~(HasRow(put[t], d) /\ HasRow(put[q], d))

Refreshing(t, d) == pc[t] \in {"refresh", "delete", "insert"} /\ d \in About(t)

(* What a transaction has inserted is what it sees, and has replaced all   *)
(* that it has deleted or written, but for the refresh under way.          *)
PutInv == \A t \in Task :
  /\ \A r \in put[t] :
       r.status = Seen(t, r.doc).status \/ (pc[t] = "refresh" /\ r.doc \in About(t))
  /\ \A d \in Base :
       ~Refreshing(t, d) /\ (HasRow(gone[t], d) \/ own[t][d] # None) => HasRow(put[t], d)

(* What it has selected is what it sees, or will not be inserted.          *)
SelectInv == \A t \in Task : pc[t] = "insert" =>
  /\ \A r \in rows[t] : r.status = Seen(t, r.doc).status \/ Duplicate(t, r.doc)
  /\ \A d \in About(t) :
       HasRow(gone[t], d) \/ own[t][d] # None => HasRow(put[t] \cup rows[t], d)

CacheInv ==
  /\ TypeOK /\ CacheFaithful
  /\ PlaceInv /\ LockInv /\ RowInv /\ PutInv /\ SelectInv

(* A row's year as YearsAreRight has it.                                   *)
GoodRow(d, row) ==
  LET year == Coerce(row.year)
      given == Coerce(Given[d])
  IN  /\ given # None => year = given
      /\ given = None /\ year # None => Candidates(d, row.status) = {year}
      /\ row.status = "failed" => row.reason

GoodYear(raw) == raw # None /\ Coerce(raw) # None /\ raw = Int(Coerce(raw))

(* What transactions have written and read.                                *)
VersionInv ==
  /\ \A d \in filled : docs[d].status # "absent"
  /\ \A t \in Task, d \in Document : own[t][d] # None =>
       /\ GoodRow(d, own[t][d])
       /\ d \in filled \/ t \in Scan => GoodYear(own[t][d].year)
  /\ \A t \in Scan : \A d \in left[t] :
       /\ Backfilled(d, read[t][d]) # read[t][d].year
       /\ GoodRow(d, read[t][d])
       /\ read[t][d].status = "failed" <=> docs[d].status = "failed"

(* A failure is committed with the upload's row, or not at all.            *)
UploadInv == \A u \in Upload :
  /\ Given[u] # None /\ Coerce(Given[u]) = None => pc[u] = "idle"
  /\ pc[u] = "idle" => step[u] = 0
  /\ pc[u] = "activate" => docs[u].status # "absent"
  /\ pc[u] \in {"refresh", "delete", "insert", "work"} =>
       /\ step[u] \in {3, 4} <=> docs[u].status # "absent"
       /\ step[u] \in {3, 4} => own[u][u].status = "active"
       /\ step[u] <= 2 => own[u][u].status # "failed"
  /\ pc[u] # "done" => docs[u].status # "failed"

YearInv == CacheInv /\ YearsAreRight /\ VersionInv /\ UploadInv
=============================================================================
