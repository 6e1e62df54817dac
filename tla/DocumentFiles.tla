--------------------------- MODULE DocumentFiles ---------------------------
(***************************************************************************)
(* The PDF copies in S3, beside the pipeline: upload/complete stores the   *)
(* file before it is ingested, and is content when that fails; agent-api   *)
(* can store a file without ingesting it; downloads, by document id or by  *)
(* canonical name, and listings read rows first and copies, or rows again, *)
(* later.                                                                  *)
(*                                                                         *)
(* The pipeline is Ingestion, unchanged: a behaviour of this module is one *)
(* of Ingestion, with a bucket and a reader added.                         *)
(***************************************************************************)
EXTENDS Ingestion, FiniteSets

CONSTANTS
  Pdf,        (* forms with source_type pdf                                *)
  Loose,      (* what upload-s3 is given: the file of each fresh key       *)
  Asks,       (* what a client of agent-api may ask for                    *)
  RegionOf,   (* REGION_BY_COUNTRY_ALPHA3                                  *)
  PageSize,   (* page_size of a listing                                    *)
  NoCopy

VARIABLES
  bucket,     (* the object under each key of s3_housing_pdf_bucket        *)
  ask,        (* what the reader asked for                                 *)
  rows,       (* the documents its first statement found                   *)
  had,        (* those of them with a copy at that moment                  *)
  answer      (* what it was answered                                      *)

reader == <<ask, rows, had, answer>>
filesVars == <<vars, bucket, reader>>

(* Fault: the key is the name alone.                                       *)
KeyByName(f) == <<Fields[f].name>>
(* f"{document_id}/{document_name}": the form was signed for both, and the *)
(* name is the document's canonical_name.                                  *)
Key(f) == <<f, Fields[f].name>>

Keys == {Key(f) : f \in Form} \cup DOMAIN Loose

(* The identifiers of forms and of files that are only stored are fresh; a  *)
(* form that is signed for an upload through agent-api is one more.        *)
ASSUME FilesAssumption ==
  /\ Loose \in [DOMAIN Loose -> Content]
  /\ \A f \in Form : Key(f) \notin DOMAIN Loose
  /\ NoCopy \notin Content
  /\ \A a \in Asks : /\ a.by \in {"id", "name", "list", "countries", "upload"}
                     /\ a.by = "upload" => a.doc \notin Form
  /\ PageSize \in Nat \ {0}

(* Nobody has asked yet, or the handler is between its two reads.          *)
NoAsk == [by |-> "none"]
Pending == [is |-> "pending"]
Nothing(why) == [is |-> why]
Copy(d) == [is |-> "copy", doc |-> d, file |-> bucket[Key(d)]]
Page(shown) == [is |-> "page", shown |-> shown]
CountryPage(codes) == [is |-> "countries", codes |-> codes]

FilesInit ==
  /\ Init
  /\ bucket = [k \in Keys |-> NoCopy]
  /\ ask = NoAsk /\ rows = {} /\ had = {}
  /\ answer = Nothing("none")
-----------------------------------------------------------------------------
(* complete_upload stores what it is about to ingest, PDFs only.           *)
Stores(r) == form[r] \in Pdf /\ form[r] \notin expired

(* The copy is put in the same turn in which the handler accepts the form. *)
(* That the upload to S3 fails, or no bucket is configured, is swallowed.  *)
Upload(r) ==
  /\ CompleteUpload(r)
  /\ \/ UNCHANGED bucket
     \/ Stores(r) /\ bucket' = [bucket EXCEPT ![Key(form[r])] = content[r]]
  /\ UNCHANGED reader

(* POST upload-s3 of agent-api: a fresh key, and no document.              *)
UploadOnly(k) ==
  /\ bucket[k] = NoCopy
  /\ bucket' = [bucket EXCEPT ![k] = Loose[k]]
  /\ UNCHANGED <<vars, reader>>

(* All the pipeline does after it has stored the file.                     *)
Pipeline ==
  /\ \/ \E r \in Call : Handle(r) \/ DbError(r) \/ Crash(r)
     \/ \E f \in Form : Expire(f)
  /\ UNCHANGED <<bucket, reader>>
-----------------------------------------------------------------------------
(* _expand_country_codes: a country is listed with its region and the      *)
(* whole world, a region by itself with the whole world.                   *)
Expanded(c) ==
  {c, "GLO"} \cup (IF c \in DOMAIN RegionOf THEN {RegionOf[c]} ELSE {})

(* The codes of ds that are countries: a region or the world is not one.   *)
Countries(ds) ==
  {Fields[d].country : d \in ds}
    \ ({"GLO"} \cup {RegionOf[c] : c \in DOMAIN RegionOf})

(* The rows each request selects, whatever their status.                   *)
Selected(a) ==
  {d \in Form :
     /\ Present(docs[d])
     /\ CASE a.by = "id" -> d = a.doc
          [] a.by = "name" -> Fields[d].name = a.name
          [] a.by = "countries" -> Fields[d].scope = a.scope
          [] a.by = "list" -> /\ Fields[d].owner = a.user
                              /\ Fields[d].country \in Expanded(a.country)}

(* A document is downloaded by id by its owner, a base one by anybody.     *)
MayRead(user, d) == Fields[d].scope = "base" \/ Fields[d].owner = user

(* A download reads its rows; a listing counts them; the countries of a    *)
(* scope are read at once.                                                 *)
LookUp(a) ==
  /\ ask = NoAsk /\ a.by # "upload"
  /\ ask' = a
  /\ rows' = Selected(a)
  /\ had' = {d \in rows' : bucket[Key(d)] # NoCopy}
  /\ answer' =
       CASE a.by = "countries" -> CountryPage(Countries(rows'))
         [] a.by \in {"id", "name"} /\ rows' = {} -> Nothing("no document")
         [] a.by = "id" /\ \E d \in rows' : ~MayRead(a.user, d) ->
              Nothing("forbidden")
         [] OTHER -> Pending
  /\ UNCHANGED <<vars, bucket>>

(* The documents whose copy download_pdf_from_s3 would return.             *)
Readable(ds) == {d \in ds : bucket[Key(d)] # NoCopy}

(* The turn in which a download goes through its documents, in no order,   *)
(* to the first copy.  S3 may fail on the way.  By id the answer tells; by *)
(* name a document whose download raises RuntimeError, as it does on every *)
(* error S3 reports, is skipped, and when none is left the answer is the   *)
(* one of a copy that is not there.                                        *)
Fetch ==
  /\ answer = Pending /\ ask.by \in {"id", "name"}
  /\ \/ \E d \in Readable(rows) : answer' = Copy(d)
     \/ /\ Readable(rows) = {} \/ ask.by = "name"
        /\ answer' = Nothing("no copy")
     \/ answer' = Nothing("S3 failed")
  /\ UNCHANGED <<vars, bucket, ask, rows, had>>

(* Fault: the page shows active documents, the count has them all.         *)
ActiveRows == {d \in Selected(ask) : docs[d].status = "active"}
(* The second statement of a listing selects its rows again.               *)
ListedRows == Selected(ask)

(* The newest page_size of them; which those are is left open.             *)
List ==
  /\ answer = Pending /\ ask.by = "list"
  /\ \E shown \in SUBSET ListedRows :
       /\ \/ Cardinality(shown) = PageSize
          \/ Cardinality(shown) < PageSize /\ shown = ListedRows
       /\ answer' = Page(shown)
  /\ UNCHANGED <<vars, bucket, ask, rows, had>>

(* POST upload of agent-api: the ingestion service signs a form, and       *)
(* register_upload records the upload before the client is given it, in a  *)
(* row that refers to a document there cannot be yet.                      *)
RelayUpload(a) ==
  /\ ask = NoAsk /\ a.by = "upload"
  /\ ask' = a
  /\ answer' = Nothing("not recorded")
  /\ UNCHANGED <<vars, bucket, rows, had>>

(* agent-api relays an upload, and a download by id.  A time-out, a        *)
(* connection that breaks or an answer of 500 and more takes the place of  *)
(* the answer.                                                             *)
RelayFails ==
  /\ ask.by \in {"id", "upload"}
  /\ answer' = Nothing("unavailable")
  /\ UNCHANGED <<vars, bucket, ask, rows, had>>

FilesNext ==
  \/ \E r \in Call : Upload(r)
  \/ \E k \in DOMAIN Loose : UploadOnly(k)
  \/ Pipeline
  \/ \E a \in Asks : LookUp(a) \/ RelayUpload(a)
  \/ Fetch \/ List \/ RelayFails

FilesSpec == FilesInit /\ [][FilesNext]_filesVars
-----------------------------------------------------------------------------
Posted(r) == pc[r] # "idle" /\ resp[r] # "gone"

(* The bucket holds files under the keys of forms and loose files, and what *)
(* a reader is answered has its type.                                      *)
FilesTypeOK ==
  /\ bucket \in [Keys -> Content \cup {NoCopy}]
  /\ ask \in Asks \cup {NoAsk}
  /\ had \subseteq rows /\ rows \subseteq Form
  /\ answer \in [is : {"none", "pending", "no document", "forbidden",
                      "no copy", "S3 failed", "not recorded", "unavailable"}]
        \cup [is : {"copy"}, doc : Form, file : Content]
        \cup [is : {"page"}, shown : SUBSET Form]
        \cup [is : {"countries"}, codes : SUBSET {Fields[f].country : f \in Form}]

(* The copy of a document, and what a download hands out for it, is the    *)
(* file its row was made of: the bucket is written before the row, by      *)
(* calls whose rows may be refused, yet only a form that was posted with   *)
(* two different files can make them differ.                               *)
CopiesMatchRows ==
  \A d \in Form, c \in Content :
    /\ Present(docs[d])
    /\ bucket[Key(d)] = c \/ answer = [is |-> "copy", doc |-> d, file |-> c]
    /\ c # docs[d].hash
    => \E q, r \in Call : /\ form[q] = d /\ form[r] = d
                          /\ Posted(q) /\ Posted(r)
                          /\ content[q] # content[r]

(* What was there when a client asked is found, although rows and copies   *)
(* are read at different moments: a download by id that finds no copy had  *)
(* none to find, a copy that is handed out is of a document that was asked *)
(* for, and a page that is not full leaves out no document of its owner.   *)
(* A download by name promises less: it may say so of a copy that is there.*)
ReadersMissNothing ==
  /\ answer.is = "no copy" /\ ask.by = "id" => had = {}
  /\ answer.is = "copy" => answer.doc \in rows
  /\ answer.is = "page" /\ Cardinality(answer.shown) < PageSize =>
       rows \subseteq answer.shown
=============================================================================
