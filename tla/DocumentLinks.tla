---------------------------- MODULE DocumentLinks ----------------------------
(***************************************************************************)
(* Documents attached to conversations.  Each request of agent-api is one  *)
(* database transaction (READ COMMITTED): the attachment handlers commit   *)
(* theirs, a report never does, the cache preprocessing commits with its   *)
(* first cached answer.  What a transaction has written is its own until   *)
(* it commits; a row it has written is locked until it ends.  Triggers     *)
(* count a document's live links in documents.active_chat_refs and report  *)
(* to document_gc_events when the count falls to zero.                     *)
(***************************************************************************)
EXTENDS Naturals, Sequences, FiniteSets

CONSTANTS
  Request,      (* requests, each with a transaction                       *)
  Conversation, (* conversations: those of users, and the temporary ones   *)
  OwnOf,        (* that a report or the preprocessing makes for itself     *)
  Document,     (* documents                                               *)
  Base,         (* those whose access_scope is base                        *)
  CodeOf,       (* country_code of documents and conversations, or None    *)
  RegionOf,     (* REGION_BY_COUNTRY_ALPHA3: the region of mapped countries*)
  Global,       (* the code GLO                                            *)
  Stored,       (* documents.status at the start                           *)
  Call,         (* what users ask for; a list's duplicates are dropped     *)
  OldLink,      (* conversation_documents at the start                     *)
  None          (* SQL NULL, and "no such value"                           *)

Kind == {"attach", "bulk", "detach", "report", "preprocess"}
Pair == Conversation \X Document
Temporary == {OwnOf[r] : r \in Request}

ASSUME LinksAssumption ==
  /\ OwnOf \in [Request -> Conversation] /\ Base \subseteq Document
  /\ \A q, r \in Request : OwnOf[q] = OwnOf[r] => q = r
  /\ Stored \in [Document -> {"absent", "processing", "active"}]
  /\ IsFiniteSet(Conversation) /\ IsFiniteSet(Document) /\ IsFiniteSet(Request)
  /\ Call \subseteq [kind : {"attach", "detach", "bulk"},
                     conv : Conversation \ Temporary, docs : Seq(Document) \ {<< >>}]
  /\ OldLink \in [Pair -> {"none", "live", "dead"}]
  /\ \A r \in Request, d \in Document : OldLink[<<OwnOf[r], d>>] = "none"
  /\ \A b \in Base : CodeOf[b] # None
  /\ \A r \in Request : CodeOf[OwnOf[r]] # None
  /\ None \notin {"live", "dead"} \cup Kind /\ None \notin Nat /\ None \notin Conversation

VARIABLES
  status,   (* documents.status, "absent" while there is no row            *)
  link,     (* conversation_documents: live, or dead by its deleted_at     *)
  refs,     (* documents.active_chat_refs                                  *)
  zeroed,   (* documents with an active_refs_zero event                    *)
  kind,     (* what a request is                                           *)
  conv,     (* its conversation                                            *)
  todo,     (* documents it has still to link                              *)
  listed,   (* documents it will answer are attached                       *)
  seen,     (* the link as its SELECT found it                             *)
  pend,     (* links it has written: a lock on their rows                  *)
  newRefs,  (* counts it has written: a lock on the documents' rows        *)
  pc,       (* where its handler is                                        *)
  resp      (* its answer                                                  *)

tables == <<link, refs, zeroed>>
request == <<kind, conv>>
writes == <<pend, newRefs>>
vars == <<status, link, refs, zeroed, kind, conv, todo, listed, seen,
          pend, newRefs, pc, resp>>

Label == {"idle", "read", "write", "count", "commit", "generate", "done"}
Reply == {"none", "ok", "refused", "error"}
State == {"none", "live", "dead"}

InFlight(r) == pc[r] \notin {"idle", "done"}
Answered(r, a) == pc[r] = "done" /\ resp[r] = a
Now(r) == Head(todo[r])                (* the document it is working on    *)
PairOf(r, d) == <<conv[r], d>>
LiveLinks(d) == {c \in Conversation : link[<<c, d>>] = "live"}
Nothing == [d \in Document |-> None]
-----------------------------------------------------------------------------
(* Codes: a country's documents are its own, its region's and the global.  *)
Region(code) == IF code \in DOMAIN RegionOf THEN RegionOf[code] ELSE None

(* Fault: the regions are left out.                                        *)
NoRegion(code, country) == code \in {country, Global}
(* _validate_attachment_scope: which codes a conversation's country allows.*)
Covers(code, country) ==
  \/ code = country
  \/ code = Global
  \/ Region(country) # None /\ code = Region(country)

(* Fault: countries without a region are let through.                      *)
ScopeIfMapped(c, d) ==
  d \in Base /\ CodeOf[c] \in DOMAIN RegionOf => Covers(CodeOf[d], CodeOf[c])
ScopeValid(c, d) ==
  d \in Base => CodeOf[c] # None /\ Covers(CodeOf[d], CodeOf[c])

(* list_documents_for_country: the codes of its IN clause, and the rows.   *)
CodesToQuery(country) ==
  {country, Global} \cup (IF Region(country) = None THEN {} ELSE {Region(country)})

DocumentsFor(country) ==
  {d \in Document : status[d] # "absent" /\ CodeOf[d] \in CodesToQuery(country)}

(* A SELECT without ORDER BY returns its rows in any order.                *)
Orders(S) == {s \in [1..Cardinality(S) -> S] : \A d \in S : \E i \in DOMAIN s : s[i] = d}

(* A link as the request's own transaction sees it.                        *)
Seen(r, d) == IF pend[r][d] # None THEN pend[r][d] ELSE link[PairOf(r, d)]
(* list_conversation_documents: the rows that are not deleted.             *)
ListDocuments(r) == {d \in Document : Seen(r, d) = "live"}
-----------------------------------------------------------------------------
Init ==
  /\ status = Stored
  /\ link = OldLink
  /\ refs = [d \in Document |-> Cardinality({c \in Conversation : OldLink[<<c, d>>] = "live"})]
  /\ zeroed = {d \in Document : /\ \E c \in Conversation : OldLink[<<c, d>>] = "dead"
                                /\ \A c \in Conversation : OldLink[<<c, d>>] # "live"}
  /\ kind = [r \in Request |-> None]
  /\ conv = [r \in Request |-> None]
  /\ todo = [r \in Request |-> << >>]
  /\ listed = [r \in Request |-> {}]
  /\ seen = [r \in Request |-> "none"]
  /\ pend = [r \in Request |-> Nothing]
  /\ newRefs = [r \in Request |-> Nothing]
  /\ pc = [r \in Request |-> "idle"]
  /\ resp = [r \in Request |-> "none"]

Goto(r, l) == pc' = [pc EXCEPT ![r] = l] /\ UNCHANGED resp

Answer(r, a) ==
  /\ pc' = [pc EXCEPT ![r] = "done"]
  /\ resp' = [resp EXCEPT ![r] = a]

(* Fault: the session is not closed after an error.                        *)
LeaveOpen(r) == UNCHANGED writes
(* The session is closed: its transaction, if still open, is rolled back.  *)
Close(r) ==
  /\ pend' = [pend EXCEPT ![r] = Nothing]
  /\ newRefs' = [newRefs EXCEPT ![r] = Nothing]

Reject(r, a) ==
  /\ Close(r)
  /\ Answer(r, a)
  /\ todo' = [todo EXCEPT ![r] = << >>]
  /\ seen' = [seen EXCEPT ![r] = "none"]
  /\ listed' = [listed EXCEPT ![r] = {}]
  /\ kind' = [kind EXCEPT ![r] = None]
  /\ conv' = [conv EXCEPT ![r] = None]
  /\ UNCHANGED <<status, tables>>

(* After the last document.                                                *)
LastStep(r) == IF kind[r] \in {"report", "preprocess"} THEN "generate" ELSE "commit"
NextDocument(r) ==
  /\ todo' = [todo EXCEPT ![r] = Tail(todo[r])]
  /\ Goto(r, IF Len(todo[r]) = 1 THEN LastStep(r) ELSE "read")
-----------------------------------------------------------------------------
Arrive(r, k, c, s) ==
  /\ pc[r] = "idle"
  /\ kind' = [kind EXCEPT ![r] = k]
  /\ conv' = [conv EXCEPT ![r] = c]
  /\ todo' = [todo EXCEPT ![r] = s]
  /\ UNCHANGED <<status, tables, listed, seen, writes>>

Receive(r, k) == \E m \in Call :
  m.kind = k /\ Arrive(r, k, m.conv, m.docs) /\ Goto(r, "read")

(* POST and DELETE /v1/conversations/{id}/attachments, and the bulk one.   *)
Attach(r) == Receive(r, "attach")
Detach(r) == Receive(r, "detach")
Bulk(r) == Receive(r, "bulk")

(* ReportService and the preprocessing list the documents of a country and *)
(* make a conversation of their own.                                       *)
Generate(r) == \E k \in {"report", "preprocess"} :
  \E s \in Orders(DocumentsFor(CodeOf[OwnOf[r]])) :
    /\ Arrive(r, k, OwnOf[r], s)
    /\ Goto(r, IF s = << >> THEN "generate" ELSE "read")
-----------------------------------------------------------------------------
(* AttachmentService.attach_document looks at the status first; reports do *)
(* not.                                                                    *)
ChecksStatus(r) == kind[r] \in {"attach", "bulk"}
Ready(r) == ChecksStatus(r) => status[Now(r)] = "active"
Valid(r) == ScopeValid(conv[r], Now(r))

(* A document that cannot be attached ends the request of a single one; the*)
(* bulk handler skips it unless its scope is wrong, which no handler there *)
(* catches; reports log it and go on.                                      *)
EndsRequest(r) == IF Ready(r) THEN ChecksStatus(r) ELSE kind[r] = "attach"

Refuse(r) ==
  /\ pc[r] = "read" /\ kind[r] # "detach"
  /\ ~Ready(r) \/ ~Valid(r)
  /\ IF EndsRequest(r)
       THEN Reject(r, IF kind[r] = "attach" THEN "refused" ELSE "error")
       ELSE NextDocument(r) /\ UNCHANGED <<status, tables, request, listed, seen, writes>>

(* attach_to_conversation reads the document, its conversation and the     *)
(* link.  The reads are one step: a document that is active stays so.  A   *)
(* link that is live is left as it is.                                     *)
ReadToAttach(r) ==
  /\ pc[r] = "read" /\ kind[r] # "detach"
  /\ Ready(r) /\ Valid(r)
  /\ LET found == Seen(r, Now(r))
     IN  IF found = "live"
           THEN /\ listed' = [listed EXCEPT ![r] = @ \cup {Now(r)}]
                /\ NextDocument(r)
                /\ UNCHANGED seen
           ELSE /\ seen' = [seen EXCEPT ![r] = found]
                /\ Goto(r, "write")
                /\ UNCHANGED <<todo, listed>>
  /\ UNCHANGED <<status, tables, request, writes>>

(* detach_from_conversation: only a live link can be detached.             *)
ReadToDetach(r) ==
  /\ pc[r] = "read" /\ kind[r] = "detach"
  /\ IF Seen(r, Now(r)) = "live"
       THEN /\ seen' = [seen EXCEPT ![r] = "live"]
            /\ Goto(r, "write")
            /\ UNCHANGED <<status, tables, request, todo, listed, writes>>
       ELSE Reject(r, "refused")
-----------------------------------------------------------------------------
(* Row locks: another transaction's uncommitted write of the same row.     *)
LinkBlocker(r) ==
  {q \in Request \ {r} : conv[q] = conv[r] /\ pend[q][Now(r)] # None}
RowBlocker(r) == {q \in Request \ {r} : newRefs[q][Now(r)] # None}

Wanted(r) == IF kind[r] = "detach" THEN "dead" ELSE "live"

(* The INSERT or UPDATE of the link, once its row is free.  An INSERT that *)
(* finds a row by now is an IntegrityError; an UPDATE overwrites the row,  *)
(* whatever it holds by now.                                               *)
Write(r) ==
  /\ pc[r] = "write"
  /\ LinkBlocker(r) = {}
  /\ IF seen[r] = "none" /\ link[PairOf(r, Now(r))] # "none"
       THEN Reject(r, "error")
       ELSE /\ pend' = [pend EXCEPT ![r][Now(r)] = Wanted(r)]
            /\ Goto(r, "count")
            /\ UNCHANGED <<status, tables, request, todo, listed, seen, newRefs>>

(* Fault: the trigger looks only at the new row.                           *)
EffectOfNew(old, new) == IF new = "live" THEN "increment" ELSE "decrement"
(* fn_update_document_chat_refs: what a write of the link does to the count*)
(* of its document, given the row before and after it.                     *)
Effect(old, new) ==
  CASE old # "live" /\ new = "live" -> "increment"
    [] old = "live" /\ new = "dead" -> "decrement"
    [] OTHER -> "none"

Count(n, effect) ==
  IF effect = "increment" THEN n + 1 ELSE IF n = 0 THEN 0 ELSE n - 1

EffectOf(r) == Effect(link[PairOf(r, Now(r))], pend[r][Now(r)])

(* The document's row is locked and written only if there is an effect.    *)
CountLink(r) ==
  /\ pc[r] = "count"
  /\ IF EffectOf(r) = "none"
       THEN UNCHANGED newRefs
       ELSE /\ RowBlocker(r) = {}
            /\ newRefs' = [newRefs EXCEPT ![r][Now(r)] = Count(refs[Now(r)], EffectOf(r))]
  /\ listed' = [listed EXCEPT ![r] = @ \cup {Now(r)}]
  /\ NextDocument(r)
  /\ seen' = [seen EXCEPT ![r] = "none"]
  /\ UNCHANGED <<status, tables, request, pend>>
-----------------------------------------------------------------------------
(* Fault: the last reference is taken to be number one.                    *)
FallsToOne(d, n) == refs[d] > 1 /\ n = 1
(* fn_track_document_gc_events.                                            *)
FallsToZero(d, n) == refs[d] > 0 /\ n = 0

Save(r) ==
  /\ link' = [p \in Pair |-> IF p[1] = conv[r] /\ pend[r][p[2]] # None
                             THEN pend[r][p[2]] ELSE link[p]]
  /\ refs' = [d \in Document |-> IF newRefs[r][d] # None THEN newRefs[r][d] ELSE refs[d]]
  /\ zeroed' = zeroed \cup {d \in Document : newRefs[r][d] # None
                                             /\ FallsToZero(d, newRefs[r][d])}
  /\ Close(r)

(* Fault: the detach handler's commit and rollback are swapped.            *)
SaveAttached(r) == IF kind[r] = "detach" THEN Close(r) /\ UNCHANGED tables ELSE Save(r)
(* What the handlers commit: detach only if it has detached, the others    *)
(* whatever they have written.                                             *)
Publish(r) == Save(r)

Commit(r) ==
  /\ pc[r] = "commit"
  /\ Publish(r)
  /\ Answer(r, "ok")
  /\ UNCHANGED <<status, request, todo, listed, seen>>

(* The answers of the model are written while the locks are held.  The     *)
(* preprocessing commits them with the first answer it caches, if any.     *)
Generated(r) ==
  /\ pc[r] = "generate"
  /\ \/ kind[r] = "preprocess" /\ Publish(r)
     \/ Close(r) /\ UNCHANGED tables
  /\ Answer(r, "ok")
  /\ UNCHANGED <<status, request, todo, listed, seen>>
-----------------------------------------------------------------------------
(* A transaction that waits for one that waits for it: the database ends   *)
(* one of them with an error.                                              *)
Blockers(r) ==
  CASE pc[r] = "write" -> LinkBlocker(r)
    [] pc[r] = "count" /\ EffectOf(r) # "none" -> RowBlocker(r)
    [] OTHER -> {}

Deadlocked(r) == Blockers(r) # {} /\ \E S \in SUBSET Request :
  /\ r \in S
  /\ \A q \in S : S \cap Blockers(q) # {} /\ \E p \in S : q \in Blockers(p)

BreakDeadlock(r) == InFlight(r) /\ Deadlocked(r) /\ Reject(r, "error")

(* A lost connection, a statement that fails, the end of the process.  One *)
(* that comes before anything is written has no effect but its answer.     *)
Fail(r) == InFlight(r) /\ pend[r] # Nothing /\ Reject(r, "error")

(* The ingestion activates a document (see Ingestion).                     *)
Activate(d) ==
  /\ status[d] = "processing"
  /\ status' = [status EXCEPT ![d] = "active"]
  /\ UNCHANGED <<tables, request, todo, listed, seen, writes, pc, resp>>

Handle(r) ==
  \/ Refuse(r) \/ ReadToAttach(r) \/ ReadToDetach(r)
  \/ Write(r) \/ CountLink(r) \/ Commit(r) \/ Generated(r)

Step(r) ==
  \/ Attach(r) \/ Detach(r) \/ Bulk(r) \/ Generate(r)
  \/ Handle(r) \/ BreakDeadlock(r) \/ Fail(r)

Next == (\E r \in Request : Step(r)) \/ (\E d \in Document : Activate(d))

(* A handler goes on, the model's and the database's time-outs see to it;  *)
(* one that waits goes on when the lock is free, or is a deadlock's victim.*)
Fairness == \A r \in Request : WF_vars(Handle(r) \/ BreakDeadlock(r))
Spec == Init /\ [][Next]_vars /\ Fairness
-----------------------------------------------------------------------------
TypeOK ==
  /\ status \in [Document -> {"absent", "processing", "active"}]
  /\ link \in [Pair -> State]
  /\ refs \in [Document -> Nat]
  /\ zeroed \subseteq Document
  /\ kind \in [Request -> Kind \cup {None}]
  /\ conv \in [Request -> Conversation \cup {None}]
  /\ todo \in [Request -> Seq(Document)]
  /\ listed \in [Request -> SUBSET Document]
  /\ seen \in [Request -> State]
  /\ pend \in [Request -> [Document -> {"live", "dead", None}]]
  /\ newRefs \in [Request -> [Document -> Nat \cup {None}]]
  /\ pc \in [Request -> Label]
  /\ resp \in [Request -> Reply]

(* Whatever attaches, detaches, failures and deadlocks interleave, the     *)
(* count of a document is the number of conversations it is attached to:   *)
(* fn_update_document_chat_refs.                                           *)
RefsCountLinks == \A d \in Document : refs[d] = Cardinality(LiveLinks(d))

(* A document that was attached and is attached nowhere any more has been  *)
(* reported to the garbage collector: fn_track_document_gc_events.         *)
UnusedAreReported ==
  \A d \in Document :
    (\E c \in Conversation : link[<<c, d>>] # "none") /\ LiveLinks(d) = {}
      => d \in zeroed

Attached(r, c, d) ==
  Answered(r, "ok") /\ ChecksStatus(r) /\ conv[r] = c /\ d \in listed[r]
Detached(r, c, d) ==
  Answered(r, "ok") /\ kind[r] = "detach" /\ conv[r] = c /\ d \in listed[r]
(* The link is what the answers say: attached, unless a detach was answered*)
(* too; detached, unless an attach was; and attached only if it was at the *)
(* start or an attach was answered.  A request answered with an error has  *)
(* changed nothing, a bulk request not even in part.                       *)
AnswersHold ==
  \A c \in Conversation \ Temporary, d \in Document :
    LET attached == \E r \in Request : Attached(r, c, d)
        detached == \E r \in Request : Detached(r, c, d)
    IN  /\ attached /\ ~detached => link[<<c, d>>] = "live"
        /\ detached /\ ~attached => link[<<c, d>>] = "dead"
        /\ ~attached /\ ~detached => link[<<c, d>>] = OldLink[<<c, d>>]

(* A report is written from every document its country's list named: what  *)
(* list_documents_for_country finds, _validate_attachment_scope lets in.   *)
ReportsCoverCountry ==
  \A r \in Request : pc[r] = "generate" =>
    DocumentsFor(CodeOf[conv[r]]) \subseteq ListDocuments(r)

(* Every request is answered: those that wait for one another are not left *)
(* waiting, and a transaction that ends in an error gives up its locks.    *)
EveryRequestAnswered == \A r \in Request : []<>~InFlight(r)

(* Requests that read, write and count in statements of their own, behind  *)
(* row locks, change links, counts and reports in one step, like the       *)
(* abstract attachments; and they link to a conversation no base document  *)
(* that the list of its country would not show.                            *)
Allowed == {p \in Pair : p[2] \in Base => CodeOf[p[2]] \in CodesToQuery(CodeOf[p[1]])}
Kept == INSTANCE Attachments WITH InScope <- Allowed
LinksAreTransactions == Kept!Spec
-----------------------------------------------------------------------------
(* What the proofs add.  Where a handler is tells what it has written.     *)
PlaceInv == \A r \in Request :
  /\ InFlight(r) => kind[r] # None /\ conv[r] \in Conversation
  /\ ~InFlight(r) => pend[r] = Nothing
  /\ pc[r] \in {"read", "write", "count"} => todo[r] # << >>
  /\ pc[r] = "write" => pend[r][Now(r)] = None
  /\ pc[r] = "count" => pend[r][Now(r)] # None /\ newRefs[r][Now(r)] = None
  /\ pc[r] = "commit" => kind[r] \in {"attach", "bulk", "detach"}
  /\ pc[r] = "generate" => kind[r] \in {"report", "preprocess"}
  /\ kind[r] \in {"attach", "bulk", "detach"} => conv[r] \in Conversation \ Temporary
  /\ kind[r] \in {"report", "preprocess"} => conv[r] = OwnOf[r]

(* A row has one writer at a time, and a request writes one kind of value. *)
LockInv == \A r \in Request, d \in Document :
  /\ pend[r][d] \in {None, Wanted(r)}
  /\ \A q \in Request \ {r} :
       /\ pend[q][d] # None /\ pend[r][d] # None => conv[q] # conv[r]
       /\ newRefs[q][d] = None \/ newRefs[r][d] = None

(* A count that is written goes with a link that is written, and is what   *)
(* the tables, which the locks hold still, will make it.                   *)
CountInv == \A r \in Request, d \in Document :
  LET effect == Effect(link[PairOf(r, d)], pend[r][d])
  IN  /\ pend[r][d] = None => newRefs[r][d] = None
      /\ newRefs[r][d] # None => effect # "none" /\ newRefs[r][d] = Count(refs[d], effect)
      /\ pend[r][d] # None /\ newRefs[r][d] = None =>
           effect = "none" \/ (pc[r] = "count" /\ d = Now(r))

(* Only a link that is there is detached.                                  *)
DetachInv == \A r \in Request, d \in Document :
  /\ kind[r] = "detach" /\ pend[r][d] # None => link[PairOf(r, d)] # "none"
  /\ kind[r] = "detach" /\ pc[r] = "write" /\ d = Now(r) => link[PairOf(r, d)] # "none"

(* What a request will answer of a document, it has written or found.      *)
ListedInv == \A r \in Request, d \in Document :
  /\ pc[r] = "idle" => listed[r] = {}
  /\ pend[r][d] # None => d \in listed[r] \/ (pc[r] = "count" /\ d = Now(r))
  /\ InFlight(r) /\ d \in listed[r] =>
       \/ pend[r][d] # None
       \/ kind[r] # "detach" /\ link[PairOf(r, d)] = "live"
       \/ \E q \in Request : Detached(q, conv[r], d)

(* A report has linked the documents it is done with.                      *)
ReportInv == \A r \in Request, d \in Document :
  InFlight(r) /\ kind[r] \in {"report", "preprocess"}
    /\ d \in DocumentsFor(CodeOf[conv[r]]) =>
      \/ Seen(r, d) = "live"
      \/ pc[r] # "generate" /\ \E i \in DOMAIN todo[r] : todo[r][i] = d

(* What a request links is within the scope of its conversation.           *)
ScopeInv == \A r \in Request :
  /\ pc[r] \in {"write", "count"} /\ kind[r] # "detach" => Valid(r)
  /\ \A d \in Document : pend[r][d] = "live" => ScopeValid(conv[r], d)

IInv ==
  /\ TypeOK /\ RefsCountLinks /\ UnusedAreReported
  /\ PlaceInv /\ LockInv /\ CountInv /\ DetachInv
AnswerInv == IInv /\ ListedInv /\ AnswersHold
CoverInv == IInv /\ ReportInv
=============================================================================
