------------------------------ MODULE ChatTurns ------------------------------
(***************************************************************************)
(* Conversations and the chat.  Every request of agent-api has a database  *)
(* session of its own (READ COMMITTED, no autoflush).  A turn flushes the  *)
(* user's message, lets the agent work, and flushes the answer; nothing    *)
(* but storing the answer in chat_response_cache commits, and that commits *)
(* the messages with it.  The preprocessing asks a list of questions in one*)
(* session, swallowing errors between them.  A reader pages through a      *)
(* transcript meanwhile.                                                   *)
(***************************************************************************)
EXTENDS Naturals, Sequences, FiniteSets

CONSTANTS
  Request,      (* requests, each with a session                           *)
  Conversation, (* conversations                                           *)
  NewOf,        (* the one a request makes if it makes one                 *)
  Owner,        (* conversations.owner_user_id                             *)
  UserOf,       (* the user a request authenticates as                     *)
  Start,        (* conversations there at the start                        *)
  Question,     (* questions, with the country they are about              *)
  Pillars,      (* the questions the preprocessing asks, in order          *)
  Document,     (* documents                                               *)
  Scope,        (* those that may be attached to a conversation and active *)
  Call,         (* what users ask for                                      *)
  Reader,       (* clients that page through a transcript                  *)
  Limit,        (* messages of a page                                      *)
  None          (* "no such value"                                         *)

New == {NewOf[r] : r \in Request}
Turn == Request \X Question

ASSUME ChatAssumption ==
  /\ NewOf \in [Request -> Conversation] /\ Start \subseteq Conversation \ New
  /\ \A q, r \in Request : NewOf[q] = NewOf[r] => q = r
  /\ Pillars \in Seq(Question)
  /\ \A i, j \in DOMAIN Pillars : Pillars[i] = Pillars[j] => i = j
  /\ Scope \in [Conversation -> SUBSET Document]
  /\ Call \subseteq [conv : (Conversation \ New) \cup {None}, question : Question,
                     stream : BOOLEAN, useCache : BOOLEAN]
  /\ Limit \in Nat \ {0}
  /\ None \notin Conversation \cup Turn

VARIABLES
  clock,    (* the last time a transaction began                           *)
  known,    (* conversations: the committed rows                           *)
  messages, (* messages: the committed rows                                *)
  cache,    (* chat_response_cache: the turn an entry holds, or None       *)
  kind,     (* "chat" or "preprocess"                                      *)
  conv,     (* the request's conversation                                  *)
  asks,     (* questions it has still to ask                               *)
  stores,   (* it is to store its answer in the cache                      *)
  began,    (* when its transaction began, 0 without one                   *)
  mine,     (* messages it has flushed and not committed                   *)
  last,     (* runtime.last_retrieval: documents to cite                   *)
  found,    (* the cache entry its SELECT found                            *)
  pc,       (* where its handler is                                        *)
  page      (* what a reader has read                                      *)

tables == <<known, messages, cache>>
request == <<kind, conv, stores>>
session == <<began, mine>>
vars == <<clock, known, messages, cache, kind, conv, asks, stores, began, mine,
          last, found, pc, page>>

Label == {"idle", "lookup", "scope", "agent", "select", "write", "done"}
Entry == Turn \cup {None}

Asked(r) == Head(asks[r])
TurnOf(r) == <<r, Asked(r)>>
InFlight(r) == pc[r] \notin {"idle", "done"}
Warms(r) == kind[r] = "preprocess"
-----------------------------------------------------------------------------
(* A message: its time is that of its transaction.                         *)
Message == [conv : Conversation, turn : Turn, role : {"user", "assistant"},
            at : Nat, ord : Nat, cites : SUBSET Document]
(* What a reader has of a transcript, and what was there when it began.    *)
Page == [conv : Conversation \cup {None}, cursor : Nat, read : Seq(Message),
         there : SUBSET Message, more : BOOLEAN]

Of(c) == {m \in messages : m.conv = c}
(* Fault: the transcript is in the order of the ordinals.                  *)
BeforeByOrdinal(m, n) == m.ord < n.ord
(* list_messages: created_at, then ordinal.                                *)
Before(m, n) == m.at < n.at \/ (m.at = n.at /\ m.ord < n.ord)

(* append_message: one more than the largest ordinal its session can see.  *)
Largest(S) == CHOOSE n \in {m.ord : m \in S} : \A m \in S : m.ord <= n
NextOrdinal(r) ==
  LET visible == {m \in messages \cup mine[r] : m.conv = conv[r]}
  IN  IF visible = {} THEN 0 ELSE Largest(visible) + 1

Flush(r, role, cites) ==
  mine' = [mine EXCEPT ![r] = @ \cup
            {[conv |-> conv[r], turn |-> TurnOf(r), role |-> role, at |-> began[r],
              ord |-> NextOrdinal(r), cites |-> cites]}]
-----------------------------------------------------------------------------
Init ==
  /\ clock = 0
  /\ known = Start
  /\ messages = {}
  /\ cache = [q \in Question |-> None]
  /\ kind = [r \in Request |-> "chat"]
  /\ conv = [r \in Request |-> None]
  /\ asks = [r \in Request |-> << >>]
  /\ stores = [r \in Request |-> FALSE]
  /\ began = [r \in Request |-> 0]
  /\ mine = [r \in Request |-> {}]
  /\ last = [r \in Request |-> {}]
  /\ found = [r \in Request |-> None]
  /\ pc = [r \in Request |-> "idle"]
  /\ page = [d \in Reader |-> [conv |-> None, cursor |-> 0, read |-> << >>,
                               there |-> {}, more |-> FALSE]]

Goto(r, l) == pc' = [pc EXCEPT ![r] = l]

(* The session's transaction begins with its first statement.              *)
Begin(r) ==
  /\ clock' = clock + 1
  /\ began' = [began EXCEPT ![r] = clock + 1]

(* The session is closed, its open transaction rolled back.                *)
Close(r) ==
  /\ began' = [began EXCEPT ![r] = 0]
  /\ mine' = [mine EXCEPT ![r] = {}]

Finish(r) ==
  /\ Goto(r, "done")
  /\ kind' = [kind EXCEPT ![r] = "chat"]
  /\ conv' = [conv EXCEPT ![r] = None]
  /\ asks' = [asks EXCEPT ![r] = << >>]
  /\ stores' = [stores EXCEPT ![r] = FALSE]
  /\ last' = [last EXCEPT ![r] = {}]
  /\ found' = [found EXCEPT ![r] = None]

(* Fault: a session that is closed commits.                                *)
EndCommitting(r) ==
  /\ messages' = messages \cup mine[r]
  /\ Close(r)
  /\ Finish(r)
  /\ UNCHANGED <<clock, known, cache, page>>
End(r) ==
  /\ Close(r)
  /\ Finish(r)
  /\ UNCHANGED <<clock, tables, page>>

(* The preprocessing goes on to its next question, in the same session.    *)
NextQuestion(r) ==
  /\ asks' = [asks EXCEPT ![r] = Tail(asks[r])]
  /\ last' = [last EXCEPT ![r] = {}]
  /\ found' = [found EXCEPT ![r] = None]
  /\ Goto(r, "lookup")

(* A question comes to nothing: a request ends with its error, the         *)
(* preprocessing swallows it and asks the next, keeping what it flushed.   *)
Drop(r) ==
  IF Warms(r) /\ Len(asks[r]) > 1
    THEN NextQuestion(r) /\ UNCHANGED <<clock, tables, request, session, page>>
    ELSE End(r)
-----------------------------------------------------------------------------
(* POST /v1/conversations.                                                 *)
Create(c) ==
  /\ c \in Conversation \ (known \cup New)
  /\ known' = known \cup {c}
  /\ UNCHANGED <<clock, messages, cache, request, asks, session, last, found, pc,
                 page>>

Arrive(r, k, c, s, b) ==
  /\ pc[r] = "idle"
  /\ kind' = [kind EXCEPT ![r] = k]
  /\ conv' = [conv EXCEPT ![r] = c]
  /\ asks' = [asks EXCEPT ![r] = s]
  /\ stores' = [stores EXCEPT ![r] = b]
  /\ Begin(r)
  /\ UNCHANGED <<tables, mine, last, found, page>>

(* _resolve_conversation_id: the thread named, if it is the caller's, else *)
(* 404; a new conversation if none is named.                               *)
Resolved(r, c) == IF c = None THEN NewOf[r] ELSE c
Foreign(r, c) == c # None /\ (c \notin known \/ Owner[c] # UserOf[r])

(* POST /v1/chat; a stream neither reads nor writes the cache.             *)
PostChat(r) == \E m \in Call :
  /\ Arrive(r, "chat", Resolved(r, m.conv), <<m.question>>, m.useCache /\ ~m.stream)
  /\ ~Foreign(r, m.conv)
  /\ Goto(r, IF m.useCache /\ ~m.stream THEN "lookup" ELSE "scope")

(* preprocess_cache_for_country, for a country with documents.             *)
Preprocess(r) ==
  /\ Pillars # << >>
  /\ Arrive(r, "preprocess", NewOf[r], Pillars, TRUE)
  /\ Goto(r, "lookup")
-----------------------------------------------------------------------------
(* get_cached_response.  A hit is answered as it is, and what the session  *)
(* has written is dropped with it.                                         *)
LookUp(r) ==
  /\ pc[r] = "lookup"
  /\ IF cache[Asked(r)] # None
       THEN IF Warms(r) THEN Drop(r) ELSE End(r)
       ELSE /\ IF began[r] = 0 THEN Begin(r) ELSE UNCHANGED <<clock, began>>
            /\ Goto(r, "scope")
            /\ UNCHANGED <<tables, request, asks, mine, last, found, page>>

(* run_chat, up to the question: documents must be attached and active, and*)
(* none is attached to a conversation a chat has just made.                *)
Unscoped(r) ==
  /\ pc[r] = "scope"
  /\ Drop(r)

AppendQuestion(r) ==
  /\ pc[r] = "scope"
  /\ kind[r] = "chat" => conv[r] # NewOf[r]
  /\ Flush(r, "user", {})
  /\ Goto(r, "agent")
  /\ UNCHANGED <<clock, tables, request, asks, began, last, found, page>>

(* Fault: one runtime for all turns.                                       *)
SharedRuntime(r, S) == last' = [q \in Request |-> IF InFlight(q) THEN S ELSE last[q]]
(* The turn's ToolRuntime, a context variable.                             *)
SetRuntime(r, S) == last' = [last EXCEPT ![r] = S]

(* retrieve searches the documents attached and active by now; a search    *)
(* finds chunks of any of them, of which the reranker's best are cited.    *)
Searchable(c) == SUBSET Scope[c]
Hits(D) == SUBSET D
Best(H) == SUBSET H \ {{}}

(* retrieve_documents cites something, or raises.  The last one counts.    *)
Retrieve(r) ==
  /\ pc[r] = "agent"
  /\ \E D \in Searchable(conv[r]) : \E H \in Hits(D) : \E S \in Best(H) : SetRuntime(r, S)
  /\ UNCHANGED <<clock, tables, request, asks, session, found, pc, page>>

(* The agent or a tool raises, or nothing was retrieved: MISSING_CITATIONS.*)
NoAnswer(r) ==
  /\ pc[r] = "agent"
  /\ Drop(r)

(* The answer is flushed.  A turn that is not to be cached is answered, and*)
(* its session closed without a commit.                                    *)
AppendAnswer(r) ==
  /\ pc[r] = "agent"
  /\ last[r] # {}
  /\ IF stores[r]
       THEN /\ Flush(r, "assistant", last[r])
            /\ Goto(r, "select")
            /\ UNCHANGED <<clock, tables, request, asks, began, last, found, page>>
       ELSE End(r)
-----------------------------------------------------------------------------
(* store_response: a SELECT, an INSERT or UPDATE, and the commit.          *)
SelectEntry(r) ==
  /\ pc[r] = "select"
  /\ found' = [found EXCEPT ![r] = cache[Asked(r)]]
  /\ Goto(r, "write")
  /\ UNCHANGED <<clock, tables, request, asks, session, last, page>>

(* uq_chat_response_cache_country_hash: another session's entry has come.  *)
Conflict(r) == found[r] = None /\ cache[Asked(r)] # None

(* Fault: the cache has a session of its own.                              *)
SaveEntryOnly(r) ==
  /\ cache' = [cache EXCEPT ![Asked(r)] = TurnOf(r)]
  /\ Close(r)
  /\ UNCHANGED <<known, messages>>
(* The commit of the entry is that of the messages and the conversation.   *)
Save(r) ==
  /\ cache' = [cache EXCEPT ![Asked(r)] = TurnOf(r)]
  /\ known' = known \cup {conv[r]}
  /\ messages' = messages \cup mine[r]
  /\ Close(r)

(* A conflict costs the turn its messages; a request swallows it and       *)
(* answers all the same, the preprocessing's session is of no use any more *)
(* and fails its other questions.                                          *)
StoreResponse(r) ==
  /\ pc[r] = "write"
  /\ IF Conflict(r)
       THEN End(r)
       ELSE /\ Save(r)
            /\ IF Warms(r) /\ Len(asks[r]) > 1
                 THEN NextQuestion(r) /\ UNCHANGED request
                 ELSE Finish(r)
            /\ UNCHANGED <<clock, page>>

(* A statement fails or the process ends; the client goes away.            *)
Fail(r) ==
  /\ InFlight(r)
  /\ End(r)
-----------------------------------------------------------------------------
(* Fault: messages of the cursor's own time are read again.                *)
LaterOrSame(c, t) == {m \in Of(c) : t = 0 \/ m.at >= t}
(* GET /v1/conversations/{id}: a page, and a cursor if there is more.      *)
Later(c, t) == {m \in Of(c) : m.at > t}
(* The place of a message is the number of those before it.                *)
Place(S, m) == Cardinality({x \in S : Before(x, m)})
Sorted(S) == [i \in 1..Cardinality(S) |-> CHOOSE m \in S : Place(S, m) = i - 1]
Rows(c, t) == Sorted(Later(c, t))

More(rows) == Len(rows) > Limit

Fetch(d, c, t, sofar, there) ==
  LET rows == Rows(c, t)
      read == SubSeq(rows, 1, IF More(rows) THEN Limit ELSE Len(rows))
  IN  page' = [page EXCEPT ![d] =
        [conv |-> c, read |-> sofar \o read, there |-> there,
         more |-> More(rows), cursor |-> IF More(rows) THEN read[Len(read)].at ELSE t]]

FirstPage(d) == \E c \in known \ New :
  /\ page[d].conv = None
  /\ Fetch(d, c, 0, << >>, Of(c))
  /\ UNCHANGED <<clock, tables, request, asks, session, last, found, pc>>

NextPage(d) ==
  /\ page[d].more
  /\ Fetch(d, page[d].conv, page[d].cursor, page[d].read, page[d].there)
  /\ UNCHANGED <<clock, tables, request, asks, session, last, found, pc>>

Step(r) ==
  \/ PostChat(r) \/ Preprocess(r) \/ LookUp(r) \/ Unscoped(r) \/ AppendQuestion(r)
  \/ Retrieve(r) \/ NoAnswer(r) \/ AppendAnswer(r) \/ SelectEntry(r)
  \/ StoreResponse(r) \/ Fail(r)

Next ==
  \/ \E r \in Request : Step(r)
  \/ \E c \in Conversation : Create(c)
  \/ \E d \in Reader : FirstPage(d) \/ NextPage(d)

Spec == Init /\ [][Next]_vars
-----------------------------------------------------------------------------
TypeOK ==
  /\ clock \in Nat
  /\ known \subseteq Conversation
  /\ messages \subseteq Message
  /\ cache \in [Question -> Entry]
  /\ kind \in [Request -> {"chat", "preprocess"}]
  /\ conv \in [Request -> Conversation \cup {None}]
  /\ asks \in [Request -> Seq(Question)]
  /\ stores \in [Request -> BOOLEAN]
  /\ began \in [Request -> Nat]
  /\ mine \in [Request -> SUBSET Message]
  /\ last \in [Request -> SUBSET Document]
  /\ found \in [Request -> Entry]
  /\ pc \in [Request -> Label]
  /\ page \in [Reader -> Page]

(* However turns of one conversation overlap, an answer stands directly    *)
(* after its question in the transcript (append_message, list_messages);   *)
(* and the transcript of a user's conversation has no question without an  *)
(* answer: a turn is stored whole or not at all.                           *)
TurnsStandTogether ==
  /\ \A m \in messages : m.role = "assistant" =>
       \E u \in Of(m.conv) :
         /\ u.turn = m.turn /\ u.role = "user" /\ Before(u, m)
         /\ ~\E x \in Of(m.conv) : Before(u, x) /\ Before(x, m)
  /\ \A u \in messages : u.conv \notin New /\ u.role = "user" =>
       \E m \in Of(u.conv) : m.turn = u.turn /\ m.role = "assistant"

(* A cached answer was given to the question it is cached for, in a turn   *)
(* whose question and answer are on record: store_response commits both.   *)
CachedAnswersOnRecord ==
  \A q \in Question : cache[q] # None =>
    /\ cache[q][2] = q
    /\ \A role \in {"user", "assistant"} :
         \E m \in messages : m.turn = cache[q] /\ m.role = role

(* An answer cites documents, and none that only another conversation has: *)
(* run_chat reads the runtime its own tools wrote.                         *)
AnswersCiteScope ==
  \A m \in messages : m.role = "assistant" =>
    m.cites # {} /\ m.cites \subseteq Scope[m.conv]

(* Pages of whole turns miss nothing that was there when the first was read*)
(* and repeat nothing, whatever is committed meanwhile: list_messages.     *)
PagesMissNothing ==
  \A d \in Reader : Limit % 2 = 0 =>
    /\ \A i, j \in DOMAIN page[d].read : i < j => Before(page[d].read[i], page[d].read[j])
    /\ page[d].conv # None /\ ~page[d].more =>
         \A m \in page[d].there : \E i \in DOMAIN page[d].read : page[d].read[i] = m

(* The tables are those of conversations that grow by whole turns, each in *)
(* one step with the cache entry that holds it, in any overlap of sessions *)
(* and whichever of them fail.                                             *)
Record == INSTANCE Transcripts WITH Made <- New, conversations <- known

TurnsAreTransactions == Record!Spec
=============================================================================
