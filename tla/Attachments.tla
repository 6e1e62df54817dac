----------------------------- MODULE Attachments -----------------------------
(***************************************************************************)
(* What the readers of conversation_documents, of active_chat_refs and of  *)
(* document_gc_events may rely on.  A transaction changes links of one     *)
(* conversation, all in one direction, and with them, in the same step,    *)
(* the counts of their documents and the reports of those that fell to     *)
(* zero - and reports nothing else.  Only documents within the scope of a  *)
(* conversation are attached to it, and a link is never taken back to not  *)
(* having been.  Handlers that read, write and count in statements of      *)
(* their own, wait for locks and fail must still look like this.           *)
(***************************************************************************)
EXTENDS Naturals, FiniteSets

CONSTANTS
  Conversation,  (* conversations                                          *)
  Document,      (* documents                                              *)
  OldLink,       (* the links at the start                                 *)
  InScope        (* pairs that may be linked                               *)

VARIABLES link, refs, zeroed

vars == <<link, refs, zeroed>>

Pair == Conversation \X Document
Live(links, d) == {c \in Conversation : links[<<c, d>>] = "live"}

Init ==
  /\ link = OldLink
  /\ refs = [d \in Document |-> Cardinality(Live(link, d))]
  /\ zeroed = {d \in Document : /\ \E c \in Conversation : link[<<c, d>>] = "dead"
                                /\ Live(link, d) = {}}

Write(c, D, to) ==
  /\ link' = [p \in Pair |-> IF p[1] = c /\ p[2] \in D THEN to ELSE link[p]]
  /\ refs' = [d \in Document |-> Cardinality(Live(link', d))]
  /\ zeroed' = zeroed \cup {d \in D : refs[d] > 0 /\ refs'[d] = 0}

Attach(c, D) ==
  /\ \A d \in D : <<c, d>> \in InScope
  /\ Write(c, D, "live")

Detach(c, D) ==
  /\ \A d \in D : link[<<c, d>>] # "none"
  /\ Write(c, D, "dead")

Next == \E c \in Conversation, D \in SUBSET Document : Attach(c, D) \/ Detach(c, D)

Spec == Init /\ [][Next]_vars
=============================================================================
