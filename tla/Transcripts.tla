----------------------------- MODULE Transcripts -----------------------------
(***************************************************************************)
(* What the readers of conversations and of chat_response_cache may rely   *)
(* on.  The tables only grow, by one turn at a time, and a turn comes with *)
(* its conversation and with the cache entry that holds its answer, in one *)
(* step: there is never an entry whose turn is missing, nor a turn in      *)
(* parts, nor one in the middle of another.  Sessions that flush, fail and *)
(* overlap must still look like this.                                      *)
(***************************************************************************)
EXTENDS Naturals

CONSTANTS
  Conversation,  (* conversations                                          *)
  Made,          (* those a request makes for itself                       *)
  Start,         (* those there at the start                               *)
  Question,      (* questions                                              *)
  Scope,         (* documents that may be cited in a conversation          *)
  None           (* an empty entry                                         *)

VARIABLES conversations, messages, cache

vars == <<conversations, messages, cache>>

Init ==
  /\ conversations = Start
  /\ messages = {}
  /\ cache = [q \in Question |-> None]

Create(c) ==
  /\ c \notin conversations \cup Made
  /\ conversations' = conversations \cup {c}
  /\ UNCHANGED <<messages, cache>>

(* The answer m stands directly after its question, and cites the scope.   *)
Answers(S, m) ==
  /\ m.cites # {} /\ m.cites \subseteq Scope[m.conv]
  /\ \E u \in S :
       /\ u.turn = m.turn /\ u.role = "user" /\ u.ord < m.ord
       /\ ~\E x \in S : u.ord < x.ord /\ x.ord < m.ord

(* S is turn t of conversation c, at a time of its own.  A conversation    *)
(* made for a list of questions keeps those that were not answered too.    *)
Whole(S, c, t) ==
  /\ \A m, n \in S : m.conv = c /\ m.at = n.at /\ (m.ord = n.ord => m = n)
  /\ \A m \in S, n \in messages : m.at # n.at
  /\ \A m \in S : m.role = "assistant" => Answers(S, m)
  /\ \A role \in {"user", "assistant"} : \E m \in S : m.turn = t /\ m.role = role
  /\ c \notin Made => \A m, n \in S : m.role = n.role => m = n

(* A turn, and the conversation and the entry that go with it.             *)
Commit(c, t) ==
  /\ messages \subseteq messages' /\ Whole(messages' \ messages, c, t)
  /\ conversations' = conversations \cup {c}
  /\ cache' = [cache EXCEPT ![t[2]] = t]

Next ==
  \/ \E c \in Conversation : Create(c)
  \/ \E m \in messages' \ messages : Commit(m.conv, m.turn)

Spec == Init /\ [][Next]_vars
=============================================================================
