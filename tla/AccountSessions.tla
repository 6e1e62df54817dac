--------------------------- MODULE AccountSessions ---------------------------
(***************************************************************************)
(* What the owners of accounts, and whoever checks their sessions, may rely*)
(* on.  A session is opened once, for an account that exists, and stays    *)
(* that account's; it ends alone or together with all of its account, and  *)
(* is never there again.  The handlers of two services, which take several *)
(* transactions for a refresh or a change of password, must still look     *)
(* like this.                                                              *)
(***************************************************************************)
EXTENDS Naturals

CONSTANTS
  Token,     (* names of sessions                                          *)
  User,      (* accounts                                                   *)
  Standing,  (* accounts there at the start                                *)
  OpenedBy   (* sessions opened before the start, with their accounts      *)

VARIABLES
  present,   (* accounts that exist                                        *)
  past,      (* accounts that have been deleted                            *)
  owner,     (* the account of each session that was ever opened           *)
  live       (* sessions that have not ended                               *)

vars == <<present, past, owner, live>>

SessionsOf(u) == {t \in DOMAIN owner : owner[t] = u}

Init ==
  /\ present = Standing /\ past = {}
  /\ owner = OpenedBy /\ live = DOMAIN OpenedBy

Create(u) ==
  /\ u \notin present \cup past
  /\ present' = present \cup {u}
  /\ UNCHANGED <<past, owner, live>>

Open(t, u) ==
  /\ t \notin DOMAIN owner /\ u \in present
  /\ owner' = [s \in DOMAIN owner \cup {t} |-> IF s = t THEN u ELSE owner[s]]
  /\ live' = live \cup {t}
  /\ UNCHANGED <<present, past>>

(* A refresh, before it opens another, or a log-out.                       *)
Close(t) ==
  /\ t \in live
  /\ live' = live \ {t}
  /\ UNCHANGED <<present, past, owner>>

(* A new password.                                                         *)
CloseAll(u) ==
  /\ live' = live \ SessionsOf(u)
  /\ UNCHANGED <<present, past, owner>>

Delete(u) ==
  /\ u \in present
  /\ present' = present \ {u} /\ past' = past \cup {u}
  /\ live' = live \ SessionsOf(u)
  /\ UNCHANGED owner

Next ==
  \/ \E u \in User : Create(u) \/ CloseAll(u) \/ Delete(u)
  \/ \E t \in Token : Close(t) \/ \E u \in User : Open(t, u)

Spec == Init /\ [][Next]_vars
=============================================================================
