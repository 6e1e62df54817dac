---------------------------- MODULE AuthSessions ----------------------------
(***************************************************************************)
(* Accounts and sessions: the handlers of services/auth-service and the    *)
(* administrator's handlers of services/user-service, which commit to the  *)
(* same tables from processes of their own (each service runs as several   *)
(* replicas), so their statements interleave.                              *)
(*                                                                         *)
(* A token is named by the request that makes it: a login or a refresh     *)
(* makes a session (a refresh token with its access token), forgot-password*)
(* makes a reset token.  An access token is a signed statement that no     *)
(* table holds: nothing but time ends it.  Whether a password is right is  *)
(* the request's choice, and whether a lifetime has run out is decided when*)
(* it is first looked at, and stays so.                                    *)
(***************************************************************************)
EXTENDS Naturals

CONSTANTS
  Request,      (* HTTP requests                                           *)
  User,         (* user_id values, never used twice                        *)
  Admin,        (* accounts whose role column says admin                   *)
  Email,        (* the address of each account                             *)
  Standing,     (* accounts that exist and are active at the start         *)
  OpenedBy,     (* logins answered before the start, with their account    *)
  AutoActivate, (* AUTO_ACTIVATE_USERS                                     *)
  NoToken       (* SQL NULL in reset_token                                 *)

Opened == DOMAIN OpenedBy

ASSUME AuthAssumption ==
  /\ Standing \subseteq User /\ Admin \subseteq User
  /\ Opened \subseteq Request
  /\ OpenedBy \in [Opened -> Standing]
  /\ \A u, v \in Standing : Email[u] = Email[v] => u = v
  /\ AutoActivate \in BOOLEAN
  /\ NoToken \notin Request

VARIABLES
  account,  (* the status of each account                                  *)
  token,    (* refresh_tokens: the row each login or refresh stored        *)
  reset,    (* users.reset_token                                           *)
  stale,    (* sessions whose access token has expired                     *)
  lapsed,   (* sessions and reset tokens that have expired                 *)
  op,       (* what a request asks for                                     *)
  user,     (* the account it is about                                     *)
  used,     (* the token it presents                                       *)
  pc,       (* where its handler is                                        *)
  resp,     (* its answer                                                  *)
  before    (* history: the account's live sessions when it arrived        *)

tables == <<account, token, reset>>
clock == <<stale, lapsed>>
request == <<op, user, used, before>>
vars == <<account, token, reset, stale, lapsed, op, user, used, pc, resp, before>>

Status == {"absent", "active", "inactive", "deleted"}
Op == {"none", "register", "login", "refresh", "logout", "change", "forgot",
       "reset", "status", "delete"}
Label == {"idle", "insert", "mint", "reply", "owner", "rotate", "revoke",
          "setpass", "clear", "revokeall", "setreset", "expire", "apply", "done"}
Reply == {"none", "ok", "refused", "error"}

Present(u) == account[u] \in {"active", "inactive"}
InFlight(r) == pc[r] \notin {"idle", "done"}
Answered(r, a) == pc[r] = "done" /\ resp[r] = a

(* Requests that make a session, and those that end all of an account's.   *)
Mints(r) == op[r] \in {"login", "refresh"}
EndsAll(r) == op[r] \in {"change", "reset"}
LiveOf(u) == {t \in Request : token[t] = "live" /\ user[t] = u}
-----------------------------------------------------------------------------
Init ==
  /\ account = [u \in User |-> IF u \in Standing THEN "active" ELSE "absent"]
  /\ token = [t \in Request |-> IF t \in Opened THEN "live" ELSE "none"]
  /\ reset = [u \in User |-> NoToken]
  /\ stale = {} /\ lapsed = {}
  /\ op = [r \in Request |-> IF r \in Opened THEN "login" ELSE "none"]
  /\ user \in [Request -> User]
  /\ \A r \in Request : IF r \in Opened THEN user[r] = OpenedBy[r]
                                        ELSE user[r] = CHOOSE u \in User : TRUE
  /\ used = [r \in Request |-> NoToken]
  /\ pc = [r \in Request |-> IF r \in Opened THEN "done" ELSE "idle"]
  /\ resp = [r \in Request |-> IF r \in Opened THEN "ok" ELSE "none"]
  /\ before = [r \in Request |-> {}]

Goto(r, l) == pc' = [pc EXCEPT ![r] = l] /\ UNCHANGED resp

Answer(r, a) ==
  /\ pc' = [pc EXCEPT ![r] = "done"]
  /\ resp' = [resp EXCEPT ![r] = a]

(* A request arrives; its client holds the token it presents.              *)
Arrive(r, o, u, t) ==
  /\ pc[r] = "idle"
  /\ op' = [op EXCEPT ![r] = o]
  /\ user' = [user EXCEPT ![r] = u]
  /\ used' = [used EXCEPT ![r] = t]
  /\ before' = [before EXCEPT ![r] = LiveOf(u)]

Sessions == {t \in Request : Mints(t) /\ Answered(t, "ok")}
ResetTokens == {t \in Request : op[t] = "forgot" /\ Answered(t, "ok")}

(* verify_token_direct: an access token holds until it expires, whatever   *)
(* has become of its session or its account.                               *)
TokenHolds(t) == t \in Sessions \ stale

(* The middleware adds the role the account has now, if it has a row.      *)
Role(t) == IF Present(user[t]) /\ user[t] \in Admin THEN "admin" ELSE "public"

(* A protected path is served to any token that holds, without a look at   *)
(* the account's status.                                                   *)
Admitted(t) == TokenHolds(t)
-----------------------------------------------------------------------------
(* POST /register: UserService.create_user looks for the address, and for  *)
(* an address whose local part is the user name that is asked for, which   *)
(* may be anybody's, then inserts.                                         *)
Registered(u) == \E v \in User : Present(v) /\ Email[v] = Email[u]
NameTaken == \E v \in User : Present(v)

Register(r) == \E u \in User :
  /\ account[u] = "absent"
  /\ Arrive(r, "register", u, NoToken)
  /\ \/ ~Registered(u) /\ Goto(r, "insert")
     \/ (Registered(u) \/ NameTaken) /\ Answer(r, "refused")
  /\ UNCHANGED <<tables, clock>>

(* The unique constraint on users.email.                                   *)
AddressTaken(u) == \E v \in User \ {u} : Present(v) /\ Email[v] = Email[u]

(* AUTO_ACTIVATE_USERS decides; pending, suspended and inactive accounts   *)
(* are all inactive here.                                                  *)
FirstStatus == IF AutoActivate THEN "active" ELSE "inactive"

Insert(r) ==
  /\ pc[r] = "insert"
  /\ IF AddressTaken(user[r]) \/ account[user[r]] # "absent"
       THEN Answer(r, "refused") /\ UNCHANGED account
       ELSE /\ account' = [account EXCEPT ![user[r]] = FirstStatus]
            /\ Answer(r, "ok")
  /\ UNCHANGED <<token, reset, clock, request>>
-----------------------------------------------------------------------------
(* authenticate_user refuses an account that is missing or not active.     *)
Authenticates(u) == account[u] = "active"

(* POST /login: authenticate_user, then the tokens.                        *)
Login(r) == \E u \in User :
  /\ Arrive(r, "login", u, NoToken)
  /\ \/ Authenticates(u) /\ Goto(r, "mint")
     \/ Answer(r, "refused")                 (* unknown, inactive, password *)
  /\ UNCHANGED <<tables, clock>>

(* Fault: rows of refresh_tokens may have no account.                      *)
MintAnyway(r) == TRUE
(* refresh_tokens.user_id references users: the account must still exist.  *)
MayStore(r) == Present(user[r])

(* generate_refresh_token: insert and commit.                              *)
Mint(r) ==
  /\ pc[r] = "mint"
  /\ IF MayStore(r)
       THEN token' = [token EXCEPT ![r] = "live"] /\ Goto(r, "reply")
       ELSE UNCHANGED token /\ Answer(r, "error")
  /\ UNCHANGED <<account, reset, clock, request>>

(* The rows a commit has expired are read again to build the answer.       *)
SendTokens(r) ==
  /\ pc[r] = "reply"
  /\ Answer(r, IF Present(user[r]) THEN "ok" ELSE "error")
  /\ UNCHANGED <<tables, clock, request>>
-----------------------------------------------------------------------------
(* verify_refresh_token: a row that is live, and a lifetime not known over.*)
Verifies(t) == token[t] = "live" /\ t \notin lapsed

(* POST /refresh.                                                          *)
Refresh(r) == \E t \in Sessions :
  /\ Arrive(r, "refresh", user[t], t)
  /\ \/ /\ Verifies(t)
        /\ Goto(r, "owner")
        /\ UNCHANGED clock
     \/ /\ token[t] # "live"
        /\ Answer(r, "refused")
        /\ UNCHANGED clock
     \/ /\ token[t] = "live"
        /\ lapsed' = lapsed \cup {t} /\ stale' = stale \cup {t}
        /\ Answer(r, "refused")
  /\ UNCHANGED tables

(* refresh_access_token reads the account after the token.                 *)
RefreshOwner(r) ==
  /\ pc[r] = "owner"
  /\ IF account[user[r]] = "active" THEN Goto(r, "rotate") ELSE Answer(r, "refused")
  /\ UNCHANGED <<tables, clock, request>>

(* The row read as valid is revoked and committed, in whatever state the   *)
(* table has it by now; a row deleted meanwhile is a StaleDataError.       *)
Rotate(r) ==
  /\ pc[r] = "rotate"
  /\ IF token[used[r]] = "gone"
       THEN UNCHANGED token /\ Answer(r, "error")
       ELSE token' = [token EXCEPT ![used[r]] = "revoked"] /\ Goto(r, "mint")
  /\ UNCHANGED <<account, reset, clock, request>>
-----------------------------------------------------------------------------
(* POST /logout: an unknown token is no error.                             *)
Logout(r) == \E t \in Sessions :
  /\ Arrive(r, "logout", user[t], t)
  /\ IF token[t] = "gone" THEN Answer(r, "ok") ELSE Goto(r, "revoke")
  /\ UNCHANGED <<tables, clock>>

Revoke(r) ==
  /\ pc[r] = "revoke"
  /\ IF token[used[r]] = "gone"
       THEN UNCHANGED token /\ Answer(r, "error")
       ELSE token' = [token EXCEPT ![used[r]] = "revoked"] /\ Answer(r, "ok")
  /\ UNCHANGED <<account, reset, clock, request>>
-----------------------------------------------------------------------------
(* POST /change-password: the middleware asks only that the access token   *)
(* holds; the handler finds the account and compares the old password.     *)
ChangePassword(r) == \E t \in Sessions :
  /\ Arrive(r, "change", user[t], t)
  /\ \/ Admitted(t) /\ Present(user[t]) /\ Goto(r, "setpass") /\ UNCHANGED clock
     \/ Answer(r, "refused") /\ UNCHANGED clock
     \/ Answer(r, "refused") /\ stale' = stale \cup {t} /\ UNCHANGED lapsed
  /\ UNCHANGED tables

(* update_password: a bad password, a database error or a deleted account  *)
(* all come back as an error message.                                      *)
SetPassword(r) ==
  /\ pc[r] = "setpass"
  /\ \/ Present(user[r]) /\ Goto(r, IF op[r] = "reset" THEN "clear" ELSE "revokeall")
     \/ Answer(r, "refused")
  /\ UNCHANGED <<tables, clock, request>>

(* Fault: every account's tokens are revoked.                              *)
RevokeEveryone(r, t) == token[t] = "live"
(* Fault: only the session that asks is ended.                             *)
RevokeOne(r, t) == t = used[r] /\ token[t] = "live"
(* Fault: the session that asks is spared.                                 *)
RevokeOthers(r, t) == t # used[r] /\ token[t] = "live" /\ user[t] = user[r]
(* revoke_all_user_tokens: the rows its one UPDATE matches.                *)
RevokedBy(r, t) == token[t] = "live" /\ user[t] = user[r]

(* Sessions that are stored afterwards, by requests under way, are not     *)
(* reached.  The account is read again for its id, and may be gone; the    *)
(* answer may be lost after the commit.  What goes wrong in the database is*)
(* raised; revoke_all_user_tokens returns False, which the routes ignore,  *)
(* only for exceptions that its update and its commit do not raise.        *)
RevokeAll(r) ==
  /\ pc[r] = "revokeall"
  /\ token' = [t \in Request |-> IF RevokedBy(r, t) THEN "revoked" ELSE token[t]]
  /\ \E a \in {"ok", "error"} : Answer(r, a)
  /\ UNCHANGED <<account, reset, clock, request>>
-----------------------------------------------------------------------------
(* POST /forgot-password: always the same answer, known address or not.    *)
ForgotPassword(r) == \E u \in User :
  /\ Arrive(r, "forgot", u, NoToken)
  /\ IF Present(u) THEN Goto(r, "setreset") ELSE Answer(r, "ok")
  /\ UNCHANGED <<tables, clock>>

(* set_reset_token: a failure is logged and answered like a success.       *)
SetReset(r) ==
  /\ pc[r] = "setreset"
  /\ \/ Present(user[r]) /\ reset' = [reset EXCEPT ![user[r]] = r]
     \/ UNCHANGED reset
  /\ Answer(r, "ok")
  /\ UNCHANGED <<account, token, clock, request>>

(* POST /reset-password: the account whose column holds the token.         *)
ResetPassword(r) == \E t \in ResetTokens :
  /\ Arrive(r, "reset", user[t], t)
  /\ \/ /\ reset[user[t]] = t /\ t \notin lapsed
        /\ Goto(r, "setpass")
        /\ UNCHANGED clock
     \/ /\ reset[user[t]] = t
        /\ lapsed' = lapsed \cup {t} /\ UNCHANGED stale
        /\ Goto(r, "expire")
     \/ /\ reset[user[t]] # t
        /\ Answer(r, "refused")
        /\ UNCHANGED clock
  /\ UNCHANGED tables

(* clear_reset_token sets the column to NULL whatever it holds by now; its *)
(* failures are swallowed.                                                 *)
ClearToken(r) == reset' = [reset EXCEPT ![user[r]] = NoToken] \/ UNCHANGED reset

ClearReset(r) ==
  /\ pc[r] \in {"clear", "expire"}
  /\ ClearToken(r)
  /\ IF pc[r] = "clear" THEN Goto(r, "revokeall") ELSE Answer(r, "refused")
  /\ UNCHANGED <<account, token, clock, request>>
-----------------------------------------------------------------------------
(* GET or POST /verify-token answers with what the middleware made of the  *)
(* token: nothing of one that does not hold.                               *)
Verified(t) == IF Admitted(t) THEN Role(t) ELSE "nobody"

(* user-service, PUT and DELETE /v1/users/{id}.  Its validate_token asks   *)
(* auth-service.                                                           *)
MayAdminister(t) == Verified(t) = "admin"

Administer(r) == \E t \in Sessions, u \in User, o \in {"status", "delete"} :
  /\ Arrive(r, o, u, t)
  /\ \/ /\ MayAdminister(t)
        /\ o = "delete" => u # user[t]
        /\ Goto(r, "apply")
        /\ UNCHANGED clock
     \/ Answer(r, "refused") /\ UNCHANGED clock
     \/ Answer(r, "refused") /\ stale' = stale \cup {t} /\ UNCHANGED lapsed
  /\ UNCHANGED tables

(* update_user: the sessions of a suspended account are left as they are.  *)
SetStatus(r) ==
  /\ pc[r] = "apply" /\ op[r] = "status"
  /\ IF Present(user[r])
       THEN /\ \E s \in {"active", "inactive"} :
                 account' = [account EXCEPT ![user[r]] = s]
            /\ Answer(r, "ok")
       ELSE Answer(r, "refused") /\ UNCHANGED account
  /\ UNCHANGED <<token, reset, clock, request>>

(* ON DELETE CASCADE on refresh_tokens.user_id.                            *)
Cascade(u) ==
  [t \in Request |-> IF token[t] # "none" /\ user[t] = u THEN "gone" ELSE token[t]]

DeleteUser(r) ==
  /\ pc[r] = "apply" /\ op[r] = "delete"
  /\ IF Present(user[r])
       THEN /\ account' = [account EXCEPT ![user[r]] = "deleted"]
            /\ token' = Cascade(user[r])
            /\ reset' = [reset EXCEPT ![user[r]] = NoToken]
            /\ Answer(r, "ok")
       ELSE Answer(r, "refused") /\ UNCHANGED tables
  /\ UNCHANGED <<clock, request>>
-----------------------------------------------------------------------------
(* A database error, or the end of the process, between two commits.       *)
Fail(r) ==
  /\ InFlight(r)
  /\ Answer(r, "error")
  /\ UNCHANGED <<tables, clock, request>>

Step(r) ==
  \/ Register(r) \/ Insert(r)
  \/ Login(r) \/ Mint(r) \/ SendTokens(r)
  \/ Refresh(r) \/ RefreshOwner(r) \/ Rotate(r)
  \/ Logout(r) \/ Revoke(r)
  \/ ChangePassword(r) \/ SetPassword(r) \/ RevokeAll(r)
  \/ ForgotPassword(r) \/ SetReset(r) \/ ResetPassword(r) \/ ClearReset(r)
  \/ Administer(r) \/ SetStatus(r) \/ DeleteUser(r)
  \/ Fail(r)

Next == \E r \in Request : Step(r)
Spec == Init /\ [][Next]_vars
-----------------------------------------------------------------------------
TypeOK ==
  /\ account \in [User -> Status]
  /\ token \in [Request -> {"none", "live", "revoked", "gone"}]
  /\ reset \in [User -> Request \cup {NoToken}]
  /\ stale \subseteq Request /\ lapsed \subseteq Request
  /\ op \in [Request -> Op]
  /\ user \in [Request -> User]
  /\ used \in [Request -> Request \cup {NoToken}]
  /\ pc \in [Request -> Label]
  /\ resp \in [Request -> Reply]
  /\ before \in [Request -> SUBSET Request]

(* A password change or reset that is answered "ok" has ended every session*)
(* the account had when the request arrived, whatever logins, refreshes,   *)
(* logouts and deletions ran meanwhile: revoke_all_user_tokens.            *)
ChangeEndsSessions ==
  \A r \in Request :
    EndsAll(r) /\ Answered(r, "ok") => \A t \in before[r] : token[t] # "live"

(* Why the client of session t may find it ended.                          *)
LossExplained(t) ==
  \/ \E r \in Request : op[r] \in {"refresh", "logout"} /\ used[r] = t
  \/ \E r \in Request : EndsAll(r) /\ user[r] = user[t]
  \/ account[user[t]] = "deleted"
(* A session that has been handed out ends only because its own token was  *)
(* presented to /refresh or /logout, because its account's password was    *)
(* changed or reset, or because its account was deleted: no request about  *)
(* another account or another session takes it away.                       *)
NoSessionLost ==
  \A t \in Request : token[t] \in {"revoked", "gone"} => LossExplained(t)

(* No session outlives its account, and no two accounts have one address:  *)
(* what look-ups by address and by token rely on.                          *)
SessionsHaveAccounts ==
  /\ \A t \in Request : token[t] \in {"live", "revoked"} => Present(user[t])
  /\ \A u, v \in User :
       Present(u) /\ Present(v) /\ Email[u] = Email[v] => u = v
  /\ \A u \in User : reset[u] # NoToken => Present(u)

(* Sessions are opened for accounts that exist and end alone or with all   *)
(* of their account, at most once, whatever statements of two services     *)
(* come between those of a refresh, a new password or a deletion.          *)
Held == INSTANCE AccountSessions WITH
  Token <- Request,
  present <- {u \in User : Present(u)},
  past <- {u \in User : account[u] = "deleted"},
  owner <- [t \in {q \in Request : token[q] # "none"} |-> user[t]],
  live <- {t \in Request : token[t] = "live"}

SessionsFollowAccounts == Held!Spec
-----------------------------------------------------------------------------
(* What the proofs add: what a handler's place says of its request.        *)
PlaceInv == \A r \in Request :
  /\ pc[r] = "idle" => op[r] = "none"
  /\ pc[r] \in {"mint", "reply"} => Mints(r)
  /\ pc[r] \in {"owner", "rotate"} => op[r] = "refresh"
  /\ pc[r] = "revoke" => op[r] = "logout"
  /\ pc[r] \in {"setpass", "clear", "expire", "revokeall"} => EndsAll(r)
  /\ pc[r] = "insert" => op[r] = "register"
  /\ pc[r] = "setreset" => op[r] = "forgot"
  /\ pc[r] = "apply" => op[r] \in {"status", "delete"}

(* A session is stored late in its request, and is then there for good.    *)
StoredInv == \A t \in Request :
  /\ token[t] # "none" => pc[t] \in {"reply", "done"} /\ Mints(t)
  /\ pc[t] = "reply" \/ (Mints(t) /\ Answered(t, "ok")) => token[t] # "none"

(* What a request remembers of sessions stays true of them.                *)
MemoryInv == \A r \in Request :
  /\ \A t \in before[r] : user[t] = user[r] /\ token[t] # "none"
  /\ op[r] \in {"refresh", "logout"} =>
       used[r] \in Request /\ token[used[r]] # "none"

IInv ==
  /\ TypeOK /\ ChangeEndsSessions /\ NoSessionLost /\ SessionsHaveAccounts
  /\ PlaceInv /\ StoredInv /\ MemoryInv
=============================================================================
