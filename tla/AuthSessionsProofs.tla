------------------------- MODULE AuthSessionsProofs -------------------------
(***************************************************************************)
(* Proofs about AuthSessions.  A step of a request changes nothing another *)
(* request remembers (StepLocal), and it changes the stored sessions in one*)
(* of four ways (TokenStep); every property follows from the two.  So does *)
(* that the handlers implement AccountSessions (StepRefines): each of the  *)
(* four ways is one of its actions, and any other step leaves the accounts *)
(* as they are, or creates one (AccountStep).                              *)
(***************************************************************************)
EXTENDS AuthSessions, TLAPS

(* The initial state satisfies the invariant.                              *)
LEMMA InitIInv == Init => IInv
<1> SUFFICES ASSUME Init PROVE IInv
  OBVIOUS
<1> USE AuthAssumption
<1>1. TypeOK
  BY DEF Init, TypeOK, Status, Op, Label, Reply
<1>2. PlaceInv /\ StoredInv /\ MemoryInv
  BY DEF Init, PlaceInv, StoredInv, MemoryInv, Mints, EndsAll, Answered
<1>3. ChangeEndsSessions /\ NoSessionLost
  BY DEF Init, ChangeEndsSessions, NoSessionLost, EndsAll, Answered
<1>4. SessionsHaveAccounts
  BY DEF Init, SessionsHaveAccounts, Present
<1> QED  BY <1>1, <1>2, <1>3, <1>4 DEF IInv

(* A handler is at a place it has, or gives an answer it can give.         *)
Moves(r) ==
  (\E l \in Label \ {"idle"} : Goto(r, l)) \/ (\E a \in Reply : Answer(r, a))

(* Labels and answers keep their types.                                    *)
LEMMA MoveTypes ==
  ASSUME TypeOK, NEW r \in Request, Moves(r)
  PROVE  pc' \in [Request -> Label] /\ resp' \in [Request -> Reply]
<1>1. "done" \in Label
  BY DEF Label
<1> QED  BY <1>1 DEF TypeOK, Moves, Goto, Answer

(* What an arrival records has its type.                                   *)
LEMMA ArriveTypes ==
  ASSUME TypeOK, NEW r \in Request, NEW o \in Op, NEW u \in User,
         NEW t \in Request \cup {NoToken}, Arrive(r, o, u, t)
  PROVE  /\ op' \in [Request -> Op] /\ user' \in [Request -> User]
         /\ used' \in [Request -> Request \cup {NoToken}]
         /\ before' \in [Request -> SUBSET Request]
<1>1. LiveOf(u) \in SUBSET Request
  BY DEF LiveOf
<1> QED  BY <1>1 DEF TypeOK, Arrive

(* What an arriving request does to the state's types.                     *)
Arrives(r) ==
  /\ \E o \in Op, u \in User, t \in Request \cup {NoToken} : Arrive(r, o, u, t)
  /\ Moves(r)
  /\ UNCHANGED tables /\ stale' \subseteq Request /\ lapsed' \subseteq Request

(* The first steps of requests are arrivals.                               *)
LEMMA ArrivalArrives ==
  ASSUME TypeOK, NEW r \in Request,
         \/ Register(r) \/ Login(r) \/ Refresh(r) \/ Logout(r) \/ ChangePassword(r)
         \/ ForgotPassword(r) \/ ResetPassword(r) \/ Administer(r)
  PROVE  Arrives(r)
<1> USE DEF Arrives, Moves, Label, Reply, Op, TypeOK, clock
<1>1. CASE Register(r)
  BY <1>1 DEF Register
<1>2. CASE Login(r)
  BY <1>2 DEF Login
<1>3. CASE Refresh(r)
  BY <1>3 DEF Refresh, Sessions
<1>4. CASE Logout(r)
  BY <1>4 DEF Logout, Sessions
<1>5. CASE ChangePassword(r)
  BY <1>5 DEF ChangePassword, Sessions
<1>6. CASE ForgotPassword(r)
  BY <1>6 DEF ForgotPassword
<1>7. CASE ResetPassword(r)
  BY <1>7 DEF ResetPassword, ResetTokens
<1>8. CASE Administer(r)
  BY <1>8 DEF Administer, Sessions
<1> QED  BY <1>1, <1>2, <1>3, <1>4, <1>5, <1>6, <1>7, <1>8

(* What a later step of a request does to the state's types.               *)
Proceeds(r) ==
  /\ pc[r] \notin {"idle", "done"} /\ UNCHANGED <<request, clock>>
  /\ Moves(r)
  /\ account' \in [User -> Status]
  /\ token' \in [Request -> {"none", "live", "revoked", "gone"}]
  /\ reset' \in [User -> Request \cup {NoToken}]

(* Their later steps are not.                                              *)
LEMMA LaterProceeds ==
  ASSUME TypeOK, NEW r \in Request,
         \/ Insert(r) \/ Mint(r) \/ SendTokens(r) \/ RefreshOwner(r) \/ Rotate(r)
         \/ Revoke(r) \/ SetPassword(r) \/ RevokeAll(r) \/ SetReset(r)
         \/ ClearReset(r) \/ SetStatus(r) \/ DeleteUser(r) \/ Fail(r)
  PROVE  Proceeds(r)
<1> USE DEF Proceeds, Moves, Label, Reply, TypeOK, tables, Status
<1>1. CASE Insert(r)
  BY <1>1 DEF Insert, FirstStatus
<1>2. CASE Mint(r) \/ SendTokens(r)
  BY <1>2 DEF Mint, SendTokens
<1>3. CASE RefreshOwner(r) \/ Rotate(r) \/ Revoke(r)
  BY <1>3 DEF RefreshOwner, Rotate, Revoke
<1>4. CASE SetPassword(r)
  BY <1>4 DEF SetPassword
<1>5. CASE RevokeAll(r)
  BY <1>5 DEF RevokeAll
<1>6. CASE SetReset(r) \/ ClearReset(r)
  BY <1>6 DEF SetReset, ClearReset, ClearToken
<1>7. CASE SetStatus(r)
  BY <1>7 DEF SetStatus
<1>8. CASE DeleteUser(r)
  BY <1>8 DEF DeleteUser, Cascade
<1>9. CASE Fail(r)
  BY <1>9 DEF Fail, InFlight
<1> QED  BY <1>1, <1>2, <1>3, <1>4, <1>5, <1>6, <1>7, <1>8, <1>9

(* Every step is one or the other.                                         *)
LEMMA StepKinds ==
  ASSUME TypeOK, NEW r \in Request, Step(r)
  PROVE  Arrives(r) \/ Proceeds(r)
BY ArrivalArrives, LaterProceeds DEF Step

(* Every step keeps the types.                                             *)
LEMMA StepTypeOK ==
  ASSUME TypeOK, NEW r \in Request, Step(r)
  PROVE  TypeOK'
<1>1. Moves(r)
  BY StepKinds DEF Arrives, Proceeds
<1>2. pc' \in [Request -> Label] /\ resp' \in [Request -> Reply]
  BY <1>1, MoveTypes
<1>3. CASE Arrives(r)
  <2>1. /\ op' \in [Request -> Op] /\ user' \in [Request -> User]
        /\ used' \in [Request -> Request \cup {NoToken}]
        /\ before' \in [Request -> SUBSET Request]
    <3>1. PICK o \in Op, u \in User, t \in Request \cup {NoToken} : Arrive(r, o, u, t)
      BY <1>3 DEF Arrives
    <3> QED  BY <3>1, ArriveTypes
  <2> QED  BY <1>2, <1>3, <2>1 DEF TypeOK, Arrives, tables
<1>4. CASE Proceeds(r)
  BY <1>2, <1>4 DEF TypeOK, Proceeds, request, clock
<1> QED  BY <1>3, <1>4, StepKinds

(* What a request asks is fixed when it arrives, and no step of another    *)
(* request touches it.                                                     *)
Local(r) ==
  /\ pc[r] # "done" /\ pc'[r] # "idle"
  /\ \A q \in Request : q # r =>
       /\ pc'[q] = pc[q] /\ resp'[q] = resp[q] /\ op'[q] = op[q]
       /\ user'[q] = user[q] /\ used'[q] = used[q] /\ before'[q] = before[q]
  /\ pc[r] # "idle" => UNCHANGED request

(* A step leaves alone what other requests remember.                       *)
LEMMA StepLocal ==
  ASSUME TypeOK, NEW r \in Request, Step(r)
  PROVE  Local(r)
<1> USE DEF TypeOK, Local
<1>1. CASE Arrives(r)
  <2>1. PICK o \in Op, u \in User, t \in Request \cup {NoToken} : Arrive(r, o, u, t)
    BY <1>1 DEF Arrives
  <2>2. pc[r] = "idle" /\ pc'[r] # "idle"
    BY <1>1, <2>1 DEF Arrives, Moves, Goto, Answer, Arrive
  <2>3. \A q \in Request : q # r => pc'[q] = pc[q] /\ resp'[q] = resp[q]
    BY <1>1 DEF Arrives, Moves, Goto, Answer
  <2> QED  BY <2>1, <2>2, <2>3 DEF Arrive
<1>2. CASE Proceeds(r)
  <2>1. pc'[r] # "idle"
    BY <1>2 DEF Proceeds, Moves, Goto, Answer
  <2>2. \A q \in Request : q # r => pc'[q] = pc[q] /\ resp'[q] = resp[q]
    BY <1>2 DEF Proceeds, Moves, Goto, Answer
  <2> QED  BY <1>2, <2>1, <2>2 DEF Proceeds, request
<1> QED  BY <1>1, <1>2, StepKinds

(* The four ways a step changes the stored sessions.                       *)
Kept == UNCHANGED <<account, reset, request>>
Stores(r) ==
  /\ pc[r] = "mint" /\ pc'[r] = "reply" /\ Present(user[r]) /\ Kept
  /\ token' = [token EXCEPT ![r] = "live"]
Spends(r) ==
  /\ op[r] \in {"refresh", "logout"} /\ pc[r] \in {"rotate", "revoke"} /\ Kept
  /\ token[used[r]] # "gone" /\ token' = [token EXCEPT ![used[r]] = "revoked"]
Ends(r) ==
  /\ pc[r] = "revokeall" /\ pc'[r] = "done" /\ Kept
  /\ token' = [t \in Request |-> IF RevokedBy(r, t) THEN "revoked" ELSE token[t]]
Deletes(r) ==
  /\ pc[r] = "apply" /\ op[r] = "delete" /\ pc'[r] = "done" /\ UNCHANGED request
  /\ Present(user[r])
  /\ account' = [account EXCEPT ![user[r]] = "deleted"]
  /\ token' = Cascade(user[r])
  /\ reset' = [reset EXCEPT ![user[r]] = NoToken]

(* A step stores a session, ends one or all of an account's, or deletes    *)
(* them with it.                                                           *)
LEMMA TokenStep ==
  ASSUME TypeOK, PlaceInv, NEW r \in Request, Step(r)
  PROVE  /\ Stores(r) \/ Spends(r) \/ Ends(r) \/ Deletes(r) \/ UNCHANGED token
         /\ pc[r] = "mint" /\ pc'[r] = "reply" => Stores(r)
<1> USE DEF PlaceInv, TypeOK, Goto, Answer
<1>1. CASE Arrives(r)
  BY <1>1 DEF Arrives, Arrive, tables
<1>2. CASE \/ Insert(r) \/ SendTokens(r) \/ RefreshOwner(r) \/ SetPassword(r)
           \/ SetReset(r) \/ ClearReset(r) \/ SetStatus(r) \/ Fail(r)
  BY <1>2 DEF Insert, SendTokens, RefreshOwner, SetPassword, SetReset, ClearReset,
       SetStatus, Fail, tables
<1>3. CASE Mint(r)
  BY <1>3 DEF Mint, MayStore, Stores, Kept, request
<1>4. CASE Rotate(r) \/ Revoke(r)
  BY <1>4 DEF Rotate, Revoke, Spends, Kept, request
<1>5. CASE RevokeAll(r)
  BY <1>5 DEF RevokeAll, Ends, Kept, request
<1>6. CASE DeleteUser(r)
  BY <1>6 DEF DeleteUser, Deletes, request, tables
<1> QED
  BY <1>1, <1>2, <1>3, <1>4, <1>5, <1>6, ArrivalArrives DEF Step

(* A stored session is there for good, and none comes back to life.        *)
LEMMA TokensAge ==
  ASSUME TypeOK, StoredInv, PlaceInv, MemoryInv, NEW r \in Request, Step(r),
         NEW t \in Request
  PROVE  /\ token[t] # "none" => token'[t] # "none"
         /\ token'[t] # "none" => token[t] # "none" \/ (t = r /\ Stores(r))
         /\ token'[t] = "live" => token[t] = "live" \/ (t = r /\ Stores(r))
<1> USE DEF TypeOK
<1>1. CASE Stores(r)
  BY <1>1 DEF Stores
<1>2. CASE Spends(r)
  <2>1. used[r] \in Request /\ token[used[r]] # "none"
    BY <1>2 DEF Spends, MemoryInv
  <2> QED  BY <1>2, <2>1 DEF Spends
<1>3. CASE Ends(r)
  BY <1>3 DEF Ends, RevokedBy
<1>4. CASE Deletes(r)
  BY <1>4 DEF Deletes, Cascade
<1>5. CASE UNCHANGED token
  BY <1>5
<1> QED  BY <1>1, <1>2, <1>3, <1>4, <1>5, TokenStep

(* Only revoke_all_user_tokens lets a change or a reset answer "ok".       *)
LEMMA EndsAnswers ==
  ASSUME TypeOK, PlaceInv, NEW r \in Request, Step(r),
         EndsAll(r)', Answered(r, "ok")'
  PROVE  Ends(r)
<1> USE DEF TypeOK, PlaceInv, EndsAll, Answered, Goto, Answer
<1>1. CASE Arrives(r)
  BY ZenonT(60), <1>1 DEF Step, Arrives, Arrive, Register, Insert, Login, Mint, SendTokens, Refresh,
       RefreshOwner, Rotate, Logout, Revoke, ChangePassword, SetPassword, RevokeAll,
       ForgotPassword, SetReset, ResetPassword, ClearReset, Administer, SetStatus,
       DeleteUser, Fail, InFlight
<1>2. CASE RevokeAll(r)
  BY <1>2 DEF RevokeAll, Ends, Kept, request
<1>3. CASE Insert(r) \/ Mint(r) \/ SendTokens(r) \/ RefreshOwner(r) \/ Rotate(r) \/ Revoke(r)
  BY <1>3 DEF Insert, Mint, SendTokens, RefreshOwner, Rotate, Revoke, request, Mints
<1>4. CASE SetPassword(r) \/ SetReset(r) \/ ClearReset(r) \/ Fail(r)
  BY <1>4 DEF SetPassword, SetReset, ClearReset, Fail, request
<1>5. CASE SetStatus(r) \/ DeleteUser(r)
  BY <1>5 DEF SetStatus, DeleteUser, request
<1> QED  BY <1>1, <1>2, <1>3, <1>4, <1>5, ArrivalArrives DEF Step

(* Where a handler goes next fits what its request asks.                   *)
LEMMA StepPlace ==
  ASSUME TypeOK, PlaceInv, NEW r \in Request, Step(r)
  PROVE  PlaceInv'
<1> USE DEF TypeOK, Goto, Answer, Mints, EndsAll
<1>1. Local(r)
  BY StepLocal
<1>2. ASSUME NEW q \in Request, q # r
      PROVE  /\ pc'[q] = pc[q] /\ op'[q] = op[q]
             /\ Mints(q)' = Mints(q) /\ EndsAll(q)' = EndsAll(q)
  BY <1>1, <1>2 DEF Local
<1>3. CASE Arrives(r)
  <2>1. PICK o \in Op, u \in User, t \in Request \cup {NoToken} : Arrive(r, o, u, t)
    BY <1>3 DEF Arrives
  <2>2. pc[r] = "idle" /\ op'[r] = o
    BY <2>1 DEF Arrive
  <2>3. \/ pc'[r] = "done" \/ (pc'[r] = "insert" /\ o = "register")
        \/ (pc'[r] = "mint" /\ o = "login") \/ (pc'[r] = "owner" /\ o = "refresh")
        \/ (pc'[r] = "revoke" /\ o = "logout") \/ (pc'[r] = "setpass" /\ o \in {"change", "reset"})
        \/ (pc'[r] = "setreset" /\ o = "forgot") \/ (pc'[r] = "expire" /\ o = "reset")
        \/ (pc'[r] = "apply" /\ o \in {"status", "delete"})
    <3>1. CASE Register(r) \/ Login(r) \/ Refresh(r) \/ Logout(r)
      BY <2>2, <3>1 DEF Register, Login, Refresh, Logout, Arrive
    <3>2. CASE ChangePassword(r) \/ ForgotPassword(r) \/ ResetPassword(r) \/ Administer(r)
      BY <2>2, <3>2 DEF ChangePassword, ForgotPassword, ResetPassword, Administer, Arrive
    <3> QED
      BY <2>2, <3>1, <3>2 DEF Step, Insert, Mint, SendTokens, RefreshOwner, Rotate, Revoke,
         SetPassword, RevokeAll, SetReset, ClearReset, SetStatus, DeleteUser, Fail, InFlight
  <2> QED  BY <1>2, <2>2, <2>3 DEF PlaceInv
<1>4. CASE Proceeds(r)
  <2>1. op'[r] = op[r] /\ pc[r] # "idle"
    BY <1>4 DEF Proceeds, request
  <2>2. \/ pc'[r] = "done" \/ (pc'[r] = "reply" /\ pc[r] = "mint")
        \/ (pc'[r] = "rotate" /\ pc[r] = "owner") \/ (pc'[r] = "mint" /\ pc[r] = "rotate")
        \/ (pc'[r] \in {"clear", "revokeall"} /\ pc[r] \in {"setpass", "clear"})
    BY <2>1 DEF Step, Register, Insert, Login, Mint, SendTokens, Refresh, RefreshOwner,
       Rotate, Logout, Revoke, ChangePassword, SetPassword, RevokeAll, ForgotPassword,
       SetReset, ResetPassword, ClearReset, Administer, SetStatus, DeleteUser, Fail, Arrive
  <2> QED  BY <1>2, <2>1, <2>2 DEF PlaceInv
<1> QED  BY <1>3, <1>4, StepKinds

(* Sessions are stored late in their requests, and stay.                   *)
LEMMA StepStored ==
  ASSUME TypeOK, PlaceInv, StoredInv, MemoryInv, NEW r \in Request, Step(r)
  PROVE  StoredInv'
<1> SUFFICES ASSUME NEW t \in Request
    PROVE  /\ token'[t] # "none" => pc'[t] \in {"reply", "done"} /\ Mints(t)'
           /\ pc'[t] = "reply" \/ (Mints(t)' /\ Answered(t, "ok")') => token'[t] # "none"
  BY DEF StoredInv
<1>1. Local(r)
  BY StepLocal
<1>2. CASE t # r
  <2>1. /\ pc'[t] = pc[t] /\ Mints(t)' = Mints(t) /\ Answered(t, "ok")' = Answered(t, "ok")
    BY <1>1, <1>2 DEF Local, Mints, Answered
  <2> QED  BY <1>2, <2>1, TokensAge DEF StoredInv
<1>3. CASE t = r
  <2>1. CASE Stores(r)
    BY <1>3, <2>1 DEF Stores, Kept, request, PlaceInv, Mints, TypeOK, Answered
  <2>2. CASE ~Stores(r) /\ token[r] # "none"
    <3>1. pc[r] = "reply" /\ Mints(r)
      BY <1>1, <2>2 DEF StoredInv, Local
    <3>2. pc'[r] = "done" /\ Mints(r)'
      BY <1>1, <3>1 DEF Local, Mints, request, Step, Register, Insert, Login, Mint,
         SendTokens, Refresh, RefreshOwner, Rotate, Logout, Revoke, ChangePassword,
         SetPassword, RevokeAll, ForgotPassword, SetReset, ResetPassword, ClearReset,
         Administer, SetStatus, DeleteUser, Fail, Arrive, Goto, Answer, TypeOK
    <3> QED  BY <1>3, <2>2, <3>2, TokensAge
  <2>3. CASE ~Stores(r) /\ token[r] = "none"
    <3>1. token'[r] = "none"
      BY <2>3, TokensAge
    <3>2. pc[r] # "reply"
      BY <2>3 DEF StoredInv
    <3>3. pc'[r] # "reply"
      <4>1. CASE pc[r] = "mint"
        BY <2>3, <4>1, TokenStep
      <4>2. CASE pc[r] # "mint"
        <5>1. CASE \/ Register(r) \/ Login(r) \/ Refresh(r) \/ Logout(r)
                   \/ ChangePassword(r) \/ ForgotPassword(r) \/ ResetPassword(r) \/ Administer(r)
          BY <5>1 DEF Register, Login, Refresh, Logout, ChangePassword, ForgotPassword,
             ResetPassword, Administer, Goto, Answer, TypeOK
        <5>2. CASE Insert(r) \/ SendTokens(r) \/ RefreshOwner(r) \/ Rotate(r) \/ Revoke(r)
          BY <5>2 DEF Insert, SendTokens, RefreshOwner, Rotate, Revoke, Goto, Answer, TypeOK
        <5>3. CASE \/ SetPassword(r) \/ RevokeAll(r) \/ SetReset(r) \/ ClearReset(r)
                   \/ SetStatus(r) \/ DeleteUser(r) \/ Fail(r)
          BY <5>3 DEF SetPassword, RevokeAll, SetReset, ClearReset, SetStatus, DeleteUser,
             Fail, Goto, Answer, TypeOK
        <5> QED  BY <4>2, <5>1, <5>2, <5>3 DEF Step, Mint
      <4> QED  BY <4>1, <4>2
    <3>4. ~(Mints(r)' /\ Answered(r, "ok")')
      <4>1. CASE Arrives(r)
        BY ZenonT(60), <4>1 DEF Step, Arrives, Arrive, Register, Insert, Login, Mint, SendTokens, Refresh,
           RefreshOwner, Rotate, Logout, Revoke, ChangePassword, SetPassword, RevokeAll,
           ForgotPassword, SetReset, ResetPassword, ClearReset, Administer, SetStatus,
           DeleteUser, Fail, InFlight, Mints, Answered, Goto, Answer, TypeOK
      <4>2. CASE Insert(r) \/ Mint(r) \/ RefreshOwner(r) \/ Rotate(r) \/ Revoke(r)
        BY <4>2, <2>3 DEF Insert, Mint, MayStore, RefreshOwner, Rotate, Revoke, request, PlaceInv,
           Mints, Answered, Goto, Answer, TypeOK
      <4>3. CASE SetPassword(r) \/ RevokeAll(r) \/ SetReset(r) \/ ClearReset(r) \/ Fail(r)
        BY <4>3 DEF SetPassword, RevokeAll, SetReset, ClearReset, Fail, request, PlaceInv,
           EndsAll, Mints, Answered, Goto, Answer, TypeOK
      <4>4. CASE SetStatus(r) \/ DeleteUser(r)
        BY <4>4 DEF SetStatus, DeleteUser, request, PlaceInv, Mints, Answered, Goto, Answer, TypeOK
      <4>5. ~SendTokens(r)
        BY <3>2 DEF SendTokens
      <4> QED  BY <4>1, <4>2, <4>3, <4>4, <4>5, ArrivalArrives DEF Step
    <3> QED  BY <1>3, <3>1, <3>3, <3>4
  <2> QED  BY <2>1, <2>2, <2>3
<1> QED  BY <1>2, <1>3

(* What requests remember of sessions stays true.                          *)
LEMMA StepMemory ==
  ASSUME TypeOK, PlaceInv, StoredInv, MemoryInv, NEW r \in Request, Step(r)
  PROVE  MemoryInv'
<1>1. Local(r)
  BY StepLocal
<1>a. \A t \in Request : token[t] # "none" => t # r \/ pc[r] # "idle"
  BY DEF StoredInv
<1>b. \A t \in Request : token[t] # "none" => user'[t] = user[t] /\ token'[t] # "none"
  BY <1>1, <1>a, TokensAge DEF Local, request
<1>2. ASSUME NEW q \in Request, q # r \/ pc[r] # "idle"
      PROVE  /\ \A t \in before'[q] : user'[t] = user'[q] /\ token'[t] # "none"
             /\ op'[q] \in {"refresh", "logout"} =>
                  used'[q] \in Request /\ token'[used'[q]] # "none"
  <2>1. /\ before'[q] = before[q] /\ user'[q] = user[q]
        /\ op'[q] = op[q] /\ used'[q] = used[q]
    BY <1>1, <1>2 DEF Local, request
  <2>2. before[q] \subseteq Request
    BY DEF TypeOK
  <2> QED  BY <1>b, <2>1, <2>2 DEF MemoryInv
<1>3. ASSUME pc[r] = "idle"
      PROVE  /\ \A t \in before'[r] : user'[t] = user'[r] /\ token'[t] # "none"
             /\ op'[r] \in {"refresh", "logout"} =>
                  used'[r] \in Request /\ token'[used'[r]] # "none"
  <2>0. Arrives(r)
    BY <1>3, StepKinds DEF Proceeds
  <2>1. PICK o \in Op, u \in User, t \in Request \cup {NoToken} : Arrive(r, o, u, t)
    BY <2>0 DEF Arrives
  <2>2. before'[r] = LiveOf(u) /\ user'[r] = u /\ op'[r] = o /\ used'[r] = t
    BY <2>1 DEF Arrive, TypeOK
  <2>3. \A q \in LiveOf(u) : user'[q] = u /\ token'[q] # "none"
    BY <1>b DEF LiveOf
  <2>4. o \in {"refresh", "logout"} => t \in Sessions
    <3>1. Refresh(r) \/ Logout(r) => t \in Sessions
      BY <2>2 DEF Refresh, Logout, Arrive, TypeOK, Sessions
    <3>2. ~Refresh(r) /\ ~Logout(r) => o \notin {"refresh", "logout"}
      BY <1>3, <2>2 DEF Step, Register, Insert, Login, Mint, SendTokens, RefreshOwner,
         Rotate, Revoke, ChangePassword, SetPassword, RevokeAll, ForgotPassword, SetReset,
         ResetPassword, ClearReset, Administer, SetStatus, DeleteUser, Fail, InFlight,
         Arrive, TypeOK
    <3> QED  BY <3>1, <3>2
  <2>5. \A q \in Sessions : q \in Request /\ token[q] # "none"
    BY DEF Sessions, StoredInv
  <2> QED  BY <1>b, <2>2, <2>3, <2>4, <2>5
<1> QED  BY <1>2, <1>3 DEF MemoryInv

(* No step gives an ended session back.                                    *)
LEMMA StepEnds ==
  ASSUME IInv, NEW r \in Request, Step(r)
  PROVE  ChangeEndsSessions'
<1> USE DEF IInv
<1>1. Local(r)
  BY StepLocal
<1> SUFFICES ASSUME NEW q \in Request, EndsAll(q)', Answered(q, "ok")',
                    NEW t \in before'[q]
             PROVE  token'[t] # "live"
  BY DEF ChangeEndsSessions
<1>2. CASE q # r
  <2>1. before'[q] = before[q] /\ EndsAll(q) /\ Answered(q, "ok")
    BY <1>1, <1>2 DEF Local, EndsAll, Answered
  <2>2. t \in Request /\ token[t] # "live" /\ token[t] # "none"
    BY <2>1 DEF TypeOK, ChangeEndsSessions, MemoryInv
  <2>3. t = r => ~Stores(r)
    BY <2>2 DEF StoredInv, Stores
  <2> QED  BY <2>2, <2>3, TokensAge
<1>3. CASE q = r
  <2>1. Ends(r)
    BY <1>3, EndsAnswers
  <2>2. before'[r] = before[r] /\ t \in before[r]
    BY <1>3, <2>1 DEF Ends, Kept, request
  <2>3. t \in Request /\ user[t] = user[r]
    BY <2>2 DEF TypeOK, MemoryInv
  <2> QED  BY <2>1, <2>3 DEF Ends, RevokedBy
<1> QED  BY <1>2, <1>3

(* No step ends a session without a reason.                                *)
LEMMA StepLost ==
  ASSUME IInv, NEW r \in Request, Step(r)
  PROVE  NoSessionLost'
<1> USE DEF IInv
<1>1. Local(r)
  BY StepLocal
<1> SUFFICES ASSUME NEW t \in Request, token'[t] \in {"revoked", "gone"}
             PROVE  LossExplained(t)'
  BY DEF NoSessionLost
<1>2. token[t] # "none"
  BY TokensAge DEF Stores, TypeOK
<1>3. user'[t] = user[t]
  BY <1>1, <1>2 DEF Local, request, StoredInv
<1>4. ASSUME NEW q \in Request, op[q] # "none"
      PROVE  op'[q] = op[q] /\ used'[q] = used[q] /\ user'[q] = user[q]
  BY <1>1, <1>4 DEF Local, request, PlaceInv
<1>5. \A u \in User : account[u] = "deleted" => account'[u] = "deleted"
  <2>1. CASE Arrives(r)
    BY <2>1 DEF Arrives, tables
  <2>2. CASE Proceeds(r)
    BY <2>2 DEF Step, Register, Insert, Login, Mint, SendTokens, Refresh, RefreshOwner,
       Rotate, Logout, Revoke, ChangePassword, SetPassword, RevokeAll, ForgotPassword,
       SetReset, ResetPassword, ClearReset, Administer, SetStatus, DeleteUser, Fail,
       Arrive, Proceeds, tables, Present, TypeOK
  <2> QED  BY <2>1, <2>2, StepKinds
<1>6. CASE LossExplained(t)
  <2>1. CASE \E q \in Request : op[q] \in {"refresh", "logout"} /\ used[q] = t
    BY <1>4, <2>1 DEF LossExplained
  <2>2. CASE \E q \in Request : EndsAll(q) /\ user[q] = user[t]
    BY <1>3, <1>4, <2>2 DEF LossExplained, EndsAll
  <2>3. CASE account[user[t]] = "deleted"
    BY <1>3, <1>5, <2>3 DEF LossExplained, TypeOK
  <2> QED  BY <1>6, <2>1, <2>2, <2>3 DEF LossExplained
<1>7. CASE ~LossExplained(t)
  <2>1. token[t] = "live"
    BY <1>2, <1>7 DEF NoSessionLost, TypeOK
  <2>2. CASE Stores(r)
    BY <2>1, <2>2 DEF Stores, TypeOK
  <2>3. CASE Spends(r)
    <3>1. used[r] = t
      BY <2>1, <2>3 DEF Spends, TypeOK, MemoryInv
    <3> QED  BY <2>3, <3>1, <1>7 DEF Spends, LossExplained
  <2>4. CASE Ends(r)
    <3>1. RevokedBy(r, t) /\ EndsAll(r)
      BY <2>1, <2>4 DEF Ends, PlaceInv
    <3> QED  BY <3>1, <1>7 DEF RevokedBy, LossExplained
  <2>5. CASE Deletes(r)
    <3>1. user[t] = user[r]
      BY <2>1, <2>5 DEF Deletes, Cascade
    <3> QED  BY <1>3, <2>5, <3>1 DEF Deletes, LossExplained, TypeOK
  <2> QED  BY <2>1, <2>2, <2>3, <2>4, <2>5, TokenStep
<1> QED  BY <1>6, <1>7

(* No step leaves a session without its account, or takes an address       *)
(* twice.                                                                  *)
LEMMA StepAccounts ==
  ASSUME IInv, NEW r \in Request, Step(r)
  PROVE  SessionsHaveAccounts'
<1> USE DEF IInv
<1>1. Local(r)
  BY StepLocal
<1>2. CASE Deletes(r)
  <2>1. \A u \in User : Present(u)' <=> Present(u) /\ u # user[r]
    BY <1>2 DEF Deletes, Present, TypeOK
  <2>2. \A t \in Request : token'[t] \in {"live", "revoked"} =>
          token[t] = token'[t] /\ user[t] # user[r] /\ user'[t] = user[t] /\ user[t] \in User
    BY <1>2 DEF Deletes, Cascade, TypeOK, request
  <2>3. \A u \in User : reset'[u] # NoToken => reset[u] = reset'[u] /\ u # user[r]
    BY <1>2 DEF Deletes, TypeOK
  <2> QED  BY <2>1, <2>2, <2>3 DEF SessionsHaveAccounts
<1>3. CASE ~Deletes(r)
  <2>1. \A u \in User : Present(u) => Present(u)'
    <3>1. CASE Arrives(r)
      BY <3>1 DEF Arrives, tables, Present
    <3>2. CASE Proceeds(r)
      BY <1>3, <3>2 DEF Step, Register, Insert, Login, Mint, SendTokens, Refresh,
         RefreshOwner, Rotate, Logout, Revoke, ChangePassword, SetPassword, RevokeAll,
         ForgotPassword, SetReset, ResetPassword, ClearReset, Administer, SetStatus,
         DeleteUser, Fail, Arrive, Proceeds, tables, Present, TypeOK, Deletes, request,
         Goto, Answer
    <3> QED  BY <3>1, <3>2, StepKinds
  <2>2. \A u \in User : Present(u)' => Present(u) \/ (u = user[r] /\ ~AddressTaken(u))
    <3>1. CASE Arrives(r)
      BY <3>1 DEF Arrives, tables, Present
    <3>2. CASE Proceeds(r)
      BY <3>2 DEF Step, Register, Insert, Login, Mint, SendTokens, Refresh,
         RefreshOwner, Rotate, Logout, Revoke, ChangePassword, SetPassword, RevokeAll,
         ForgotPassword, SetReset, ResetPassword, ClearReset, Administer, SetStatus,
         DeleteUser, Fail, Arrive, Proceeds, tables, Present, TypeOK
    <3> QED  BY <3>1, <3>2, StepKinds
  <2>3. \A u, v \in User : Present(u)' /\ Present(v)' /\ Email[u] = Email[v] => u = v
    BY <2>2 DEF SessionsHaveAccounts, AddressTaken
  <2>4. \A t \in Request : token'[t] \in {"live", "revoked"} => Present(user[t]) /\ user'[t] = user[t]
    <3> SUFFICES ASSUME NEW t \in Request, token'[t] \in {"live", "revoked"}
                 PROVE  Present(user[t]) /\ user'[t] = user[t]
      OBVIOUS
    <3>1. CASE Stores(r) /\ t = r
      BY <3>1 DEF Stores, Kept, request
    <3>2. CASE ~(Stores(r) /\ t = r)
      <4>1. token[t] # "none"
        BY <3>2, TokensAge DEF TypeOK
      <4>2. token[t] # "gone"
        <5>1. CASE Stores(r)
          BY <3>2, <5>1 DEF Stores, TypeOK
        <5>2. CASE Spends(r)
          BY <5>2 DEF Spends, TypeOK, MemoryInv
        <5>3. CASE Ends(r)
          BY <5>3 DEF Ends, RevokedBy
        <5>4. CASE UNCHANGED token
          BY <5>4
        <5> QED  BY <1>3, <5>1, <5>2, <5>3, <5>4, TokenStep
      <4>3. token[t] \in {"live", "revoked"}
        BY <4>1, <4>2 DEF TypeOK
      <4>5. user[t] \in User
        BY DEF TypeOK
      <4>4. user'[t] = user[t]
        <5>1. pc[t] # "idle"
          BY <4>1 DEF StoredInv
        <5> QED  BY <1>1, <5>1 DEF Local, request
      <4> QED  BY <4>3, <4>4 DEF SessionsHaveAccounts
    <3> QED  BY <3>1, <3>2
  <2>5. \A u \in User : reset'[u] # NoToken => Present(u)
    <3>1. CASE Arrives(r)
      BY <3>1 DEF Arrives, tables, SessionsHaveAccounts
    <3>2. CASE SetReset(r) \/ ClearReset(r)
      BY <3>2 DEF SetReset, ClearReset, ClearToken, TypeOK, SessionsHaveAccounts
    <3>3. CASE ~(SetReset(r) \/ ClearReset(r)) /\ Proceeds(r)
      <4>0. DeleteUser(r) => UNCHANGED reset
        BY <1>3 DEF DeleteUser, Deletes, Answer, TypeOK, request, tables
      <4>1. UNCHANGED reset
        BY <3>3, <4>0 DEF Step, Register, Insert, Login, Mint, SendTokens, Refresh,
         RefreshOwner, Rotate, Logout, Revoke, ChangePassword, SetPassword, RevokeAll,
         ForgotPassword, ResetPassword, Administer, SetStatus, Fail, Arrive, Proceeds, tables
      <4> QED  BY <4>1 DEF SessionsHaveAccounts
    <3> QED  BY <3>1, <3>2, <3>3, StepKinds
  <2> QED  BY <2>1, <2>3, <2>4, <2>5 DEF SessionsHaveAccounts, TypeOK
<1> QED  BY <1>2, <1>3

(* Every step keeps the invariant.                                         *)
LEMMA StepIInv == IInv /\ [Next]_vars => IInv'
<1> SUFFICES ASSUME IInv, [Next]_vars PROVE IInv'
  OBVIOUS
<1>1. CASE Next
  <2>1. PICK r \in Request : Step(r)
    BY <1>1 DEF Next
  <2>2. TypeOK' /\ PlaceInv'
    BY <2>1, StepTypeOK, StepPlace DEF IInv
  <2>3. StoredInv' /\ MemoryInv'
    BY <2>1, StepStored, StepMemory DEF IInv
  <2>4. ChangeEndsSessions' /\ NoSessionLost' /\ SessionsHaveAccounts'
    BY <2>1, StepEnds, StepLost, StepAccounts
  <2> QED  BY <2>2, <2>3, <2>4 DEF IInv
<1>2. CASE UNCHANGED vars
  BY <1>2 DEF vars, IInv, TypeOK, ChangeEndsSessions, NoSessionLost, LossExplained,
     SessionsHaveAccounts, PlaceInv, StoredInv, MemoryInv, EndsAll, Answered, Mints, Present
<1> QED  BY <1>1, <1>2

(* The invariant holds of every behaviour of the two services.             *)
THEOREM Invariance == Spec => []IInv
BY InitIInv, StepIInv, PTL DEF Spec

(* Types, for any number of requests and accounts.                         *)
THEOREM TypeCorrect == Spec => []TypeOK
<1>1. IInv => TypeOK
  BY DEF IInv
<1> QED  BY <1>1, Invariance, PTL

(* An acknowledged password change or reset has ended every session its    *)
(* account had when the request arrived.                                   *)
THEOREM ChangeEnds == Spec => []ChangeEndsSessions
<1>1. IInv => ChangeEndsSessions
  BY DEF IInv
<1> QED  BY <1>1, Invariance, PTL

(* No session ends but for a reason its own client or account can know.    *)
THEOREM NothingLost == Spec => []NoSessionLost
<1>1. IInv => NoSessionLost
  BY DEF IInv
<1> QED  BY <1>1, Invariance, PTL

(* Sessions, reset tokens and addresses belong to one account that exists. *)
THEOREM AccountsHold == Spec => []SessionsHaveAccounts
<1>1. IInv => SessionsHaveAccounts
  BY DEF IInv
<1> QED  BY <1>1, Invariance, PTL
-----------------------------------------------------------------------------
(* The refinement.                                                         *)

(* What else than its deletion a step may do to an account.                *)
Creates(r) ==
  /\ account[user[r]] = "absent" /\ UNCHANGED <<token, request>>
  /\ account' = [account EXCEPT ![user[r]] = FirstStatus]
SameAccounts == \A u \in User :
  Present(u)' = Present(u) /\ (account'[u] = "deleted" <=> account[u] = "deleted")

(* An account that is not deleted is created, or it is suspended or        *)
(* reinstated at most.                                                     *)
LEMMA AccountStep ==
  ASSUME TypeOK, NEW r \in Request, Step(r), ~Deletes(r)
  PROVE  Creates(r) \/ SameAccounts
<1>1. CASE Insert(r)
  BY <1>1 DEF Insert, request, Creates, SameAccounts, Present
<1>2. CASE SetStatus(r)
  <2>1. CASE Present(user[r])
    <3>1. PICK s \in {"active", "inactive"} : account' = [account EXCEPT ![user[r]] = s]
      BY <1>2, <2>1 DEF SetStatus
    <3> QED BY <2>1, <3>1 DEF TypeOK, Present, SameAccounts
  <2>2. CASE ~Present(user[r])
    BY <1>2, <2>2 DEF SetStatus, Present, SameAccounts
  <2> QED BY <2>1, <2>2
<1>3. CASE ~(Insert(r) \/ SetStatus(r))
  <2>1. DeleteUser(r) => UNCHANGED account
    BY DEF DeleteUser, Deletes, Answer, TypeOK, request, tables
  <2>2. UNCHANGED account
    BY <1>3, <2>1, ArrivalArrives DEF Step, Arrives, Mint, SendTokens, RefreshOwner, Rotate,
       Revoke, SetPassword, RevokeAll, SetReset, ClearReset, Fail, tables
  <2> QED BY <2>2 DEF SameAccounts, Present
<1> QED BY <1>1, <1>2, <1>3

(* A session that is stored remains its account's.                         *)
LEMMA OwnersStay ==
  ASSUME IInv, NEW r \in Request, Step(r), NEW t \in Request,
         token[t] # "none" \/ (t = r /\ Stores(r))
  PROVE  user'[t] = user[t]
<1>1. CASE t # r
  BY <1>1, StepLocal DEF Local, IInv
<1>2. CASE t = r /\ Stores(r)
  BY <1>2 DEF Stores, Kept, request
<1>3. CASE t = r /\ token[t] # "none"
  BY <1>3, StepLocal DEF Local, IInv, StoredInv, request
<1> QED BY <1>1, <1>2, <1>3

(* Every step opens one session, ends one or all of an account's, creates  *)
(* or deletes an account, or changes nothing of either.                    *)
LEMMA StepRefines == IInv /\ [Next]_vars => [Held!Next]_Held!vars
<1> SUFFICES ASSUME IInv, [Next]_vars PROVE [Held!Next]_Held!vars
  OBVIOUS
<1> DEFINE P == {u \in User : Present(u)}
           D == {u \in User : account[u] = "deleted"}
           S == {q \in Request : token[q] # "none"}
           O == [t \in S |-> user[t]]
           L == {t \in Request : token[t] = "live"}
<1>1. CASE UNCHANGED vars
  BY <1>1 DEF vars, Held!vars, Present
<1>2. ASSUME NEW r \in Request, Step(r) PROVE [Held!Next]_Held!vars
  <2>0. TypeOK /\ PlaceInv /\ StoredInv /\ MemoryInv /\ SessionsHaveAccounts
    BY DEF IInv
  <2>1. UNCHANGED token => UNCHANGED <<O, L>>
    <3> SUFFICES ASSUME UNCHANGED token PROVE UNCHANGED <<O, L>>
      OBVIOUS
    <3>1. S' = S /\ L' = L
      OBVIOUS
    <3>2. \A t \in S : user'[t] = user[t]
      BY <1>2, OwnersStay
    <3> QED BY <3>1, <3>2
  <2>2. SameAccounts => P' = P /\ D' = D
    BY DEF SameAccounts
  <2>3. UNCHANGED account => SameAccounts
    BY DEF SameAccounts, Present
  <2>4. CASE Stores(r)
    <3>0. PICK u \in User : u = user[r]
      BY <2>0 DEF TypeOK
    <3>1. /\ UNCHANGED <<account, user>> /\ Present(user[r]) /\ user[r] \in User
          /\ token' = [token EXCEPT ![r] = "live"]
      BY <2>0, <2>4 DEF Stores, Kept, request, TypeOK
    <3>2. r \notin S
      BY <2>0, <2>4 DEF Stores, StoredInv
    <3>3. S' = S \cup {r} /\ L' = L \cup {r}
      BY <2>0, <3>1 DEF TypeOK
    <3>4. O' = [t \in S \cup {r} |-> IF t = r THEN user[r] ELSE O[t]]
      BY <3>1, <3>3
    <3>5. DOMAIN O = S
      OBVIOUS
    <3>6. Held!Open(r, u)
      BY <2>2, <2>3, <3>0, <3>1, <3>2, <3>3, <3>4, <3>5 DEF Held!Open
    <3> QED BY <3>6 DEF Held!Next
  <2>5. CASE Spends(r)
    <3>1. /\ UNCHANGED <<account, user>> /\ used[r] \in Request
          /\ token[used[r]] # "none" /\ token' = [token EXCEPT ![used[r]] = "revoked"]
      BY <2>0, <2>5 DEF Spends, Kept, request, MemoryInv
    <3>2. S' = S /\ L' = L \ {used[r]}
      BY <2>0, <3>1 DEF TypeOK
    <3>3. O' = O
      BY <3>1, <3>2
    <3>4. CASE used[r] \in L
      <4>1. PICK t \in Request : t = used[r]
        BY <3>1
      <4>2. Held!Close(t)
        BY <2>2, <2>3, <3>1, <3>2, <3>3, <3>4, <4>1 DEF Held!Close
      <4> QED BY <4>2 DEF Held!Next
    <3>5. CASE used[r] \notin L
      BY <2>2, <2>3, <3>1, <3>2, <3>3, <3>5 DEF Held!vars
    <3> QED BY <3>4, <3>5
  <2>6. CASE Ends(r)
    <3>0. PICK u \in User : u = user[r]
      BY <2>0 DEF TypeOK
    <3>1. /\ UNCHANGED <<account, user>> /\ user[r] \in User
          /\ token' = [t \in Request |-> IF RevokedBy(r, t) THEN "revoked" ELSE token[t]]
      BY <2>0, <2>6 DEF Ends, Kept, request, TypeOK
    <3>2. S' = S /\ L' = L \ {t \in S : user[t] = user[r]}
      BY <3>1 DEF RevokedBy
    <3>3. O' = O
      BY <3>1, <3>2
    <3>4. Held!SessionsOf(u) = {t \in S : user[t] = user[r]}
      BY <3>0 DEF Held!SessionsOf
    <3>5. Held!CloseAll(u)
      BY <2>2, <2>3, <3>0, <3>1, <3>2, <3>3, <3>4 DEF Held!CloseAll
    <3> QED BY <3>5 DEF Held!Next
  <2>7. CASE Deletes(r)
    <3>0. PICK u \in User : u = user[r]
      BY <2>0 DEF TypeOK
    <3>1. /\ UNCHANGED user /\ user[r] \in User /\ Present(user[r])
          /\ account' = [account EXCEPT ![user[r]] = "deleted"] /\ token' = Cascade(user[r])
      BY <2>0, <2>7 DEF Deletes, request, TypeOK
    <3>2. P' = P \ {user[r]} /\ D' = D \cup {user[r]}
      BY <2>0, <3>1 DEF Present, TypeOK
    <3>3. S' = S /\ L' = L \ {t \in S : user[t] = user[r]}
      BY <3>1 DEF Cascade
    <3>4. O' = O
      BY <3>1, <3>3
    <3>5. Held!SessionsOf(u) = {t \in S : user[t] = user[r]}
      BY <3>0 DEF Held!SessionsOf
    <3>6. Held!Delete(u)
      BY <3>0, <3>1, <3>2, <3>3, <3>4, <3>5 DEF Held!Delete
    <3> QED BY <3>6 DEF Held!Next
  <2>8. CASE UNCHANGED token /\ ~Deletes(r)
    <3>1. CASE Creates(r)
      <4>1. /\ user[r] \in User /\ account[user[r]] = "absent"
            /\ account' = [account EXCEPT ![user[r]] = FirstStatus]
            /\ FirstStatus \in {"active", "inactive"}
        BY <2>0, <3>1 DEF Creates, TypeOK, FirstStatus
      <4>2. P' = P \cup {user[r]} /\ D' = D /\ user[r] \notin P \cup D
        BY <2>0, <4>1 DEF Present, TypeOK
      <4>3. PICK u \in User : u = user[r]
        BY <4>1
      <4>4. Held!Create(u)
        BY <2>1, <2>8, <4>2, <4>3 DEF Held!Create
      <4> QED BY <4>4 DEF Held!Next
    <3>2. CASE SameAccounts
      BY <2>1, <2>2, <2>8, <3>2 DEF Held!vars
    <3> QED BY <1>2, <2>0, <2>8, <3>1, <3>2, AccountStep
  <2> QED BY <1>2, <2>0, <2>4, <2>5, <2>6, <2>7, <2>8, TokenStep
<1> QED BY <1>1, <1>2 DEF Next

(* SessionsFollowAccounts: the handlers of auth-service and user-service   *)
(* implement sessions that are opened and ended in single steps.           *)
THEOREM Refinement == Spec => SessionsFollowAccounts
<1>1. Init => Held!Init
  <2> SUFFICES ASSUME Init PROVE Held!Init
    OBVIOUS
  <2>1. {u \in User : Present(u)} = Standing /\ {u \in User : account[u] = "deleted"} = {}
    BY AuthAssumption DEF Init, Present
  <2>2. /\ {q \in Request : token[q] # "none"} = Opened
        /\ {q \in Request : token[q] = "live"} = Opened
    BY AuthAssumption DEF Init
  <2>3. \A t \in Opened : user[t] = OpenedBy[t]
    BY AuthAssumption DEF Init
  <2>4. OpenedBy = [t \in Opened |-> OpenedBy[t]]
    BY AuthAssumption DEF Opened
  <2>5. [t \in {q \in Request : token[q] # "none"} |-> user[t]] = OpenedBy
    BY <2>2, <2>3, <2>4
  <2> QED BY <2>1, <2>2, <2>5 DEF Held!Init, Opened
<1> QED BY <1>1, StepRefines, Invariance, PTL
        DEF Spec, SessionsFollowAccounts, Held!Spec
=============================================================================
