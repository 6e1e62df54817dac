---------------------- MODULE ReportPregenerationProofs ----------------------
(***************************************************************************)
(* Proofs about ReportPregeneration.  IInv is inductive: at most one call  *)
(* is in the loop, so a step of it moves the counters of that call only,   *)
(* and what agent-api does moves a request and the keys, which only grow.  *)
(***************************************************************************)
EXTENDS ReportPregeneration, TLAPS

(* What is stored stays stored.                                            *)
LEMMA StoredKept ==
  ASSUME TypeOK, month' \in Nat, month <= month',
         cached \cup unsaved \subseteq cached' \cup unsaved',
         NEW r \in Trigger, NEW c \in Country, began'[r] = began[r], Stored(r, c)
  PROVE  Stored(r, c)'
<1>1. PICK m \in began[r]..month : <<c, m>> \in cached \cup unsaved
  BY DEF Stored
<1>2. began[r] \in Nat /\ month \in Nat
  BY DEF TypeOK
<1>3. m \in began'[r]..month' /\ <<c, m>> \in cached' \cup unsaved'
  BY <1>1, <1>2
<1> QED  BY <1>3 DEF Stored

(* The initial state satisfies the invariant.                              *)
LEMMA InitIInv == Init => IInv
<1> SUFFICES ASSUME Init PROVE IInv
  OBVIOUS
<1> USE PregenerationAssumption
<1>1. TypeOK
  <2>1. 0 \in 0..Countries /\ 0 \in 0..Months /\ 1 \in 1..Months /\ 0 \in Nat
    OBVIOUS
  <2> QED  BY <2>1 DEF Init, TypeOK
<1>2. OneRun /\ CountersDescribeRun /\ PhaseInv
  BY DEF Init, OneRun, CountersDescribeRun, PhaseInv, Busy, Looping
<1>3. Unsent /\ AllReports /\ ReportsStored
  BY DEF Init, Unsent, AllReports, ReportsStored, Busy, Looping
<1> QED  BY <1>1, <1>2, <1>3 DEF IInv

(* A call is scheduled, by cron or by a POST.                              *)
LEMMA ScheduleKeeps ==
  ASSUME IInv, NEW r \in Trigger, NEW k \in {"cron", "manual"}, Schedule(r, k),
         UNCHANGED <<running, at, ok, failed, outcome, began, server, month>>
  PROVE  IInv'
<1> USE DEF IInv, server
<1>1. /\ pc[r] = "idle" /\ pc'[r] = "scheduled"
      /\ \A q \in Trigger : q # r => pc'[q] = pc[q]
  BY DEF Schedule, TypeOK
<1>2. \A q \in Trigger : Busy(q)' <=> Busy(q)
  BY <1>1 DEF Busy, Looping
<1>3. TypeOK'
  BY DEF TypeOK, Schedule
<1>4. OneRun'
  BY <1>2 DEF OneRun
<1>5. \A q \in Trigger : Busy(q) \/ pc'[q] = "ended" => q # r /\ Answered(q)' = Answered(q)
  BY <1>1 DEF Busy, Looping, Answered
<1>6. CountersDescribeRun'
  BY <1>1, <1>2, <1>5 DEF CountersDescribeRun
<1>7. PhaseInv'
  BY <1>1 DEF PhaseInv, More
<1>8. Unsent'
  BY <1>1 DEF Unsent
<1>9. AllReports'
  BY <1>1, <1>2, <1>5 DEF AllReports
<1>10. ReportsStored'
  BY DEF ReportsStored, Stored
<1> QED  BY <1>3, <1>4, <1>6, <1>7, <1>8, <1>9, <1>10

(* run() starts, or finds a run on.                                        *)
LEMMA RunKeeps ==
  ASSUME IInv, NEW r \in Trigger, Run(r)
  PROVE  IInv'
<1> USE DEF IInv, server
<1>a. /\ pc[r] = "scheduled"
      /\ UNCHANGED <<kind, ok, failed, outcome, request, cached, unsaved, month>>
  BY DEF Run
<1>1. CASE pc' = [pc EXCEPT ![r] = "skipped"] /\ UNCHANGED <<running, at, began>>
  <2>1. /\ pc'[r] = "skipped"
        /\ \A q \in Trigger : q # r => pc'[q] = pc[q]
    BY <1>1 DEF TypeOK
  <2>2. \A q \in Trigger : Busy(q)' <=> Busy(q)
    BY <1>a, <2>1 DEF Busy, Looping
  <2>3. TypeOK'
    BY <1>a, <1>1 DEF TypeOK
  <2>4. OneRun'
    BY <1>1, <2>2 DEF OneRun
  <2>5. \A q \in Trigger : Busy(q) \/ pc'[q] = "ended" => q # r /\ Answered(q)' = Answered(q)
    BY <1>a, <1>1, <2>1 DEF Busy, Looping, Answered
  <2>6. CountersDescribeRun'
    BY <1>a, <1>1, <2>1, <2>2, <2>5 DEF CountersDescribeRun
  <2>7. PhaseInv' /\ Unsent' /\ ReportsStored'
    BY <1>a, <1>1, <2>1 DEF PhaseInv, More, Unsent, ReportsStored, Stored
  <2>8. AllReports'
    BY <1>a, <2>1, <2>2, <2>5 DEF AllReports
  <2> QED  BY <2>3, <2>4, <2>6, <2>7, <2>8
<1>2. CASE /\ ~running /\ running' = TRUE
           /\ at' = [at EXCEPT ![r] = Skipped + 1]
           /\ began' = [began EXCEPT ![r] = month]
           /\ pc' = [pc EXCEPT ![r] = "login"]
  <2>1. /\ pc'[r] = "login" /\ at'[r] = Skipped + 1 /\ began'[r] = month
        /\ \A q \in Trigger : q # r => pc'[q] = pc[q] /\ at'[q] = at[q] /\ began'[q] = began[q]
    BY <1>2 DEF TypeOK
  <2>2. /\ \A q \in Trigger : ~Busy(q)
        /\ \A q \in Trigger : Busy(q)' <=> q = r
    BY <1>a, <1>2, <2>1 DEF OneRun, Busy, Looping
  <2>3. TypeOK'
    BY <1>a, <1>2, PregenerationAssumption DEF TypeOK, Looping
  <2>4. OneRun'
    BY <1>2, <2>2 DEF OneRun
  <2>5. /\ ok[r] = 0 /\ failed[r] = 0 /\ outcome[r] = "none"
        /\ \A c \in Country : request[r][c] = "none"
    BY <1>a DEF Unsent
  <2>6. CountersDescribeRun'
    <3>1. Answered(r)' = 0 /\ Skipped + 1 \in Country
      BY <2>1, PregenerationAssumption DEF Answered, Country
    <3>2. \A q \in Trigger : q # r => Answered(q)' = Answered(q)
      BY <1>a, <2>1 DEF Answered
    <3> QED  BY <1>a, <2>1, <2>2, <2>5, <3>1, <3>2 DEF CountersDescribeRun
  <2>7. PhaseInv'
    <3>1. month \in Nat
      BY DEF TypeOK
    <3> QED  BY <1>a, <2>1, <3>1 DEF PhaseInv, More
  <2>8. Unsent'
    BY <1>a, <2>1 DEF Unsent
  <2>9. AllReports'
    <3>1. Answered(r)' = 0
      BY <2>1, PregenerationAssumption DEF Answered
    <3>2. \A q \in Trigger : q # r => Answered(q)' = Answered(q)
      BY <1>a, <2>1 DEF Answered
    <3>3. \A c \in Country : ~(c <= Skipped + 0)
      BY PregenerationAssumption DEF Country
    <3> QED  BY <1>a, <2>1, <2>2, <3>1, <3>2, <3>3 DEF AllReports
  <2>10. ReportsStored'
    BY <1>a, <2>1, <2>5 DEF ReportsStored, Stored
  <2> QED  BY <2>3, <2>4, <2>6, <2>7, <2>8, <2>9, <2>10
<1> QED  BY <1>1, <1>2 DEF Run, MayRun

(* What the busy call's steps leave alone: every other call.               *)
LEMMA OthersKept ==
  ASSUME IInv, NEW r \in Trigger, Busy(r),
         \A q \in Trigger : q # r =>
           /\ pc'[q] = pc[q] /\ at'[q] = at[q] /\ ok'[q] = ok[q]
           /\ failed'[q] = failed[q] /\ outcome'[q] = outcome[q]
  PROVE  \A q \in Trigger : q # r =>
           /\ ~Busy(q) /\ ~Busy(q)'
           /\ pc[q] = "ended" => Answered(q)' = Answered(q)
BY DEF IInv, OneRun, Busy, Answered

(* The log-in succeeds and the request is sent, or the run ends.           *)
LEMMA LoginKeeps ==
  ASSUME IInv, NEW r \in Trigger, Login(r)
  PROVE  IInv'
<1> USE DEF IInv
<1>a. /\ pc[r] = "login" /\ Busy(r)
      /\ UNCHANGED <<kind, at, ok, failed, began, cached, unsaved, month>>
  BY DEF Login, Busy, Looping
<1>b. at[r] \in Country /\ ok[r] + failed[r] = Answered(r)
  BY <1>a DEF CountersDescribeRun
<1>c. running
  BY <1>a DEF OneRun
<1>1. CASE /\ pc' = [pc EXCEPT ![r] = "request"]
           /\ request' = [request EXCEPT ![r][at[r]] = "sent"]
           /\ UNCHANGED <<running, outcome>>
  <2>1. /\ pc'[r] = "request"
        /\ \A q \in Trigger : q # r => pc'[q] = pc[q]
        /\ \A q \in Trigger, c \in Country :
             request'[q][c] = IF q = r /\ c = at[r] THEN "sent" ELSE request[q][c]
    BY <1>1, <1>b DEF TypeOK
  <2>2. /\ Busy(r)' /\ Answered(r)' = Answered(r) /\ Answered(r) = at[r] - Skipped - 1
        /\ \A q \in Trigger : q # r =>
           /\ ~Busy(q) /\ ~Busy(q)'
           /\ pc[q] = "ended" => Answered(q)' = Answered(q)
    <3>1. Busy(r)' /\ Answered(r)' = Answered(r) /\ Answered(r) = at[r] - Skipped - 1
      BY <1>a, <2>1 DEF Busy, Looping, Answered
    <3> QED  BY <1>a, <1>1, <2>1, <3>1, OthersKept
  <2>3. TypeOK'
    BY <1>a, <1>1, <1>b DEF TypeOK, Looping
  <2>4. OneRun'
    BY <1>1, <1>a, <2>2 DEF OneRun
  <2>5. CountersDescribeRun'
    BY <1>a, <1>1, <2>1, <2>2 DEF CountersDescribeRun
  <2>6. PhaseInv'
    BY <1>a, <1>1, <2>1 DEF PhaseInv, More
  <2>7. Unsent'
    BY <1>a, <1>1, <2>1 DEF Unsent
  <2>8. AllReports'
    <3>1. Skipped + Answered(r) = at[r] - 1 /\ at[r] \in Nat
      BY <1>b, <2>2, PregenerationAssumption DEF Country
    <3>2. \A c \in Country : c <= Skipped + Answered(r) => c # at[r]
      BY <3>1 DEF Country
    <3> QED  BY <1>a, <2>1, <2>2, <3>2 DEF AllReports
  <2>9. ReportsStored'
    BY <1>a, <2>1 DEF ReportsStored, Stored
  <2> QED  BY <2>3, <2>4, <2>5, <2>6, <2>7, <2>8, <2>9
<1>2. CASE End(r, "error") /\ UNCHANGED request
  <2>1. /\ pc'[r] = "ended" /\ outcome'[r] = "error"
        /\ \A q \in Trigger : q # r => pc'[q] = pc[q] /\ outcome'[q] = outcome[q]
    BY <1>2 DEF End, TypeOK
  <2>2. /\ ~Busy(r)' /\ Answered(r)' = Answered(r)
        /\ \A q \in Trigger : q # r =>
           /\ ~Busy(q) /\ ~Busy(q)'
           /\ pc[q] = "ended" => Answered(q)' = Answered(q)
    <3>1. ~Busy(r)' /\ Answered(r)' = Answered(r)
      BY <1>a, <2>1 DEF Busy, Looping, Answered
    <3> QED  BY <1>a, <1>2, <2>1, <3>1, OthersKept
  <2>3. TypeOK'
    BY <1>a, <1>2 DEF TypeOK, End
  <2>4. OneRun'
    BY <1>2, <2>2 DEF OneRun, End
  <2>5. CountersDescribeRun'
    BY <1>a, <1>b, <2>1, <2>2 DEF CountersDescribeRun
  <2>6. PhaseInv' /\ Unsent'
    BY <1>a, <1>2, <2>1 DEF PhaseInv, More, Unsent
  <2>7. AllReports'
    BY <1>a, <1>2, <2>1, <2>2 DEF AllReports
  <2>8. ReportsStored'
    BY <1>a, <1>2 DEF ReportsStored, Stored
  <2> QED  BY <2>3, <2>4, <2>5, <2>6, <2>7, <2>8
<1> QED  BY <1>1, <1>2 DEF Login

(* generate_report returns, with a report or without one.                  *)
LEMMA CountKeeps ==
  ASSUME IInv, NEW r \in Trigger, pc[r] = "request", NEW success \in BOOLEAN,
         success => Delivered(r), Count(r, success),
         UNCHANGED <<kind, at, began, server, month>>
  PROVE  IInv'
<1> USE DEF IInv, server
<1>a. Busy(r) /\ running
  BY DEF Busy, Looping, OneRun
<1>b. /\ at[r] \in Country /\ ok[r] + failed[r] = at[r] - Skipped - 1
      /\ ok[r] \in Nat /\ failed[r] \in Nat /\ outcome[r] = "none"
  BY <1>a DEF CountersDescribeRun, Answered, TypeOK, PhaseInv
<1>1. /\ \A q \in Trigger : ok'[q] = IF q = r /\ success THEN ok[q] + 1 ELSE ok[q]
      /\ \A q \in Trigger : failed'[q] = IF q = r /\ ~success THEN failed[q] + 1 ELSE failed[q]
      /\ ok' \in [Trigger -> Nat] /\ failed' \in [Trigger -> Nat]
  BY DEF Count, TypeOK
<1>2. /\ ok'[r] + failed'[r] = at[r] - Skipped
      /\ failed'[r] = 0 <=> failed[r] = 0 /\ success
      /\ failed'[r] \in Nat
  BY <1>1, <1>b, PregenerationAssumption DEF Country
<1>3. \/ /\ More(r) /\ pc' = [pc EXCEPT ![r] = "delay"]
         /\ UNCHANGED <<running, outcome>>
      \/ ~More(r) /\ End(r, Verdict(r, success))
  BY DEF Count
<1>4. /\ \A q \in Trigger : q # r => pc'[q] = pc[q] /\ outcome'[q] = outcome[q]
      /\ \/ pc'[r] = "delay" /\ More(r) /\ outcome'[r] = "none" /\ running'
         \/ /\ pc'[r] = "ended" /\ at[r] = Countries /\ ~running'
            /\ outcome'[r] = IF failed'[r] = 0 THEN "success" ELSE "failures"
  <2>1. ~More(r) => at[r] = Countries
    BY <1>b, PregenerationAssumption DEF More, Country
  <2>2. CASE More(r) /\ pc' = [pc EXCEPT ![r] = "delay"] /\ UNCHANGED <<running, outcome>>
    BY <1>a, <1>b, <2>2 DEF TypeOK
  <2>3. CASE ~More(r) /\ End(r, Verdict(r, success))
    <3>1. Verdict(r, success) = IF failed'[r] = 0 THEN "success" ELSE "failures"
      BY <1>2 DEF Verdict
    <3> QED  BY <2>1, <2>3, <3>1 DEF End, TypeOK
  <2> QED  BY <1>3, <2>2, <2>3
<1>5. TypeOK'
  <2>1. pc' \in [Trigger -> Looping \cup {"idle", "scheduled", "skipped", "ended", "killed"}]
    BY <1>3 DEF TypeOK, End, Looping
  <2>2. outcome' \in [Trigger -> {"none", "success", "failures", "error"}] /\ running' \in BOOLEAN
    BY <1>3 DEF TypeOK, End, Verdict
  <2> QED  BY <1>1, <2>1, <2>2 DEF TypeOK
<1>6. /\ Busy(r)' <=> running'
      /\ Answered(r)' = at[r] - Skipped /\ Answered(r) = at[r] - Skipped - 1
      /\ \A q \in Trigger : q # r =>
           /\ ~Busy(q) /\ ~Busy(q)'
           /\ pc[q] = "ended" => Answered(q)' = Answered(q)
  <2>1. Busy(r)' <=> running'
    BY <1>4 DEF Busy, Looping
  <2>2. Answered(r)' = at[r] - Skipped /\ Answered(r) = at[r] - Skipped - 1
    BY <1>4 DEF Answered
  <2> QED  BY <1>a, <1>1, <1>4, <2>1, <2>2, OthersKept
<1>7. OneRun'
  BY <1>6 DEF OneRun
<1>8. CountersDescribeRun'
  BY <1>b, <1>1, <1>2, <1>4, <1>6 DEF CountersDescribeRun
<1>9. PhaseInv' /\ Unsent'
  BY <1>1, <1>4 DEF PhaseInv, More, Unsent
<1>10. AllReports'
  <2>1. ASSUME NEW c \in Country, failed'[r] = 0, c <= Skipped + Answered(r)'
        PROVE  request[r][c] = "pdf"
    <3>1. failed[r] = 0 /\ success
      BY <1>2, <2>1
    <3>2. c = at[r] \/ c <= Skipped + Answered(r)
      BY <1>b, <1>6, <2>1, PregenerationAssumption DEF Country
    <3> QED  BY <1>a, <3>1, <3>2 DEF Delivered, AllReports
  <2> QED  BY <1>1, <1>4, <1>6, <2>1 DEF AllReports
<1>11. ReportsStored'
  BY DEF ReportsStored, Stored
<1> QED  BY <1>5, <1>7, <1>8, <1>9, <1>10, <1>11

(* The run goes on to the next country.                                    *)
LEMMA AwakeKeeps ==
  ASSUME IInv, NEW r \in Trigger, Awake(r)
  PROVE  IInv'
<1> USE DEF IInv, server
<1>a. /\ pc[r] = "delay" /\ Busy(r) /\ More(r)
      /\ UNCHANGED <<running, kind, ok, failed, outcome, began, request, cached, unsaved, month>>
  BY DEF Awake, Busy, Looping, PhaseInv
<1>b. at[r] \in Country /\ at[r] + 1 \in Country
  BY <1>a, PregenerationAssumption DEF CountersDescribeRun, Country, More
<1>1. /\ pc'[r] = "login" /\ at'[r] = at[r] + 1
      /\ \A q \in Trigger : q # r => pc'[q] = pc[q] /\ at'[q] = at[q]
  BY DEF Awake, TypeOK
<1>2. /\ Busy(r)' /\ Answered(r)' = Answered(r)
      /\ \A q \in Trigger : q # r =>
           /\ ~Busy(q) /\ ~Busy(q)'
           /\ pc[q] = "ended" => Answered(q)' = Answered(q)
  <2>1. Busy(r)' /\ Answered(r)' = Answered(r)
    BY <1>a, <1>1, <1>b, PregenerationAssumption DEF Busy, Looping, Answered, Country
  <2> QED  BY <1>a, <1>1, <2>1, OthersKept
<1>3. TypeOK'
  <2>1. at' \in [Trigger -> 0..Countries]
    BY <1>b, PregenerationAssumption DEF Awake, TypeOK, Country
  <2> QED  BY <1>a, <2>1 DEF Awake, TypeOK, Looping
<1>4. OneRun'
  BY <1>a, <1>2 DEF OneRun
<1>5. CountersDescribeRun'
  BY <1>a, <1>b, <1>1, <1>2 DEF CountersDescribeRun
<1>6. PhaseInv' /\ Unsent'
  BY <1>a, <1>1 DEF PhaseInv, More, Unsent
<1>7. AllReports'
  BY <1>a, <1>1, <1>2 DEF AllReports
<1>8. ReportsStored'
  BY <1>a DEF ReportsStored, Stored
<1> QED  BY <1>3, <1>4, <1>5, <1>6, <1>7, <1>8

(* A restart kills the calls that are scheduled or in the loop.            *)
LEMMA RestartKeeps ==
  ASSUME IInv, Restart
  PROVE  IInv'
<1> USE DEF IInv, server
<1>a. /\ running' = FALSE /\ UNCHANGED <<outcome, request, cached, unsaved, month>>
      /\ at' = Forget(at, 0) /\ ok' = Forget(ok, 0)
      /\ failed' = Forget(failed, 0) /\ began' = Forget(began, 0)
  BY DEF Restart
<1>1. ASSUME NEW q \in Trigger
      PROVE  \/ /\ Stopped(q) /\ pc'[q] = "killed"
                /\ at'[q] = 0 /\ ok'[q] = 0 /\ failed'[q] = 0 /\ began'[q] = 0
             \/ /\ ~Stopped(q)
                /\ pc'[q] = pc[q] \/ (pc[q] = "idle" /\ pc'[q] = "scheduled")
                /\ at'[q] = at[q] /\ ok'[q] = ok[q] /\ failed'[q] = failed[q]
                /\ began'[q] = began[q]
  <2>1. /\ at'[q] = IF Stopped(q) THEN 0 ELSE at[q]
        /\ ok'[q] = IF Stopped(q) THEN 0 ELSE ok[q]
        /\ failed'[q] = IF Stopped(q) THEN 0 ELSE failed[q]
        /\ began'[q] = IF Stopped(q) THEN 0 ELSE began[q]
        /\ Forget(pc, "killed")[q] = IF Stopped(q) THEN "killed" ELSE pc[q]
    BY <1>a DEF Forget
  <2>2. \/ pc' = Forget(pc, "killed")
        \/ \E r \in Trigger : /\ pc[r] = "idle"
                              /\ pc' = [Forget(pc, "killed") EXCEPT ![r] = "scheduled"]
    BY DEF Restart
  <2>3. CASE pc' = Forget(pc, "killed")
    BY <2>1, <2>3
  <2>4. CASE \E r \in Trigger : /\ pc[r] = "idle"
                                /\ pc' = [Forget(pc, "killed") EXCEPT ![r] = "scheduled"]
    <3>1. PICK r \in Trigger : /\ pc[r] = "idle"
                               /\ pc' = [Forget(pc, "killed") EXCEPT ![r] = "scheduled"]
      BY <2>4
    <3>2. pc'[q] = IF q = r THEN "scheduled" ELSE Forget(pc, "killed")[q]
      BY <3>1 DEF Forget
    <3>3. ~Stopped(r)
      BY <3>1 DEF Stopped, Busy, Looping
    <3> QED  BY <2>1, <3>1, <3>2, <3>3
  <2> QED  BY <2>2, <2>3, <2>4
<1>2. \A q \in Trigger : ~Busy(q)'
  BY <1>1 DEF Stopped, Busy, Looping
<1>3. \A q \in Trigger : pc'[q] = "ended" =>
        /\ pc[q] = "ended" /\ at'[q] = at[q] /\ ok'[q] = ok[q]
        /\ failed'[q] = failed[q] /\ Answered(q)' = Answered(q)
  BY <1>1, <1>a DEF Answered
<1>4. TypeOK'
  <2>1. pc' \in [Trigger -> Looping \cup {"idle", "scheduled", "skipped", "ended", "killed"}]
    BY DEF Restart, Forget, TypeOK
  <2>2. kind' \in [Trigger -> {"none", "cron", "manual", "startup"}]
    BY DEF Restart, Forget, TypeOK
  <2>3. /\ at' \in [Trigger -> 0..Countries] /\ ok' \in [Trigger -> Nat]
        /\ failed' \in [Trigger -> Nat] /\ began' \in [Trigger -> 0..Months]
    BY <1>a, PregenerationAssumption DEF Forget, TypeOK
  <2> QED  BY <1>a, <2>1, <2>2, <2>3 DEF TypeOK
<1>5. OneRun'
  BY <1>a, <1>2 DEF OneRun
<1>6. CountersDescribeRun'
  BY <1>a, <1>2, <1>3 DEF CountersDescribeRun
<1>7. PhaseInv'
  <2>1. month \in Nat /\ 0 <= month
    BY DEF TypeOK
  <2>2. \A q \in Trigger : pc'[q] # "delay"
    BY <1>2 DEF Busy, Looping
  <2>3. \A q \in Trigger : pc'[q] # "ended" => pc[q] # "ended"
    BY <1>1 DEF Stopped, Busy, Looping
  <2> QED  BY <1>a, <1>1, <2>1, <2>2, <2>3 DEF PhaseInv
<1>8. Unsent'
  BY <1>a, <1>1 DEF Unsent
<1>9. AllReports'
  BY <1>a, <1>2, <1>3 DEF AllReports
<1>10. ReportsStored'
  <2>1. ASSUME NEW q \in Trigger, NEW c \in Country, Stored(q, c) PROVE Stored(q, c)'
    <3>1. PICK m \in began[q]..month : <<c, m>> \in cached \cup unsaved
      BY <2>1 DEF Stored
    <3>2. began[q] \in Nat /\ month \in Nat /\ (began'[q] = 0 \/ began'[q] = began[q])
      BY <1>1 DEF TypeOK
    <3>3. m \in began'[q]..month'
      BY <1>a, <3>1, <3>2
    <3> QED  BY <1>a, <3>1, <3>3 DEF Stored
  <2> QED  BY <1>a, <2>1 DEF ReportsStored
<1> QED  BY <1>4, <1>5, <1>6, <1>7, <1>8, <1>9, <1>10

(* What agent-api and the calendar do: one request may be answered, keys   *)
(* are added, months pass.                                                 *)
LEMMA ServerKeeps ==
  ASSUME IInv, TypeOK', UNCHANGED job, month <= month',
         cached \cup unsaved \subseteq cached' \cup unsaved',
         \A r \in Trigger, c \in Country :
           \/ request'[r][c] = request[r][c]
           \/ request[r][c] = "sent" /\ (request'[r][c] = "pdf" => Stored(r, c)')
  PROVE  IInv'
<1> USE DEF IInv, job
<1>1. month' \in Nat /\ month \in Nat
  BY DEF TypeOK
<1>2. \A r \in Trigger : (Busy(r)' <=> Busy(r)) /\ Answered(r)' = Answered(r)
  BY DEF Busy, Answered
<1>3. OneRun' /\ CountersDescribeRun'
  BY <1>2 DEF OneRun, CountersDescribeRun
<1>4. PhaseInv'
  <2>1. \A r \in Trigger : began[r] \in Nat
    BY DEF TypeOK
  <2> QED  BY <1>1, <2>1 DEF PhaseInv, More
<1>5. Unsent'
  BY DEF Unsent
<1>6. AllReports'
  BY <1>2 DEF AllReports
<1>7. ReportsStored'
  BY <1>1, StoredKept DEF ReportsStored
<1> QED  BY <1>3, <1>4, <1>5, <1>6, <1>7

(* A report made now is stored under the current month.                    *)
LEMMA SaveStores ==
  ASSUME IInv, NEW r \in Trigger, NEW c \in Country, Save(c), UNCHANGED <<job, month>>
  PROVE  Stored(r, c)'
<1>1. <<c, month>> \in cached' \cup unsaved'
  BY DEF Save
<1>2. month \in began'[r]..month'
  BY DEF IInv, PhaseInv, TypeOK, job
<1> QED  BY <1>1, <1>2 DEF Stored

(* agent-api answers a request of the job.                                 *)
LEMMA ServeKeeps ==
  ASSUME IInv, NEW r \in Trigger, NEW c \in Country, Serve(r, c)
  PROVE  IInv'
<1> USE DEF IInv
<1>1. request[r][c] = "sent" /\ UNCHANGED <<job, month>> /\ <<c, month>> \in Key
  BY DEF Serve, TypeOK, Key
<1>2. PICK v \in {"pdf", "error"} :
        /\ request' = [request EXCEPT ![r][c] = v]
        /\ \/ v = "pdf" /\ Hit(c) /\ UNCHANGED <<cached, unsaved>>
           \/ v = "pdf" /\ Save(c)
           \/ v = "error" /\ UNCHANGED <<cached, unsaved>>
  BY DEF Serve
<1>3. \A q \in Trigger, d \in Country :
        request'[q][d] = IF q = r /\ d = c THEN v ELSE request[q][d]
  BY <1>2 DEF TypeOK
<1>4. /\ cached \cup unsaved \subseteq cached' \cup unsaved'
      /\ cached' \subseteq Key /\ unsaved' \subseteq Key
  BY <1>1, <1>2 DEF Save, TypeOK
<1>5. TypeOK'
  BY <1>1, <1>2, <1>4 DEF TypeOK, job
<1>6. v = "pdf" => Stored(r, c)'
  <2>1. ASSUME Hit(c), UNCHANGED <<cached, unsaved>> PROVE Stored(r, c)'
    <3>1. month \in began'[r]..month'
      BY <1>1 DEF PhaseInv, TypeOK, job
    <3> QED  BY <1>1, <2>1, <3>1 DEF Hit, Stored
  <2> QED  BY <1>1, <1>2, <2>1, SaveStores
<1>7. month <= month'
  BY <1>1 DEF TypeOK
<1> QED  BY <1>1, <1>3, <1>4, <1>5, <1>6, <1>7, ServerKeeps

(* Users' reports and the calendar.                                        *)
LEMMA WorldKeeps ==
  ASSUME IInv, (\E c \in Country : UserReport(c)) \/ NextMonth
  PROVE  IInv'
<1> USE DEF IInv
<1>1. ASSUME NEW c \in Country, UserReport(c) PROVE IInv'
  <2>1. <<c, month>> \in Key
    BY DEF TypeOK, Key
  <2>2. cached' \subseteq Key /\ unsaved' \subseteq Key
    BY <1>1, <2>1 DEF UserReport, TypeOK
  <2>3. TypeOK' /\ month <= month'
    BY <1>1, <2>2 DEF UserReport, TypeOK, job
  <2>4. cached \cup unsaved \subseteq cached' \cup unsaved' /\ UNCHANGED <<job, request>>
    BY <1>1 DEF UserReport
  <2> QED  BY <2>3, <2>4, ServerKeeps
<1>2. ASSUME NextMonth PROVE IInv'
  <2>1. TypeOK' /\ month <= month'
    BY <1>2, PregenerationAssumption DEF NextMonth, TypeOK, job, server
  <2>2. UNCHANGED <<job, request, cached, unsaved>>
    BY <1>2 DEF NextMonth, server
  <2> QED  BY <2>1, <2>2, ServerKeeps
<1> QED  BY <1>1, <1>2

(* Every step keeps the invariant.                                         *)
LEMMA NextKeeps == IInv /\ [Next]_vars => IInv'
<1> SUFFICES ASSUME IInv, [Next]_vars PROVE IInv'
  OBVIOUS
<1>1. ASSUME NEW r \in Trigger, CronTime(r) \/ PostTrigger(r) PROVE IInv'
  BY <1>1, ScheduleKeeps DEF CronTime, PostTrigger
<1>2. ASSUME NEW r \in Trigger, Answer(r) \/ GiveUp(r) PROVE IInv'
  <2>1. Delivered(r) \in BOOLEAN
    BY DEF Delivered
  <2> QED  BY <1>2, <2>1, CountKeeps DEF Answer, GiveUp
<1>3. ASSUME NEW r \in Trigger, JobStep(r) PROVE IInv'
  BY <1>2, <1>3, RunKeeps, LoginKeeps, AwakeKeeps DEF JobStep
<1>4. CASE UNCHANGED vars
  <2>1. TypeOK' /\ month <= month' /\ UNCHANGED <<job, request, cached, unsaved>>
    BY <1>4 DEF vars, job, IInv, TypeOK
  <2> QED  BY <2>1, ServerKeeps DEF IInv
<1> QED  BY <1>1, <1>3, <1>4, ServeKeeps, WorldKeeps, RestartKeeps DEF Next

(* The inductive invariant holds in every behaviour.                       *)
THEOREM Invariance == Spec => []IInv
BY InitIInv, NextKeeps, PTL DEF Spec

(* The variables keep their types, for any triggers, countries and months. *)
THEOREM TypeCorrect == Spec => []TypeOK
<1>1. IInv => TypeOK
  BY DEF IInv
<1> QED  BY <1>1, Invariance, PTL

(* run() never runs twice at once, and the flag says truly whether it does.*)
THEOREM MutualExclusion == Spec => []OneRun
<1>1. IInv => OneRun
  BY DEF IInv
<1> QED  BY <1>1, Invariance, PTL

(* JobResult counts each country of a run once.                            *)
THEOREM CountersCorrect == Spec => []CountersDescribeRun
<1>1. IInv => CountersDescribeRun
  BY DEF IInv
<1> QED  BY <1>1, Invariance, PTL

(* A result that reports success stands for a report of each country.      *)
LEMMA SuccessLeaf == IInv => SuccessMeansDelivered
<1> SUFFICES ASSUME IInv, NEW r \in Trigger, NEW c \in Country, outcome[r] = "success"
             PROVE  request[r][c] = "pdf"
  BY DEF SuccessMeansDelivered
<1>1. pc[r] = "ended"
  BY DEF IInv, PhaseInv
<1>2. failed[r] = 0 /\ at[r] = Countries /\ Answered(r) = at[r] - Skipped
  BY <1>1 DEF IInv, CountersDescribeRun, Answered
<1>3. c <= Skipped + Answered(r)
  BY <1>2, PregenerationAssumption DEF Country
<1> QED  BY <1>1, <1>2, <1>3 DEF IInv, AllReports

(* No country given up on, or answered with an error, is in a success.     *)
THEOREM SuccessDelivered == Spec => []SuccessMeansDelivered
BY SuccessLeaf, Invariance, PTL

(* After a success each country has an object for a month of the run, or   *)
(* an upload that failed.                                                  *)
THEOREM SuccessCached == Spec => []SuccessMeansCached
<1>1. IInv => SuccessMeansCached
  BY SuccessLeaf DEF IInv, SuccessMeansCached, SuccessMeansDelivered, ReportsStored
<1> QED  BY <1>1, Invariance, PTL
=============================================================================
