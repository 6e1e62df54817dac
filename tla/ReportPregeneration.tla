------------------------- MODULE ReportPregeneration -------------------------
(***************************************************************************)
(* The report pre-generation job of services/job-service (scheduler.py,    *)
(* main.py, jobs.py), the report route of services/agent-api it calls      *)
(* (clients.py, services/reports.py) and the S3 cache, whose keys hold a   *)
(* country and the current month (report_cache.py).                        *)
(*                                                                         *)
(* A trigger is one call of run(): by cron, at start-up or by a POST.  A   *)
(* call r asks for the report of country c by the request <<r, c>>, which  *)
(* agent-api goes on serving when the job has given up on it.              *)
(***************************************************************************)
EXTENDS Naturals

CONSTANTS
  Trigger,    (* calls of run()                                            *)
  Countries,  (* how many PRIORITY_COUNTRIES there are                     *)
  Skipped,    (* start_index: countries before start_from_country          *)
  SkipCache,  (* the skip_cache setting                                    *)
  Months      (* bound: months of the calendar                             *)

(* index() finds start_from_country in the list, or the run starts at 0.   *)
ASSUME PregenerationAssumption ==
  /\ Countries \in Nat /\ Skipped \in Nat /\ Skipped < Countries
  /\ SkipCache \in BOOLEAN
  /\ Months \in Nat \ {0}

VARIABLES
  running,  (* _is_running                                                 *)
  pc,       (* where a call of run() is                                    *)
  kind,     (* what made the call                                          *)
  at,       (* the country it is at                                        *)
  ok,       (* succeeded_items of its result                               *)
  failed,   (* failed_items of its result                                  *)
  outcome,  (* success, failures or error once it has ended                *)
  began,    (* the month it started in                                     *)
  request,  (* agent-api's side of the requests of the calls               *)
  cached,   (* keys of the S3 objects                                      *)
  unsaved,  (* keys without an object, of reports that were not stored     *)
  month     (* the calendar, in months                                     *)

job == <<running, pc, kind, at, ok, failed, outcome, began>>
server == <<request, cached, unsaved>>
vars == <<running, pc, kind, at, ok, failed, outcome, began, request,
          cached, unsaved, month>>

(* The countries a run makes; reports of others touch none of their keys.  *)
Country == (Skipped + 1)..Countries
Key == Country \X (1..Months)

Looping == {"login", "request", "delay"}
Busy(r) == pc[r] \in Looping

Init ==
  /\ running = FALSE
  /\ pc = [r \in Trigger |-> "idle"]
  /\ kind = [r \in Trigger |-> "none"]
  /\ at = [r \in Trigger |-> 0]
  /\ ok = [r \in Trigger |-> 0]
  /\ failed = [r \in Trigger |-> 0]
  /\ outcome = [r \in Trigger |-> "none"]
  /\ began = [r \in Trigger |-> 0]
  /\ request = [r \in Trigger |-> [c \in Country |-> "none"]]
  /\ cached = {}
  /\ unsaved = {}
  /\ month = 1
-----------------------------------------------------------------------------
(* The calls of run().                                                     *)

Schedule(r, k) ==
  /\ pc[r] = "idle"
  /\ pc' = [pc EXCEPT ![r] = "scheduled"]
  /\ kind' = [kind EXCEPT ![r] = k]

(* The cron time, which the service may miss; how often a month has one is *)
(* left open.  max_instances = 1 holds back a second call by cron.         *)
CronTime(r) ==
  /\ \A q \in Trigger : kind[q] = "cron" => ~Busy(q) /\ pc[q] # "scheduled"
  /\ Schedule(r, "cron")
  /\ UNCHANGED <<running, at, ok, failed, outcome, began, server, month>>

(* POST trigger: 409 while a run is on; else a background task, which      *)
(* starts when the response is out.                                        *)
PostTrigger(r) ==
  /\ ~running
  /\ Schedule(r, "manual")
  /\ UNCHANGED <<running, at, ok, failed, outcome, began, server, month>>

(* Fault: a second run does not look at the flag.                          *)
Always(r) == TRUE
(* The check at the head of run().                                         *)
MayRun(r) == ~running

(* run(): a call that finds one running returns, and leaves no result.     *)
Run(r) ==
  /\ pc[r] = "scheduled"
  /\ \/ /\ ~MayRun(r)
        /\ pc' = [pc EXCEPT ![r] = "skipped"]
        /\ UNCHANGED <<running, at, began>>
     \/ /\ MayRun(r)
        /\ running' = TRUE
        /\ at' = [at EXCEPT ![r] = Skipped + 1]
        /\ began' = [began EXCEPT ![r] = month]
        /\ pc' = [pc EXCEPT ![r] = "login"]
  /\ UNCHANGED <<kind, ok, failed, outcome, server, month>>

(* Fault: a run that ends does not release the flag.                       *)
EndHolding(r, o) ==
  /\ pc' = [pc EXCEPT ![r] = "ended"]
  /\ outcome' = [outcome EXCEPT ![r] = o]
  /\ UNCHANGED running
(* finally: the flag is released, and the result is final.                 *)
End(r, o) ==
  /\ running' = FALSE
  /\ pc' = [pc EXCEPT ![r] = "ended"]
  /\ outcome' = [outcome EXCEPT ![r] = o]

(* get_access_token: a login, or an exception, which ends the run.         *)
Login(r) ==
  /\ pc[r] = "login"
  /\ \/ /\ pc' = [pc EXCEPT ![r] = "request"]
        /\ request' = [request EXCEPT ![r][at[r]] = "sent"]
        /\ UNCHANGED <<running, outcome>>
     \/ /\ End(r, "error")
        /\ UNCHANGED request
  /\ UNCHANGED <<kind, at, ok, failed, began, cached, unsaved, month>>

(* Fault: a failure of an earlier country is forgotten.                    *)
LastOneCounts(r, success) == IF success THEN "success" ELSE "failures"
(* result.success = failed_items == 0.                                     *)
Verdict(r, success) ==
  IF success /\ failed[r] = 0 THEN "success" ELSE "failures"

(* Fault: the comparison lets the loop run on after the last country.      *)
OneMore(r) == at[r] <= Countries
(* Whether there are countries left.                                       *)
More(r) == at[r] < Countries

(* generate_report returns; the loop sleeps, or is over.                   *)
Count(r, success) ==
  /\ ok' = IF success THEN [ok EXCEPT ![r] = @ + 1] ELSE ok
  /\ failed' = IF success THEN failed ELSE [failed EXCEPT ![r] = @ + 1]
  /\ IF More(r)
       THEN /\ pc' = [pc EXCEPT ![r] = "delay"]
            /\ UNCHANGED <<running, outcome>>
       ELSE End(r, Verdict(r, success))

(* Fault: whatever comes back with status 200 is a report.                 *)
AnyAnswer(r) == request[r][at[r]] \in {"pdf", "error"}
(* 200 with a PDF.                                                         *)
Delivered(r) == request[r][at[r]] = "pdf"

(* The answer: a report, or anything else.                                 *)
Answer(r) ==
  /\ pc[r] = "request"
  /\ request[r][at[r]] \in {"pdf", "error"}
  /\ Count(r, Delivered(r))
  /\ UNCHANGED <<kind, at, began, server, month>>

(* The client's timeout, or a connection that breaks.                      *)
GiveUp(r) ==
  /\ pc[r] = "request"
  /\ Count(r, FALSE)
  /\ UNCHANGED <<kind, at, began, server, month>>

(* delay_between_reports_seconds have passed.                              *)
Awake(r) ==
  /\ pc[r] = "delay"
  /\ at' = [at EXCEPT ![r] = @ + 1]
  /\ pc' = [pc EXCEPT ![r] = "login"]
  /\ UNCHANGED <<running, kind, ok, failed, outcome, began, server, month>>

(* The service is restarted: its calls and its memory are gone.  With      *)
(* run_on_startup it makes a call at once.                                 *)
Stopped(r) == Busy(r) \/ pc[r] = "scheduled"
Forget(f, v) == [r \in Trigger |-> IF Stopped(r) THEN v ELSE f[r]]

Restart ==
  /\ running' = FALSE
  /\ LET pcs == Forget(pc, "killed")
         kinds == Forget(kind, "none")
     IN \/ pc' = pcs /\ kind' = kinds
        \/ \E r \in Trigger :
             /\ pc[r] = "idle"
             /\ pc' = [pcs EXCEPT ![r] = "scheduled"]
             /\ kind' = [kinds EXCEPT ![r] = "startup"]
  /\ at' = Forget(at, 0) /\ ok' = Forget(ok, 0) /\ failed' = Forget(failed, 0)
  /\ began' = Forget(began, 0)
  /\ UNCHANGED <<outcome, server, month>>
-----------------------------------------------------------------------------
(* agent-api and the cache.                                                *)

(* get_cached_report: the object of the country and the current month.     *)
Hit(c) == <<c, month>> \in cached

(* Fault: the key is that of the month the report is meant for.            *)
SaveAhead(c) ==
  /\ cached' = cached \cup {<<c, month + 1>>}
  /\ unsaved' = unsaved \ {<<c, month + 1>>}
(* upload_cached_report: a failure is logged and swallowed, and without    *)
(* S3_HOUSING_PDF_BUCKET nothing is stored: so it may be each time.        *)
Save(c) ==
  \/ /\ cached' = cached \cup {<<c, month>>}
     /\ unsaved' = unsaved \ {<<c, month>>}
  \/ /\ unsaved' = unsaved \cup ({<<c, month>>} \ cached)
     /\ UNCHANGED cached

(* The route.  A cached report is returned unless skip_cache; a look-up    *)
(* that fails counts as a miss.  Else the sections are written, failed     *)
(* ones replaced by a sentence, and rendered and uploaded.  Anything else  *)
(* that raises, authentication included, is an error.  The key holds the   *)
(* month of the upload, not of the look-up.                                *)
Serve(r, c) ==
  /\ request[r][c] = "sent"
  /\ \/ /\ ~SkipCache /\ Hit(c)
        /\ request' = [request EXCEPT ![r][c] = "pdf"]
        /\ UNCHANGED <<cached, unsaved>>
     \/ /\ request' = [request EXCEPT ![r][c] = "pdf"]
        /\ Save(c)
     \/ /\ request' = [request EXCEPT ![r][c] = "error"]
        /\ UNCHANGED <<cached, unsaved>>
  /\ UNCHANGED <<job, month>>

(* Users ask for reports too.  Of such a request only the upload of the    *)
(* report of country c, if it succeeds, changes what is modelled here.     *)
UserReport(c) ==
  /\ cached' = cached \cup {<<c, month>>}
  /\ unsaved' = unsaved \ {<<c, month>>}
  /\ UNCHANGED <<job, request, month>>

NextMonth ==
  /\ month < Months
  /\ month' = month + 1
  /\ UNCHANGED <<job, server>>
-----------------------------------------------------------------------------
JobStep(r) == Run(r) \/ Login(r) \/ Answer(r) \/ GiveUp(r) \/ Awake(r)

Next ==
  \/ \E r \in Trigger : CronTime(r) \/ PostTrigger(r) \/ JobStep(r)
  \/ \E r \in Trigger, c \in Country : Serve(r, c)
  \/ \E c \in Country : UserReport(c)
  \/ Restart \/ NextMonth

Spec == Init /\ [][Next]_vars

(* The event loop resumes a coroutine whose time-out, sleep or answer has  *)
(* come.  agent-api need not answer, and nobody has to trigger anything.   *)
FairSpec == Spec /\ \A r \in Trigger : WF_vars(JobStep(r))
-----------------------------------------------------------------------------
(* The variables have their types (the fields of JobResult, the states of  *)
(* a request, the keys of the S3 objects).                                 *)
TypeOK ==
  /\ running \in BOOLEAN
  /\ pc \in [Trigger -> Looping \cup
              {"idle", "scheduled", "skipped", "ended", "killed"}]
  /\ kind \in [Trigger -> {"none", "cron", "manual", "startup"}]
  /\ at \in [Trigger -> 0..Countries]
  /\ ok \in [Trigger -> Nat]
  /\ failed \in [Trigger -> Nat]
  /\ outcome \in [Trigger -> {"none", "success", "failures", "error"}]
  /\ began \in [Trigger -> 0..Months]
  /\ request \in [Trigger -> [Country -> {"none", "sent", "pdf", "error"}]]
  /\ cached \subseteq Key /\ unsaved \subseteq Key
  /\ month \in 1..Months

(* At most one call is in the loop of run(), whatever made the calls and   *)
(* however the service restarts, and is_running says truly whether one is. *)
OneRun ==
  /\ running <=> \E r \in Trigger : Busy(r)
  /\ \A r, q \in Trigger : Busy(r) /\ Busy(q) => r = q

(* How many of its countries call r has an answer for.                     *)
Answered(r) ==
  IF pc[r] = "delay" \/ (pc[r] = "ended" /\ outcome[r] # "error")
    THEN at[r] - Skipped ELSE at[r] - Skipped - 1

(* The counters of JobResult describe the run at each point: every country *)
(* it has left behind is counted once, a run that ends without an error    *)
(* has counted all of them, and it is a success iff none failed.           *)
CountersDescribeRun ==
  \A r \in Trigger : Busy(r) \/ pc[r] = "ended" =>
    /\ at[r] \in Country
    /\ ok[r] + failed[r] = Answered(r)
    /\ pc[r] = "ended" /\ outcome[r] # "error" =>
         at[r] = Countries /\ (outcome[r] = "success" <=> failed[r] = 0)

(* A result that reports success means that agent-api has made a report of *)
(* every country: none was given up on, and no error passed for a report.  *)
SuccessMeansDelivered ==
  \A r \in Trigger, c \in Country :
    outcome[r] = "success" => request[r][c] = "pdf"

(* There is, or could not be stored, an object of country c and of a month *)
(* since run r began.                                                      *)
Stored(r, c) == \E m \in began[r]..month : <<c, m>> \in cached \cup unsaved

(* After a success the cache holds an object of each country for a month   *)
(* of the run, if each report was stored: neither a cache hit nor a month  *)
(* that turns during the run leaves a country out.                         *)
SuccessMeansCached ==
  \A r \in Trigger, c \in Country : outcome[r] = "success" => Stored(r, c)

(* A run ends, whatever agent-api, auth-service and S3 do: is_running, and *)
(* with it the 409 of the trigger route, does not stay for ever.           *)
RunEnds == running ~> ~running

(* services/job-service/README.md:7: the run "on the 25th of each month"   *)
(* makes the reports, "caching them for the next month": after a run by    *)
(* cron that succeeded, and if no upload failed, requests of the month     *)
(* after it find the report in the cache.                                  *)
PregeneratedForNextMonth ==
  \A r \in Trigger, c \in Country :
    /\ kind[r] = "cron" /\ outcome[r] = "success" /\ unsaved = {}
    /\ month = began[r] + 1
    => Hit(c)
-----------------------------------------------------------------------------
(* The invariant of the proofs.                                            *)

PhaseInv ==
  \A r \in Trigger :
    /\ pc[r] # "ended" => outcome[r] = "none"
    /\ pc[r] = "delay" => More(r)
    /\ began[r] <= month

(* A call that has not begun has sent nothing.                             *)
Unsent ==
  \A r \in Trigger : pc[r] \in {"idle", "scheduled"} =>
    /\ ok[r] = 0 /\ failed[r] = 0 /\ outcome[r] = "none"
    /\ \A c \in Country : request[r][c] = "none"

(* While nothing failed, what run r has an answer for are reports.         *)
AllReports ==
  \A r \in Trigger, c \in Country :
    /\ Busy(r) \/ pc[r] = "ended"
    /\ failed[r] = 0 /\ c <= Skipped + Answered(r)
    => request[r][c] = "pdf"

ReportsStored ==
  \A r \in Trigger, c \in Country : request[r][c] = "pdf" => Stored(r, c)

IInv ==
  /\ TypeOK
  /\ OneRun
  /\ CountersDescribeRun
  /\ PhaseInv
  /\ Unsent
  /\ AllReports
  /\ ReportsStored
=============================================================================
