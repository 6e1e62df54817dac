--------------------------- MODULE IngestionProofs ---------------------------
(***************************************************************************)
(* The inductive invariants of the ingestion pipeline and of the PDF       *)
(* copies beside it (at the end of the module), and what follows           *)
(* from it for any number of calls, forms and files.                       *)
(*                                                                         *)
(* A step is the step of one call.  What it may do to the tables keeps the *)
(* knowledge of the other calls (OtherPhases); steps that leave the tables *)
(* alone need little more (QuietStep), so that the interesting cases are   *)
(* CreateDocument and Activate, which flush a row, and WriteBatch and      *)
(* Commit, which publish one.  What a call may have locked is an invariant *)
(* of its own (LInv), which no other property rests on.                    *)
(***************************************************************************)
EXTENDS DocumentFiles, TLAPS

(* Everything a call owns, except the forms and files it was given.        *)
Locals(q) ==
  <<pc[q], pdoc[q], pjob[q], locked[q], written[q], target[q], seen[q], resp[q]>>

OthersUnchanged(r) == \A q \in Call \ {r} : Locals(q)' = Locals(q)

(* The unique indexes do not order their two rows.                         *)
LEMMA ClashSymmetric ==
  \A f, h, d, g : Clash(f, h, d, g) <=> Clash(d, g, f, h)
BY DEF Clash, SameOwnerContent, SameCountryContent, SameOwnerName

(* What a call knows survives the steps of the others, provided they keep  *)
(* away from its document and its job, and rows only make progress.        *)
LEMMA OtherPhases ==
  ASSUME TypeOK, NEW q \in Call, PhaseInv(q),
         UNCHANGED inputs, Locals(q)' = Locals(q),
         Writes(q) => /\ docs'[form[q]] = docs[form[q]]
                      /\ chunks'[form[q]] = chunks[form[q]],
         Present(pjob[q]) => jobs'[form[q]] = jobs[form[q]],
         \A d \in Form : docs[d] \in DocRow =>
           /\ docs'[d] \in DocRow
           /\ docs'[d].hash = docs[d].hash
           /\ docs[d].status = "active" => docs'[d].status = "active"
  PROVE  PhaseInv(q)'
<1> USE DEF inputs, Locals
<1>1. Writes(q)' = Writes(q)
  BY DEF Writes, Fresh, Present
<1>2. Found(q) => Found(q)'
  BY DEF Found, TypeOK
<1>3. pc[q] \in Fresh \cup {"write", "activate"} => Writes(q)
  BY DEF Writes
<1>4. WriteInv(q) /\ Writes(q) => WriteInv(q)'
  BY DEF WriteInv, Row
<1>5. ActivateInv(q) /\ Writes(q) => ActivateInv(q)'
  BY DEF ActivateInv, Row
<1>6. /\ ActivatedInv(q) => ActivatedInv(q)'
      /\ FailedInv(q) => FailedInv(q)'
  <2>1. ActivatedInv(q) \/ FailedInv(q) => Writes(q)
    BY DEF ActivatedInv, FailedInv, Writes, Present, Row
  <2> QED BY <2>1, <1>5 DEF ActivatedInv, FailedInv, Row
<1>7. pc[q] = "commit" => CommitInv(q)'
  BY <1>2, <1>6 DEF PhaseInv, CommitInv, Job, NoDoc
<1>8. pc[q] = "commitReject" => CommitRejectInv(q)'
  BY <1>6 DEF PhaseInv, CommitRejectInv, Job, NoDoc, NoJob
<1> QED
  BY <1>1, <1>2, <1>3, <1>4, <1>5, <1>6, <1>7, <1>8
  DEF PhaseInv, Writes, Present, Fresh, Row, Job, NoDoc, NoJob

(* The shape of a step of call r: the others' locals and all inputs stay.  *)
StepOf(r) == OthersUnchanged(r) /\ UNCHANGED inputs

(* A step that starts no write and records no job next to another's.       *)
LEMMA SameWriter ==
  ASSUME IInv, NEW r \in Call, StepOf(r),
         Writes(r)' => Writes(r),
         Present(pjob'[r]) => Present(pjob[r]) \/ ~JobWaits(r)
  PROVE  OneWriter'
<1> USE DEF StepOf, OthersUnchanged, Locals, inputs
<1>1. \A q \in Call \ {r} : /\ Writes(q)' = Writes(q)
                            /\ Present(pjob'[q]) = Present(pjob[q])
  BY DEF Writes, Present, Fresh
<1>2. \A q \in Call \ {r} :
        form[q] = form[r] => ~(Present(pjob'[q]) /\ Present(pjob'[r]))
  BY <1>1 DEF IInv, OneWriter, JobWaits
<1>3. \A q \in Call \ {r} : form[q] = form[r] => ~(Writes(q)' /\ Writes(r)')
  BY <1>1 DEF IInv, OneWriter
<1> QED
  BY <1>1, <1>2, <1>3 DEF IInv, OneWriter

(* A step that flushes no document row and leaves the committed ones.      *)
LEMMA SameRows ==
  ASSUME IInv, NEW r \in Call, StepOf(r), UNCHANGED docs,
         Present(pdoc'[r]) => Present(pdoc[r])
  PROVE  NoClash'
<1> USE DEF StepOf, OthersUnchanged, Locals, inputs
<1>1. \A q \in Call : Present(pdoc'[q]) => Present(pdoc[q])
  OBVIOUS
<1> QED
  BY <1>1 DEF IInv, NoClash, Clash, SameOwnerContent, SameCountryContent,
              SameOwnerName, Present

(* A step that leaves the tables alone and answers neither 200 nor 400.    *)
LEMMA QuietStep ==
  ASSUME IInv, NEW r \in Call, StepOf(r), UNCHANGED tables,
         TypeOK', PhaseInv(r)', OneWriter', NoClash',
         resp'[r] \notin {"ok", "rejected"}
  PROVE  IInv'
<1> USE DEF StepOf, OthersUnchanged, tables
<1>1. \A q \in Call \ {r} : PhaseInv(q)'
  <2> TAKE q \in Call \ {r}
  <2>1. TypeOK /\ PhaseInv(q) /\ q \in Call
    BY DEF IInv
  <2>2. \A d \in Form : docs[d] \in DocRow =>
           /\ docs'[d] \in DocRow
           /\ docs'[d].hash = docs[d].hash
           /\ docs[d].status = "active" => docs'[d].status = "active"
    OBVIOUS
  <2>3. /\ Writes(q) => /\ docs'[form[q]] = docs[form[q]]
                       /\ chunks'[form[q]] = chunks[form[q]]
        /\ Present(pjob[q]) => jobs'[form[q]] = jobs[form[q]]
    OBVIOUS
  <2>4. UNCHANGED inputs /\ Locals(q)' = Locals(q)
    OBVIOUS
  <2> QED BY <2>1, <2>2, <2>3, <2>4, OtherPhases
<1>2. ActiveDocumentsComplete' /\ OutcomeHasItsJob'
  BY DEF IInv, ActiveDocumentsComplete, OutcomeHasItsJob
<1>3. RejectionIsRecorded'
  BY DEF IInv, RejectionIsRecorded, Locals, inputs
<1>4. CompletedMeansSearchable'
  BY DEF IInv, CompletedMeansSearchable, Locals, inputs
<1> QED
  BY <1>1, <1>2, <1>3, <1>4 DEF IInv
-----------------------------------------------------------------------------
(* The steps that leave the tables alone and flush no new document row.    *)

(* A step that only moves the label, or the answer's document.             *)
LEMMA LabelStep ==
  ASSUME IInv, NEW r \in Call, StepOf(r), UNCHANGED <<tables, pdoc, pjob>>,
         TypeOK', PhaseInv(r)', Writes(r)' => Writes(r),
         resp'[r] \notin {"ok", "rejected"}
  PROVE  IInv'
<1>1. OneWriter'
  BY SameWriter
<1>2. NoClash'
  BY SameRows DEF tables
<1> QED
  BY <1>1, <1>2, QuietStep

(* A form that is posted takes nobody else's identifiers.                  *)
LEMMA CompleteUploadStep ==
  ASSUME IInv, NEW r \in Call, CompleteUpload(r) PROVE IInv'
<1> USE DEF CompleteUpload, Answer, Goto, tables, inputs, pending, local
<1>1. TypeOK'
  BY DEF IInv, TypeOK, Label, DbLabel, Refreshing, Concluding, Reply
<1>2. StepOf(r) /\ ~Writes(r)'
  BY DEF IInv, TypeOK, StepOf, OthersUnchanged, Locals, Writes, Fresh,
         PhaseInv, Present, NoDoc
<1>3. PhaseInv(r)'
  BY DEF IInv, TypeOK, PhaseInv, Fresh, Present, NoDoc, NoJob
<1>4. resp'[r] \notin {"ok", "rejected"}
  BY DEF IInv, TypeOK, PhaseInv
<1> QED
  BY <1>1, <1>2, <1>3, <1>4, LabelStep

(* The look-up writes nothing.                                             *)
LEMMA FindDuplicateStep ==
  ASSUME IInv, NEW r \in Call, FindDuplicate(r) PROVE IInv'
<1> USE DEF FindDuplicate, Goto, tables, inputs, pending
<1>1. TypeOK'
  <2>1. \A d \in Duplicates(r) :
          d \in Form /\ docs[d].status \in {"ingesting", "active", "failed"}
    BY DEF IInv, TypeOK, Duplicates, Present, DocRow, NoDoc
  <2> QED
    BY <2>1 DEF IInv, TypeOK, Label, DbLabel, Refreshing, Concluding
<1>2. StepOf(r) /\ ~Writes(r)'
  BY DEF IInv, TypeOK, StepOf, OthersUnchanged, Locals, Writes, Fresh,
         PhaseInv, Present, NoDoc
<1>3. PhaseInv(r)'
  <2>1. pc'[r] = "dedupe" => Found(r)'
    BY DEF IInv, TypeOK, Found, Duplicates, Present, NoDoc
  <2> QED
    BY <2>1 DEF IInv, TypeOK, PhaseInv, Fresh, Present, NoDoc, NoJob
<1>4. resp'[r] \notin {"ok", "rejected"}
  BY DEF IInv, TypeOK, PhaseInv
<1> QED
  BY <1>1, <1>2, <1>3, <1>4, LabelStep

(* The hook of an insert writes a derived table.                           *)
LEMMA EnlistStep ==
  ASSUME IInv, NEW r \in Call, Enlist(r) PROVE IInv'
<1> USE DEF Enlist, Goto, tables, inputs, pending, local
<1>1. TypeOK'
  BY DEF IInv, TypeOK, Label, DbLabel
<1>2. StepOf(r) /\ Writes(r)
  BY DEF IInv, TypeOK, StepOf, OthersUnchanged, Locals, Writes, Fresh
<1>3. PhaseInv(r)'
  BY DEF IInv, TypeOK, PhaseInv, Fresh, Present, NoDoc, NoJob
<1>4. resp'[r] \notin {"ok", "rejected"}
  BY DEF IInv, TypeOK, PhaseInv
<1> QED
  BY <1>1, <1>2, <1>3, <1>4, LabelStep

(* Conversion writes nothing.                                              *)
LEMMA ConvertStep ==
  ASSUME IInv, NEW r \in Call, Convert(r) PROVE IInv'
<1> USE DEF Convert, Goto, tables, inputs, pending, local
<1>1. TypeOK'
  BY DEF IInv, TypeOK, Label, DbLabel, Refreshing, Concluding
<1>2. StepOf(r) /\ Writes(r)
  BY DEF IInv, TypeOK, StepOf, OthersUnchanged, Locals, Writes, Fresh
<1>3. PhaseInv(r)'
  BY DEF IInv, TypeOK, PhaseInv, Fresh, Present, NoDoc, NoJob
<1>4. resp'[r] \notin {"ok", "rejected"}
  BY DEF IInv, TypeOK, PhaseInv
<1> QED
  BY <1>1, <1>2, <1>3, <1>4, LabelStep

(* Nor does chunking.                                                      *)
LEMMA ChunkStep ==
  ASSUME IInv, NEW r \in Call, Chunk(r) PROVE IInv'
<1> USE DEF Chunk, Goto, tables, inputs, pending, local
<1>1. TypeOK'
  BY DEF IInv, TypeOK, Label, DbLabel, Refreshing, Concluding
<1>2. StepOf(r) /\ Writes(r)
  BY DEF IInv, TypeOK, StepOf, OthersUnchanged, Locals, Writes, Fresh
<1>3. PhaseInv(r)'
  BY DEF IInv, TypeOK, PhaseInv, Fresh, Present, NoDoc, NoJob
<1>4. resp'[r] \notin {"ok", "rejected"}
  BY DEF IInv, TypeOK, PhaseInv
<1> QED
  BY <1>1, <1>2, <1>3, <1>4, LabelStep

(* Nor does embedding.                                                     *)
LEMMA EmbedStep ==
  ASSUME IInv, NEW r \in Call, Embed(r) PROVE IInv'
<1> USE DEF Embed, Goto, tables, inputs, pending, local
<1>1. TypeOK'
  BY DEF IInv, TypeOK, Label, DbLabel, Refreshing, Concluding
<1>2. StepOf(r) /\ Writes(r)
  BY DEF IInv, TypeOK, StepOf, OthersUnchanged, Locals, Writes, Fresh
<1>3. PhaseInv(r)'
  <2>1. pc'[r] = "write" => WriteInv(r)'
    BY IngestionAssumption
    DEF IInv, TypeOK, PhaseInv, WriteInv, Fresh, ActiveDocumentsComplete, NoDoc
  <2> QED
    BY <2>1 DEF IInv, TypeOK, PhaseInv, Fresh, Present, NoDoc, NoJob
<1>4. resp'[r] \notin {"ok", "rejected"}
  BY DEF IInv, TypeOK, PhaseInv
<1> QED
  BY <1>1, <1>2, <1>3, <1>4, LabelStep

(* An error is a roll-back to come.                                        *)
LEMMA DbErrorStep ==
  ASSUME IInv, NEW r \in Call, DbError(r) PROVE IInv'
<1> USE DEF DbError, Goto, tables, inputs, pending, local
<1>1. TypeOK'
  BY DEF IInv, TypeOK, Label
<1>2. StepOf(r) /\ (Writes(r)' => Writes(r))
  BY DEF IInv, TypeOK, StepOf, OthersUnchanged, Locals, Writes, Fresh
<1>3. PhaseInv(r)'
  BY DEF IInv, TypeOK, PhaseInv, DbLabel, Refreshing, Concluding, Fresh,
         Present, NoDoc, NoJob
<1>4. resp'[r] \notin {"ok", "rejected"}
  BY DEF IInv, TypeOK, PhaseInv, DbLabel, Refreshing, Concluding
<1> QED
  BY <1>1, <1>2, <1>3, <1>4, LabelStep

(* A lock that is taken changes no row.                                    *)
LEMMA LockStep ==
  ASSUME IInv, NEW r \in Call, NEW l \in Form \cup {View}, Lock(r, l),
         pc[r] \notin {"idle", "done"}
  PROVE  IInv'
<1> USE DEF Lock, tables, inputs, local
<1>1. TypeOK'
  BY DEF IInv, TypeOK
<1>2. StepOf(r) /\ (Writes(r)' => Writes(r))
  BY DEF IInv, TypeOK, StepOf, OthersUnchanged, Locals, Writes, Present
<1>3. PhaseInv(r)'
  BY DEF IInv, PhaseInv, WriteInv, ActivateInv, ActivatedInv, FailedInv,
         CommitInv, CommitRejectInv, Found, Present
<1>4. resp'[r] \notin {"ok", "rejected"}
  BY DEF IInv, TypeOK, PhaseInv
<1> QED
  BY <1>1, <1>2, <1>3, <1>4, LabelStep

(* The rows of a base country and the view are what is locked.             *)
LEMMA LockSteps ==
  ASSUME IInv, NEW r \in Call, LockRow(r) \/ LockView(r) PROVE IInv'
<1>1. PICK l \in Form \cup {View} : Lock(r, l)
  BY DEF LockRow, LockView, BaseRows
<1>2. pc[r] \notin {"idle", "done"}
  BY DEF LockRow, LockView, Refreshing, Concluding
<1> QED
  BY <1>1, <1>2, LockStep

(* The victim of a deadlock rolls back.                                    *)
LEMMA BreakDeadlockStep ==
  ASSUME IInv, NEW r \in Call, BreakDeadlock(r) PROVE IInv'
<1> USE DEF BreakDeadlock, Goto, tables, inputs, pending, local
<1>0. /\ pc[r] \notin {"idle", "done"}
      /\ PhaseInv(r)
  BY DEF Deadlocked, WaitsFor, Refreshing, Concluding, IInv
<1>1. TypeOK'
  BY DEF IInv, TypeOK, Label
<1>2. StepOf(r) /\ (Writes(r)' => Writes(r))
  BY DEF IInv, TypeOK, StepOf, OthersUnchanged, Locals, Writes, Fresh, Present
<1>3. PhaseInv(r)'
  BY <1>0 DEF IInv, TypeOK, PhaseInv, Fresh, Present, NoDoc, NoJob
<1>4. resp'[r] \notin {"ok", "rejected"}
  BY <1>0 DEF IInv, TypeOK, PhaseInv
<1> QED
  BY <1>1, <1>2, <1>3, <1>4, LabelStep

(* The second refresh of an activated document's country changes no row.   *)
LEMMA RefreshAgainStep ==
  ASSUME IInv, NEW r \in Call, RefreshAgain(r) PROVE IInv'
<1> USE DEF RefreshAgain, Goto, tables, inputs, pending, local
<1>1. TypeOK'
  BY DEF IInv, TypeOK, Label, DbLabel
<1>2. StepOf(r) /\ (Writes(r)' => Writes(r))
  BY DEF IInv, TypeOK, StepOf, OthersUnchanged, Locals, Writes, Fresh, Present
<1>3. PhaseInv(r)'
  <2>1. ActivatedInv(r) /\ pjob[r] = Job("succeeded", form[r])
    BY DEF IInv, PhaseInv
  <2>2. CommitInv(r)'
    BY <2>1 DEF CommitInv, ActivatedInv, ActivateInv
  <2> QED
    BY <2>2 DEF IInv, TypeOK, PhaseInv, Fresh, Present
<1>4. resp'[r] \notin {"ok", "rejected"}
  BY DEF IInv, TypeOK, PhaseInv
<1> QED
  BY <1>1, <1>2, <1>3, <1>4, LabelStep

(* A form that expires changes no row.                                     *)
LEMMA ExpireStep ==
  ASSUME IInv, NEW f \in Form, Expire(f) PROVE IInv'
<1> USE DEF Expire, tables, inputs, pending, local
<1>1. TypeOK'
  BY DEF IInv, TypeOK
<1>2. \A r \in Call : PhaseInv(r)'
  BY DEF IInv, PhaseInv, WriteInv, ActivateInv, ActivatedInv, FailedInv,
         CommitInv, CommitRejectInv, Found, Present, NoDoc, NoJob
<1>3. OneWriter' /\ NoClash'
  BY DEF IInv, OneWriter, Writes, NoClash, Present, Clash, SameOwnerContent,
         SameCountryContent, SameOwnerName
<1>4. /\ ActiveDocumentsComplete' /\ OutcomeHasItsJob'
      /\ RejectionIsRecorded' /\ CompletedMeansSearchable'
  BY DEF IInv, ActiveDocumentsComplete, OutcomeHasItsJob, RejectionIsRecorded,
         CompletedMeansSearchable
<1> QED
  BY <1>1, <1>2, <1>3, <1>4 DEF IInv
-----------------------------------------------------------------------------
(* The steps that record a job, or give up what is flushed.                *)

LEMMA RecordDedupedStep ==
  ASSUME IInv, NEW r \in Call, RecordDeduped(r) PROVE IInv'
<1> USE DEF RecordDeduped, RecordJob, Goto, tables, inputs, local
<1>1. TypeOK'
  BY DEF IInv, TypeOK, Label, DbLabel, Refreshing, Concluding, Job, JobRow
<1>2. StepOf(r) /\ ~Writes(r)' /\ ~JobWaits(r)
  BY DEF IInv, TypeOK, StepOf, OthersUnchanged, Locals, Writes, Fresh,
         PhaseInv, Present, NoDoc
<1>3. PhaseInv(r)'
  <2>1. pdoc'[r] = NoDoc /\ Found(r)' /\ resp'[r] = "none"
    BY DEF IInv, PhaseInv, Found
  <2>2. CASE JobTaken(r)
    <3>1. pc'[r] = "conflict" /\ pjob'[r] = NoJob
      BY <2>2 DEF IInv, TypeOK, PhaseInv
    <3> QED BY <2>1, <3>1 DEF PhaseInv, Fresh, Present, NoDoc, NoJob
  <2>3. CASE ~JobTaken(r)
    <3>1. pc'[r] = "commit" /\ pjob'[r] = Job("succeeded", target[r])
      BY <2>3 DEF IInv, TypeOK
    <3>2. jobs'[form[r]] = NoJob
      BY <2>3 DEF IInv, TypeOK, JobTaken, Present, JobRow, NoJob
    <3>3. CommitInv(r)'
      BY <2>1, <3>1 DEF CommitInv
    <3> QED BY <2>1, <3>1, <3>2, <3>3 DEF PhaseInv, Fresh, Present, NoDoc
  <2> QED BY <2>2, <2>3
<1>4. resp'[r] \notin {"ok", "rejected"}
  BY DEF IInv, TypeOK, PhaseInv
<1>5. OneWriter'
  BY <1>2, SameWriter
<1>6. NoClash'
  BY <1>2, SameRows
<1> QED
  BY <1>1, <1>2, <1>3, <1>4, <1>5, <1>6, QuietStep

(* A failure is written to the call's own row.                             *)
LEMMA FailDocumentStep ==
  ASSUME IInv, NEW r \in Call, FailDocument(r) PROVE IInv'
<1> USE DEF FailDocument, Goto, tables, inputs
<1>1. TypeOK'
  BY DEF IInv, TypeOK, Label, DbLabel, Concluding, Row, DocRow
<1>2. StepOf(r) /\ Writes(r) /\ Present(pdoc[r])
  BY DEF IInv, TypeOK, StepOf, OthersUnchanged, Locals, Writes, Fresh,
         PhaseInv, Present, Row
<1>3. PhaseInv(r)'
  <2>1. /\ FailedInv(r)'
        /\ resp'[r] = "none" /\ pjob'[r] = NoJob
        /\ pc'[r] \in {"rejecting", "aborting"}
    BY DEF IInv, TypeOK, PhaseInv, Fresh, FailedInv
  <2> QED
    BY <2>1 DEF PhaseInv, FailedInv, Fresh, Present, Row, NoJob
<1>4. resp'[r] \notin {"ok", "rejected"}
  BY DEF IInv, TypeOK, PhaseInv
<1>5. OneWriter'
  BY <1>2, SameWriter
<1>6. NoClash'
  BY <1>2, SameRows
<1> QED
  BY <1>1, <1>2, <1>3, <1>4, <1>5, <1>6, QuietStep

(* The job of an outcome, with the view locked.                            *)
LEMMA RecordOutcomeStep ==
  ASSUME IInv, NEW r \in Call, RecordOutcome(r) PROVE IInv'
<1> USE DEF RecordOutcome, RecordJob, Goto, tables, inputs, local
<1>1. TypeOK'
  BY DEF IInv, TypeOK, Label, DbLabel, Refreshing, Concluding, Job, JobRow
<1>2. StepOf(r) /\ Writes(r) /\ Present(pdoc[r]) /\ ~JobWaits(r)
  BY DEF IInv, TypeOK, StepOf, OthersUnchanged, Locals, Writes, Concluding,
         PhaseInv, ActivatedInv, FailedInv, Present, Row
<1>3. PhaseInv(r)'
  <2>1. /\ pc[r] = "activating" => ActivatedInv(r) /\ ActivatedInv(r)'
        /\ pc[r] # "activating" => FailedInv(r) /\ FailedInv(r)'
        /\ pdoc'[r] = pdoc[r] /\ Present(pdoc'[r])
        /\ pdoc[r].hash = content[r]
        /\ docs[form[r]] \in {NoDoc, Row(content[r], "ingesting")}
        /\ resp'[r] = "none" /\ pc[r] \in Concluding
    BY <1>2 DEF IInv, PhaseInv, Concluding, ActivatedInv, ActivateInv, FailedInv
  <2>2. CASE JobTaken(r)
    <3>1. pc'[r] = "conflict" /\ pjob'[r] = NoJob
      BY <2>2 DEF IInv, TypeOK, PhaseInv, Concluding
    <3> QED BY <2>1, <3>1 DEF PhaseInv, Fresh, Present, NoJob
  <2>3. CASE ~JobTaken(r) /\ pc[r] = "activating"
    <3>1. pc'[r] \in {"commit", "refresh"} /\ pjob'[r] = Job("succeeded", form[r])
      BY <2>3 DEF IInv, TypeOK
    <3>2. jobs'[form[r]] = NoJob
      BY <2>3 DEF IInv, TypeOK, JobTaken, Present, JobRow, NoJob
    <3>3. CommitInv(r)'
      BY <2>1, <2>3, <3>1 DEF CommitInv
    <3> QED BY <2>1, <2>3, <3>1, <3>2, <3>3 DEF PhaseInv, Fresh, Present
  <2>4. CASE ~JobTaken(r) /\ pc[r] # "activating"
    <3>1. /\ pc'[r] \in {"commitReject", "error"}
          /\ pjob'[r] = Job("failed", form[r])
      BY <2>4 DEF IInv, TypeOK
    <3>2. jobs'[form[r]] = NoJob
      BY <2>4 DEF IInv, TypeOK, JobTaken, Present, JobRow, NoJob
    <3>3. CommitRejectInv(r)'
      BY <2>1, <2>4, <3>1 DEF CommitRejectInv
    <3> QED BY <2>1, <2>4, <3>1, <3>2, <3>3 DEF PhaseInv, Fresh, Present
  <2> QED BY <2>2, <2>3, <2>4
<1>4. resp'[r] \notin {"ok", "rejected"}
  BY DEF IInv, TypeOK, PhaseInv, Concluding
<1>5. OneWriter'
  BY <1>2, SameWriter
<1>6. NoClash'
  BY <1>2, SameRows
<1> QED
  BY <1>1, <1>2, <1>3, <1>4, <1>5, <1>6, QuietStep

(* Giving up one's rows and answering 500, or nothing at all.              *)
LEMMA DiscardStep ==
  ASSUME IInv, NEW r \in Call, NEW a \in {"conflict", "error", "lost"},
         Discard(r), Answer(r, a),
         UNCHANGED <<tables, expired, inputs, local>>
  PROVE  IInv'
<1> USE DEF Discard, Answer, Goto, tables, inputs, local
<1>1. TypeOK'
  BY DEF IInv, TypeOK, Label, Reply
<1>2. StepOf(r) /\ ~Writes(r)' /\ ~Present(pjob'[r]) /\ ~Present(pdoc'[r])
  BY DEF IInv, TypeOK, StepOf, OthersUnchanged, Locals, Writes, Fresh,
         Present, NoDoc, NoJob
<1>3. PhaseInv(r)'
  BY DEF IInv, TypeOK, PhaseInv, Fresh, Present, NoDoc, NoJob
<1>4. resp'[r] \notin {"ok", "rejected"}
  BY DEF IInv, TypeOK
<1>5. OneWriter'
  BY <1>2, SameWriter
<1>6. NoClash'
  BY <1>2, SameRows
<1> QED
  BY <1>1, <1>2, <1>3, <1>4, <1>5, <1>6, QuietStep

(* A roll-back undoes what was flushed.                                    *)
LEMMA RollbackStep ==
  ASSUME IInv, NEW r \in Call, Rollback(r) PROVE IInv'
<1>1. pc[r] \in {"conflict", "error", "lost"}
  BY DEF Rollback
<1> QED
  BY <1>1, DiscardStep DEF Rollback

(* So does a crash.                                                        *)
LEMMA CrashStep ==
  ASSUME IInv, NEW r \in Call, Crash(r) PROVE IInv'
BY DiscardStep DEF Crash
-----------------------------------------------------------------------------
(* The steps that flush a document row.                                    *)

(* The row of a new document, which no committed row refuses and no other  *)
(* session may clash with.                                                 *)
LEMMA FlushRow ==
  ASSUME IInv, NEW r \in Call, StepOf(r), UNCHANGED <<docs, pjob>>,
         pc[r] = "create", ~Refused(form[r], content[r]), ~Waits(r, content[r])
  PROVE  OneWriter' /\ NoClash'
<1> USE DEF StepOf, OthersUnchanged, Locals, inputs
<1>1. \A q \in Call \ {r} :
        Present(pdoc[q]) => /\ form[q] # form[r]
                            /\ ~Clash(form[r], content[r], form[q], content[q])
  BY DEF Waits, IInv, PhaseInv
<1>2. docs[form[r]] = NoDoc
  BY DEF Refused, IInv, TypeOK, DocRow, Present
<1>3. \A q \in Call \ {r} : form[q] = form[r] => ~Writes(q)
  <2> SUFFICES ASSUME NEW q \in Call \ {r}, form[q] = form[r], Writes(q)
               PROVE  FALSE
    OBVIOUS
  <2>1. ~Present(pdoc[q])
    BY <1>1
  <2>2. PhaseInv(q)
    BY DEF IInv
  <2>3. pc[q] \in {"write", "activate"}
    BY <2>1, <2>2 DEF Writes, PhaseInv, Present, Row
  <2> QED
    BY <1>2, <2>1, <2>2, <2>3
    DEF PhaseInv, WriteInv, ActivateInv, Present, Row, NoDoc
<1>4. \A q \in Call \ {r} : Writes(q)' = Writes(q)
  BY DEF Writes, Present, Fresh
<1>5. OneWriter'
  BY <1>3, <1>4 DEF IInv, OneWriter, Present
<1>6. \A d \in Form : Present(docs[d]) =>
        ~Clash(form[r], content[r], d, docs[d].hash)
  BY DEF Refused
<1>7. NoClash'
  <2>1. \A d, e \in Form :
          d # e /\ Present(docs'[d]) /\ Present(docs'[e]) =>
            ~Clash(d, docs'[d].hash, e, docs'[e].hash)
    BY DEF IInv, NoClash
  <2>2. \A q \in Call, d \in Form :
          Present(pdoc'[q]) /\ d # form[q] /\ Present(docs[d]) =>
            ~Clash(form[q], content[q], d, docs[d].hash)
    BY <1>6 DEF IInv, NoClash
  <2>3. \A p, q \in Call :
          p # q /\ Present(pdoc'[p]) /\ Present(pdoc'[q]) =>
            ~Clash(form[p], content[p], form[q], content[q])
    BY <1>1, ClashSymmetric DEF IInv, NoClash
  <2> QED
    BY <2>1, <2>2, <2>3 DEF NoClash, Clash, SameOwnerContent,
       SameCountryContent, SameOwnerName, Present
<1> QED
  BY <1>5, <1>7

(* An insert clashes with no other row.                                    *)
LEMMA CreateDocumentStep ==
  ASSUME IInv, NEW r \in Call, CreateDocument(r) PROVE IInv'
<1> USE DEF CreateDocument, Goto, tables, inputs
<1>1. TypeOK'
  BY DEF IInv, TypeOK, Label, DbLabel, Refreshing, Concluding, NewRow, Row, DocRow
<1>2. StepOf(r) /\ resp'[r] = "none" /\ pjob'[r] = NoJob /\ written'[r] = 0
  BY DEF IInv, TypeOK, StepOf, OthersUnchanged, Locals, PhaseInv
<1>3. CASE pdoc' = pdoc
  <2>1. pdoc'[r] = NoDoc /\ pc'[r] \in {"commitReject", "conflict"}
    BY <1>3, <1>1 DEF IInv, TypeOK, PhaseInv, NewRow, Row, NoDoc
  <2>2. pc'[r] = "commitReject" => form[r] \in BadMetadata
    BY <1>3, <2>1 DEF IInv, TypeOK, PhaseInv, NewRow, Row, NoDoc
  <2>3. PhaseInv(r)'
    BY <1>2, <2>1, <2>2
    DEF PhaseInv, CommitRejectInv, Fresh, Present, NoDoc, NoJob
  <2>4. ~Writes(r)'
    BY <2>1 DEF Writes, Fresh, Present, NoDoc
  <2> QED
    BY <1>1, <1>2, <1>3, <2>3, <2>4, LabelStep DEF pending
<1>4. CASE pdoc' # pdoc
  <2>1. /\ ~Refused(form[r], content[r])
        /\ ~Waits(r, content[r])
        /\ pdoc'[r] = Row(content[r], "ingesting")
        /\ pc'[r] = "enlist"
    BY <1>4 DEF IInv, TypeOK, NewRow
  <2>2. docs[form[r]] = NoDoc
    BY <2>1 DEF Refused, IInv, TypeOK, DocRow, Present
  <2>3. PhaseInv(r)'
    BY <1>2, <2>1, <2>2
    DEF IInv, PhaseInv, Fresh, Present, Row, NoJob
  <2>4. OneWriter' /\ NoClash'
    BY <1>2, <2>1, FlushRow
  <2> QED
    BY <1>1, <1>2, <2>3, <2>4, QuietStep
<1> QED
  BY <1>3, <1>4

(* The row of a document the call has committed before.                    *)
LEMMA ActivateStep ==
  ASSUME IInv, NEW r \in Call, Activate(r) PROVE IInv'
<1> USE DEF Activate, Goto, tables, inputs
<1>1. TypeOK'
  BY DEF IInv, TypeOK, Label, DbLabel, Concluding, Row, DocRow
<1>2. StepOf(r) /\ Writes(r)
  BY DEF IInv, TypeOK, StepOf, OthersUnchanged, Locals, Writes
<1>3. ActivateInv(r) /\ ActivateInv(r)'
  BY DEF IInv, PhaseInv, ActivateInv
<1>4. /\ pdoc'[r] = Row(content[r], "active")
      /\ target'[r] = form[r]
      /\ resp'[r] = "none" /\ pjob'[r] = NoJob
      /\ pc'[r] = "activating"
  BY DEF IInv, TypeOK, PhaseInv
<1>5. PhaseInv(r)'
  BY <1>3, <1>4 DEF PhaseInv, ActivatedInv, ActivateInv, Fresh, Present, Row, NoJob
<1>6. OneWriter'
  BY <1>2, <1>4, SameWriter DEF Present, NoJob
<1>7. NoClash'
  <2> USE <1>2 DEF StepOf, OthersUnchanged, Locals
  <2>1. Present(docs[form[r]]) /\ docs[form[r]].hash = content[r]
    BY <1>3 DEF ActivateInv, Row, Present
  <2>2. \A q \in Call \ {r} : Present(pdoc[q]) => form[q] # form[r]
    BY DEF IInv, OneWriter, Writes
  <2>3. \A q \in Call, d \in Form :
          Present(pdoc'[q]) /\ d # form[q] /\ Present(docs[d]) =>
            ~Clash(form[q], content[q], d, docs[d].hash)
    BY <2>1 DEF IInv, TypeOK, NoClash
  <2>4. \A q \in Call \ {r} : Present(pdoc[q]) =>
          ~Clash(form[q], content[q], form[r], content[r])
    BY <2>1, <2>2 DEF IInv, TypeOK, NoClash
  <2>5. \A p, q \in Call :
          p # q /\ Present(pdoc'[p]) /\ Present(pdoc'[q]) =>
            ~Clash(form[p], content[p], form[q], content[q])
    BY <2>4, ClashSymmetric DEF IInv, NoClash
  <2> QED
    BY <2>3, <2>5 DEF IInv, NoClash, Clash, SameOwnerContent,
       SameCountryContent, SameOwnerName, Present
<1> QED
  BY <1>1, <1>2, <1>4, <1>5, <1>6, <1>7, QuietStep
-----------------------------------------------------------------------------
(* The steps that commit.                                                  *)

(* Committing the flushed row, and touching only one's own document and    *)
(* job, disturbs no other call and lets no two rows clash.                 *)
LEMMA PublishRows ==
  ASSUME IInv, NEW r \in Call, StepOf(r),
         docs' = CommittedDocs(r), ~Present(pdoc'[r]),
         Writes(r)' => Writes(r),
         Present(pjob'[r]) => Present(pjob[r]),
         \A f \in Form \ {form[r]} :
           chunks'[f] = chunks[f] /\ jobs'[f] = jobs[f],
         Writes(r) \/ chunks'[form[r]] = chunks[form[r]],
         Present(pjob[r]) \/ jobs'[form[r]] = jobs[form[r]]
  PROVE  (\A q \in Call \ {r} : PhaseInv(q)') /\ OneWriter' /\ NoClash'
<1> USE DEF StepOf, OthersUnchanged
<1>1. Present(pdoc[r]) => /\ pdoc[r] \in DocRow
                          /\ pdoc[r].hash = content[r]
                          /\ docs[form[r]] \in {NoDoc, Row(content[r], "ingesting")}
                          /\ docs' = [docs EXCEPT ![form[r]] = pdoc[r]]
  BY DEF IInv, TypeOK, PhaseInv, CommittedDocs, Present,
         NoDoc
<1>2. ~Present(pdoc[r]) => docs' = docs
  BY DEF CommittedDocs
<1>3. \A d \in Form : docs[d] \in DocRow =>
        /\ docs'[d] \in DocRow
        /\ docs'[d].hash = docs[d].hash
        /\ docs[d].status = "active" => docs'[d].status = "active"
  BY <1>1, <1>2 DEF IInv, TypeOK, Row, NoDoc, DocRow
<1>4. \A f \in Form \ {form[r]} : docs'[f] = docs[f]
  BY <1>1, <1>2 DEF IInv, TypeOK
<1>5. \A q \in Call \ {r} : PhaseInv(q)'
  <2> TAKE q \in Call \ {r}
  <2>1. TypeOK /\ PhaseInv(q) /\ q \in Call /\ form[q] \in Form
    BY DEF IInv, TypeOK
  <2>2. Writes(q) => /\ docs'[form[q]] = docs[form[q]]
                     /\ chunks'[form[q]] = chunks[form[q]]
    BY <2>1, <1>2, <1>4 DEF IInv, OneWriter, Writes
  <2>3. Present(pjob[q]) => jobs'[form[q]] = jobs[form[q]]
    BY <2>1 DEF IInv, OneWriter
  <2>4. UNCHANGED inputs /\ Locals(q)' = Locals(q)
    OBVIOUS
  <2> QED
    BY <2>1, <2>2, <2>3, <2>4, <1>3, OtherPhases
<1>6. OneWriter'
  BY SameWriter
<1>7. NoClash'
  <2> USE DEF Locals, inputs
  <2>1. form[r] \in Form
    BY DEF IInv, TypeOK
  <2>2. \A d \in Form : Present(docs'[d]) =>
          \/ Present(docs[d]) /\ docs'[d].hash = docs[d].hash
          \/ Present(pdoc[r]) /\ d = form[r] /\ docs'[d].hash = content[r]
    <3>1. CASE Present(pdoc[r])
      BY <1>1, <1>4, <2>1, <3>1 DEF IInv, TypeOK
    <3>2. CASE ~Present(pdoc[r])
      BY <1>2, <3>2
    <3> QED
      BY <3>1, <3>2
  <2>3. \A d, e \in Form :
          d # e /\ Present(docs'[d]) /\ Present(docs'[e]) =>
            ~Clash(d, docs'[d].hash, e, docs'[e].hash)
    BY <2>2, ClashSymmetric DEF IInv, NoClash
  <2>4. \A q \in Call, d \in Form :
          Present(pdoc'[q]) /\ d # form[q] /\ Present(docs'[d]) =>
            ~Clash(form[q], content[q], d, docs'[d].hash)
    BY <2>2, ClashSymmetric DEF IInv, NoClash
  <2>5. \A p, q \in Call :
          p # q /\ Present(pdoc'[p]) /\ Present(pdoc'[q]) =>
            ~Clash(form[p], content[p], form[q], content[q])
    BY DEF IInv, NoClash
  <2> QED
    BY <2>3, <2>4, <2>5 DEF NoClash, Clash, SameOwnerContent,
       SameCountryContent, SameOwnerName, Present
<1> QED
  BY <1>5, <1>6, <1>7

(* A batch commits what the counter says.                                  *)
LEMMA WriteBatchStep ==
  ASSUME IInv, NEW r \in Call, WriteBatch(r) PROVE IInv'
<1> USE DEF WriteBatch, Goto, tables, inputs
<1> DEFINE f == form[r]
           c == content[r]
           k == written[r] + Batch(r)
<1>1. f \in Form /\ c \in Content /\ WriteInv(r) /\ Writes(r)
  BY DEF IInv, TypeOK, PhaseInv, Writes
<1>2. /\ Batch(r) \in Nat \ {0}
      /\ k \in Nat \ {0}
      /\ k <= ChunksOf[c]
  BY <1>1, IngestionAssumption DEF IInv, TypeOK, WriteInv, Batch
<1>3. docs' = [docs EXCEPT ![f] = Row(c, "ingesting")]
  <2>1. CASE Present(pdoc[r])
    <3>1. pdoc[r] = Row(c, "ingesting")
      BY <1>1, <2>1 DEF WriteInv, Present, NoDoc
    <3> QED
      BY <2>1, <3>1 DEF CommittedDocs
  <2>2. CASE ~Present(pdoc[r])
    <3>1. docs[f] = Row(c, "ingesting")
      BY <1>1, <2>2 DEF WriteInv, Present, Row
    <3>2. docs' = docs
      BY <2>2 DEF CommittedDocs
    <3> QED
      BY <3>1, <3>2, <1>1 DEF IInv, TypeOK
  <2> QED
    BY <2>1, <2>2
<1>4. /\ docs'[f] = Row(c, "ingesting")
      /\ chunks'[f] = k
      /\ written'[r] = k
      /\ pdoc'[r] = NoDoc
      /\ pjob'[r] = NoJob
      /\ pc'[r] \in {IF k = ChunksOf[c] THEN "activate" ELSE "write", "error"}
      /\ target'[r] = f
      /\ resp'[r] = "none"
  BY <1>1, <1>3 DEF IInv, TypeOK, PhaseInv, WriteInv, AllWritten
<1>5. TypeOK'
  BY <1>1, <1>2, <1>3 DEF IInv, TypeOK, Label, DbLabel, Refreshing, Concluding, Row, DocRow
<1>6. StepOf(r)
  BY DEF IInv, TypeOK, StepOf, OthersUnchanged, Locals
<1>7. PhaseInv(r)'
  <2>0. CASE pc'[r] = "error"
    BY <1>4, <2>0 DEF PhaseInv, Fresh, Present, NoDoc, NoJob
  <2>1. CASE pc'[r] # "error" /\ k = ChunksOf[c]
    BY <1>4, <2>1 DEF PhaseInv, ActivateInv, Fresh, Present, NoDoc, NoJob
  <2>2. CASE pc'[r] # "error" /\ k # ChunksOf[c]
    <3>1. WriteInv(r)'
      BY <1>2, <1>4, <2>2, IngestionAssumption, <1>1 DEF WriteInv
    <3> QED
      BY <1>4, <2>2, <3>1 DEF PhaseInv, Fresh, Present, NoDoc, NoJob
  <2> QED
    BY <2>0, <2>1, <2>2
<1>8. (\A q \in Call \ {r} : PhaseInv(q)') /\ OneWriter' /\ NoClash'
  <2>1. \A g \in Form \ {form[r]} :
          chunks'[g] = chunks[g] /\ jobs'[g] = jobs[g]
    BY DEF IInv, TypeOK
  <2>2. ~Present(pdoc'[r])
    BY <1>4 DEF Present, NoDoc
  <2> QED
    BY <1>1, <1>6, <2>1, <2>2, PublishRows
<1>9. ActiveDocumentsComplete'
  BY <1>1, <1>3, <1>4 DEF IInv, TypeOK, ActiveDocumentsComplete, Row
<1>10. OutcomeHasItsJob'
  <2>1. jobs[f] # Job("failed", f)
    BY <1>1 DEF IInv, OutcomeHasItsJob, WriteInv, Row, NoDoc
  <2> QED
    BY <1>1, <1>3, <1>4, <2>1 DEF IInv, TypeOK, OutcomeHasItsJob, Row
<1>11. RejectionIsRecorded'
  <2>1. docs[f].status # "failed"
    BY <1>1 DEF WriteInv, Row, NoDoc
  <2> QED
    BY <1>3, <1>1, <2>1 DEF IInv, TypeOK, RejectionIsRecorded, Row
<1>12. CompletedMeansSearchable'
  <2>1. docs[f].status # "active"
    BY <1>1 DEF WriteInv, Row, NoDoc
  <2>2. resp'[r] # "ok"
    BY <1>4
  <2> QED
    BY <1>3, <1>1, <2>1, <2>2 DEF IInv, TypeOK, CompletedMeansSearchable, Row
<1> QED
  BY <1>5, <1>7, <1>8, <1>9, <1>10, <1>11, <1>12 DEF IInv

(* A commit publishes the call's own rows.                                 *)
LEMMA CommitStep ==
  ASSUME IInv, NEW r \in Call, Commit(r) PROVE IInv'
<1> USE DEF Commit, Discard, Answer, Goto, inputs, local
<1> DEFINE f == form[r]
           c == content[r]
<1>1. /\ f \in Form /\ c \in Content
      /\ pdoc[r] \in DocRow \cup {NoDoc}
      /\ pjob[r] \in JobRow \cup {NoJob}
      /\ PhaseInv(r)
  BY DEF IInv, TypeOK
<1>2. /\ pdoc'[r] = NoDoc
      /\ pjob'[r] = NoJob
      /\ pc'[r] = "done"
      /\ resp'[r] \in {IF pc[r] = "commit" THEN "ok" ELSE "rejected", "error"}
  BY DEF IInv, TypeOK
<1>3. TypeOK'
  BY <1>1 DEF IInv, TypeOK, Label, Reply, CommittedDocs,
     Present, NoDoc, NoJob
<1>4. StepOf(r) /\ ~Writes(r)' /\ ~Present(pdoc'[r]) /\ ~Present(pjob'[r])
  BY <1>2 DEF IInv, TypeOK, StepOf, OthersUnchanged, Locals, Writes, Fresh,
     Present, NoDoc, NoJob
<1>5. PhaseInv(r)'
  BY <1>2 DEF PhaseInv, Fresh, Present, NoDoc, NoJob
<1>6. (\A q \in Call \ {r} : PhaseInv(q)') /\ OneWriter' /\ NoClash'
  <2>1. \A g \in Form \ {form[r]} :
          chunks'[g] = chunks[g] /\ jobs'[g] = jobs[g]
    BY DEF IInv, TypeOK
  <2>2. Present(pjob[r]) \/ jobs'[form[r]] = jobs[form[r]]
    OBVIOUS
  <2> QED
    BY <1>4, <2>1, <2>2, PublishRows
(* What became of the two rows, at this commit.                            *)
<1>7. /\ \A g \in Form \ {f} : docs'[g] = docs[g] /\ jobs'[g] = jobs[g]
      /\ docs'[f] = IF Present(pdoc[r]) THEN pdoc[r] ELSE docs[f]
      /\ jobs'[f] = IF Present(pjob[r]) THEN pjob[r] ELSE jobs[f]
  BY <1>1 DEF IInv, TypeOK, CommittedDocs
<1>8. \/ /\ pdoc[r] = NoDoc
         /\ pc[r] = "commit" /\ Found(r)
         /\ pjob[r] = Job("succeeded", target[r])
      \/ /\ pdoc[r] = Row(c, "active")
         /\ pc[r] = "commit" /\ target[r] = f /\ ActivateInv(r)
         /\ pjob[r] = Job("succeeded", f)
      \/ /\ pdoc[r] = NoDoc
         /\ pc[r] = "commitReject" /\ f \in BadMetadata
         /\ pjob[r] = NoJob
      \/ /\ pdoc[r] = Row(c, "failed")
         /\ pc[r] = "commitReject" /\ docs[f] = NoDoc
         /\ pjob[r] = Job("failed", f)
  BY <1>1 DEF PhaseInv, CommitInv, CommitRejectInv, ActivatedInv, FailedInv
<1>9. Present(pjob[r]) => jobs[f] = NoJob
  BY <1>1 DEF PhaseInv
<1>10. ActiveDocumentsComplete'
  BY <1>7, <1>8 DEF IInv, ActiveDocumentsComplete, ActivateInv, Present, NoDoc,
     Row
<1>11. OutcomeHasItsJob'
  <2>1. \A g \in Form \ {f} :
          /\ docs'[g].status = "active" => jobs'[g] = Job("succeeded", g)
          /\ docs'[g].status = "failed" <=> jobs'[g] = Job("failed", g)
    BY <1>7 DEF IInv, OutcomeHasItsJob
  <2>2. /\ docs'[f].status = "active" => jobs'[f] = Job("succeeded", f)
        /\ docs'[f].status = "failed" <=> jobs'[f] = Job("failed", f)
    BY <1>1, <1>7, <1>8, <1>9
    DEF IInv, OutcomeHasItsJob, Present, NoDoc, NoJob, Row, Job
  <2> QED
    BY <2>1, <2>2 DEF OutcomeHasItsJob
(* Finished rows do not change, so what was answered of them stays true.   *)
<1>12. \A g \in Form :
         /\ docs[g].status \in {"active", "failed"} => docs'[g] = docs[g]
         /\ Present(jobs[g]) => jobs'[g] = jobs[g]
  <2>1. docs[f].status \in {"active", "failed"} => docs'[f] = docs[f]
    BY <1>7, <1>8 DEF ActivateInv, Present, NoDoc, Row
  <2>2. Present(jobs[f]) => jobs'[f] = jobs[f]
    BY <1>7, <1>9 DEF Present, NoJob
  <2> QED
    BY <1>7, <2>1, <2>2
<1>13. RejectionIsRecorded'
  <2>1. resp'[r] = "rejected" /\ f \notin BadMetadata =>
          docs'[f] = Row(c, "failed") /\ jobs'[f] = Job("failed", f)
    BY <1>2, <1>7, <1>8 DEF Present, Row, Job
  <2>2. \A q \in Call \ {r} : resp'[q] = "rejected" /\ form[q] \notin BadMetadata =>
          /\ docs'[form[q]] = Row(content[q], "failed")
          /\ jobs'[form[q]] = Job("failed", form[q])
    <3> TAKE q \in Call \ {r}
    <3>1. form[q] \in Form /\ resp'[q] = resp[q]
      BY DEF IInv, TypeOK
    <3> QED
      BY <3>1, <1>12 DEF IInv, RejectionIsRecorded, Present, Row, Job
  <2> QED
    BY <2>1, <2>2 DEF RejectionIsRecorded
<1>14. CompletedMeansSearchable'
  <2>1. resp'[r] = "ok" /\ seen[r] = "active" =>
          docs'[target[r]] = Row(c, "active")
    <3>1. SUFFICES ASSUME pc[r] = "commit", seen[r] = "active"
                   PROVE  docs'[target[r]] = Row(c, "active")
      BY <1>2
    <3>2. CASE pdoc[r] = NoDoc
      <4>1. target[r] \in Form /\ Found(r)
        BY <3>1, <3>2, <1>8 DEF IInv, TypeOK, NoDoc, Row
      <4> QED
        BY <3>1, <4>1, <1>12 DEF Found, DocRow, Row
    <3>3. CASE pdoc[r] # NoDoc
      BY <3>1, <3>3, <1>7, <1>8 DEF Present, Row
    <3> QED
      BY <3>2, <3>3
  <2>2. \A q \in Call \ {r} : resp'[q] = "ok" /\ seen[q] = "active" =>
          docs'[target[q]] = Row(content[q], "active")
    <3> TAKE q \in Call \ {r}
    <3>1. target[q] \in Form /\ resp'[q] = resp[q]
      BY DEF IInv, TypeOK
    <3> QED
      BY <3>1, <1>12 DEF IInv, CompletedMeansSearchable, Row
  <2>3. \A q \in Call : resp'[q] = "ok" /\ seen[q] = "active" =>
          /\ docs'[target[q]] = Row(content[q], "active")
          /\ target[q] \in Form
    BY <2>1, <2>2 DEF IInv, TypeOK
  <2> QED
    BY <2>3, <1>10
    DEF CompletedMeansSearchable, ActiveDocumentsComplete, Row
<1> QED
  BY <1>3, <1>5, <1>6, <1>10, <1>11, <1>13, <1>14 DEF IInv
-----------------------------------------------------------------------------
(* The initial state satisfies the invariant.                              *)
LEMMA InitEstablishes ==
  ASSUME Init PROVE IInv
<1> USE DEF Init
<1>1. TypeOK
  BY DEF TypeOK, Label, DbLabel, Refreshing, Concluding, Reply
<1>2. \A r \in Call : PhaseInv(r)
  BY DEF PhaseInv, Fresh, Present, NoDoc, NoJob
<1>3. OneWriter
  BY DEF OneWriter, Writes, Fresh, Present, NoDoc, NoJob
<1>4. NoClash
  BY DEF NoClash, Present, NoDoc
<1>5. /\ ActiveDocumentsComplete /\ OutcomeHasItsJob
      /\ RejectionIsRecorded /\ CompletedMeansSearchable
  BY DEF ActiveDocumentsComplete, OutcomeHasItsJob, RejectionIsRecorded,
     CompletedMeansSearchable, NoDoc, NoJob, Job
<1> QED
  BY <1>1, <1>2, <1>3, <1>4, <1>5 DEF IInv

(* Every step keeps it.                                                    *)
LEMMA StepPreserves ==
  ASSUME IInv, [Next]_vars PROVE IInv'
<1>1. ASSUME NEW r \in Call, Handle(r) PROVE IInv'
  BY <1>1, FindDuplicateStep, RecordDedupedStep, CreateDocumentStep,
     ConvertStep, ChunkStep, EmbedStep, WriteBatchStep, ActivateStep,
     FailDocumentStep, RecordOutcomeStep, RefreshAgainStep, LockSteps,
     CommitStep, RollbackStep, BreakDeadlockStep, EnlistStep DEF Handle
<1>2. CASE UNCHANGED vars
  BY <1>2 DEF vars, IInv, TypeOK, PhaseInv, WriteInv, ActivateInv, ActivatedInv,
     FailedInv, CommitInv, CommitRejectInv, Found, OneWriter, Writes, NoClash, Clash,
     SameOwnerContent, SameCountryContent, SameOwnerName,
     ActiveDocumentsComplete, OutcomeHasItsJob, RejectionIsRecorded,
     CompletedMeansSearchable, Present
<1> QED
  BY <1>1, <1>2, CompleteUploadStep, DbErrorStep, CrashStep, ExpireStep
  DEF Next

(* The invariant holds in every reachable state, with any number of calls, *)
(* forms, files and batch sizes.                                           *)
THEOREM Invariance == Spec => []IInv
<1> QED
  BY InitEstablishes, StepPreserves, PTL DEF Spec

(* Rows, labels and answers keep their types.                              *)
THEOREM TypeCorrect == Spec => []TypeOK
<1>1. IInv => TypeOK
  BY DEF IInv
<1> QED
  BY <1>1, Invariance, PTL

(* A document retrieval may search has all of its chunks.                  *)
THEOREM Complete == Spec => []ActiveDocumentsComplete
<1>1. IInv => ActiveDocumentsComplete
  BY DEF IInv
<1> QED
  BY <1>1, Invariance, PTL

(* Two calls never write one document or record one job at a time.         *)
THEOREM SingleWriter == Spec => []OneWriter
<1>1. IInv => OneWriter
  BY DEF IInv
<1> QED
  BY <1>1, Invariance, PTL

(* A document and its job reach their outcome together.                    *)
THEOREM OutcomeRecorded == Spec => []OutcomeHasItsJob
<1>1. IInv => OutcomeHasItsJob
  BY DEF IInv
<1> QED
  BY <1>1, Invariance, PTL

(* What a 400 says of a document is on record; what a 200 says of one is   *)
(* true of it.                                                             *)
THEOREM AnswersHold == Spec => []AnswersTrue
<1>1. IInv => AnswersTrue
  BY DEF IInv, AnswersTrue
<1> QED
  BY <1>1, Invariance, PTL

(* Pairs are equal in both parts.                                          *)
LEMMA PairsEqual ==
  ASSUME NEW a, NEW b, NEW c, NEW d, <<a, b>> = <<c, d>>
  PROVE  a = c /\ b = d
<1>1. <<a, b>>[1] = <<c, d>>[1] /\ <<a, b>>[2] = <<c, d>>[2]
  OBVIOUS
<1> QED
  BY <1>1

(* Rows that do not clash are of different contents.                       *)
LEMMA NoClashUnique ==
  ASSUME IInv PROVE UniqueContent
<1> SUFFICES ASSUME NEW d \in Form, NEW e \in Form, d # e,
                    KeyOf[d] = KeyOf[e], Present(docs[d]), Present(docs[e]),
                    docs[d].hash = docs[e].hash
             PROVE  FALSE
  BY DEF UniqueContent
<1>1. ~Clash(d, docs[d].hash, e, docs[e].hash)
  BY DEF IInv, NoClash
<1>2. /\ (Fields[d].scope = "base" => KeyOf[d] = <<"country", Fields[d].country>>)
      /\ (Fields[d].scope # "base" => KeyOf[d] = <<"owner", Fields[d].owner>>)
      /\ (Fields[e].scope = "base" => KeyOf[e] = <<"country", Fields[e].country>>)
      /\ (Fields[e].scope # "base" => KeyOf[e] = <<"owner", Fields[e].owner>>)
  BY DEF KeyOf
<1>3. CASE Fields[d].scope = "base"
  <2>1. CASE Fields[e].scope = "base"
    <3>1. Fields[d].country = Fields[e].country
      BY <1>2, <1>3, <2>1, PairsEqual
    <3> QED
      BY <1>1, <1>3, <2>1, <3>1 DEF Clash, SameCountryContent
  <2>2. CASE Fields[e].scope # "base"
    <3>1. "country" = "owner"
      BY <1>2, <1>3, <2>2, PairsEqual
    <3> QED
      BY <3>1
  <2> QED
    BY <2>1, <2>2
<1>4. CASE Fields[d].scope # "base"
  <2>1. CASE Fields[e].scope = "base"
    <3>1. "country" = "owner"
      BY <1>2, <1>4, <2>1, PairsEqual
    <3> QED
      BY <3>1
  <2>2. CASE Fields[e].scope # "base"
    <3>1. Fields[d].owner = Fields[e].owner
      BY <1>2, <1>4, <2>2, PairsEqual
    <3>2. Fields[d].owner # NoOwner
      BY <1>4, IngestionAssumption DEF Signed
    <3> QED
      BY <1>1, <3>1, <3>2 DEF Clash, SameOwnerContent
  <2> QED
    BY <2>1, <2>2
<1> QED
  BY <1>3, <1>4

(* The unique indexes cover what a listing shows: no owner, and no base    *)
(* country, ever has two documents of one content.                         *)
THEOREM UniqueDocuments == Spec => []UniqueContent
<1>1. IInv => UniqueContent
  BY NoClashUnique
<1> QED
  BY <1>1, Invariance, PTL
-----------------------------------------------------------------------------
(* No step touches a finished document, its chunks or its job.             *)
LEMMA FinishedStep ==
  ASSUME IInv, [Next]_vars
  PROVE  \A f \in Form : docs[f].status \in {"active", "failed"} =>
           /\ docs'[f] = docs[f]
           /\ chunks'[f] = chunks[f]
           /\ jobs'[f] = jobs[f]
<1> DEFINE Frozen == \A f \in Form : docs[f].status \in {"active", "failed"} =>
                       /\ docs'[f] = docs[f]
                       /\ chunks'[f] = chunks[f]
                       /\ jobs'[f] = jobs[f]
<1>1. CASE UNCHANGED tables
  BY <1>1 DEF tables
<1>2. ASSUME NEW r \in Call, WriteBatch(r) PROVE Frozen
  <2>1. WriteInv(r)
    BY <1>2 DEF IInv, PhaseInv, WriteBatch
  <2>2. docs[form[r]].status \notin {"active", "failed"}
    BY <2>1 DEF WriteInv, Row, NoDoc
  <2>3. \A f \in Form \ {form[r]} :
          docs'[f] = docs[f] /\ chunks'[f] = chunks[f] /\ jobs'[f] = jobs[f]
    BY <1>2 DEF IInv, TypeOK, WriteBatch, CommittedDocs
  <2> QED
    BY <2>2, <2>3
<1>3. ASSUME NEW r \in Call, Commit(r) PROVE Frozen
  <2>1. /\ \A f \in Form \ {form[r]} : docs'[f] = docs[f] /\ jobs'[f] = jobs[f]
        /\ Present(pdoc[r]) \/ docs' = docs
        /\ Present(pjob[r]) \/ jobs' = jobs
        /\ chunks' = chunks
    BY <1>3 DEF IInv, TypeOK, Commit, CommittedDocs
  <2>2. Present(pdoc[r]) => docs[form[r]].status \notin {"active", "failed"}
    <3>1. PhaseInv(r)
      BY DEF IInv
    <3> QED
      BY <3>1 DEF PhaseInv, Row, NoDoc
  <2>3. Present(pjob[r]) => docs[form[r]].status \notin {"active", "failed"}
    <3> SUFFICES ASSUME Present(pjob[r])
                 PROVE  docs[form[r]].status \notin {"active", "failed"}
      OBVIOUS
    <3>1. jobs[form[r]] = NoJob /\ form[r] \in Form
      BY DEF IInv, TypeOK, PhaseInv
    <3>2. \A s, d : Job(s, d) = NoJob => s = "absent"
      BY DEF Job, NoJob
    <3> QED
      BY <3>1, <3>2 DEF IInv, OutcomeHasItsJob
  <2> QED
    BY <2>1, <2>2, <2>3
<1>4. CASE UNCHANGED vars
  BY <1>1, <1>4 DEF vars, tables
<1>5. ASSUME NEW r \in Call, Handle(r) PROVE Frozen
  BY <1>1, <1>2, <1>3, <1>5 DEF Handle, FindDuplicate, RecordDeduped,
     CreateDocument, Enlist, Convert, Chunk, Embed, Activate, FailDocument,
     RecordOutcome, RefreshAgain, LockRow, LockView, Lock, Rollback, BreakDeadlock
<1> QED
  BY <1>1, <1>4, <1>5 DEF Next, CompleteUpload, DbError, Crash, Expire

(* Finished documents never change.                                        *)
THEOREM Frozen == Spec => FinishedDocumentsFrozen
<1>1. IInv /\ [Next]_vars =>
        [\A f \in Form : docs[f].status \in {"active", "failed"} =>
           /\ docs'[f] = docs[f]
           /\ chunks'[f] = chunks[f]
           /\ jobs'[f] = jobs[f]]_vars
  BY FinishedStep
<1> QED
  BY <1>1, Invariance, PTL DEF Spec, FinishedDocumentsFrozen

(* A document becomes active at the commit that ends its call, and only    *)
(* there.                                                                  *)
LEMMA ActivatedByCommit ==
  ASSUME IInv, [Next]_vars, NEW f \in Form,
         docs'[f].status = "active", docs[f].status # "active"
  PROVE  /\ \A g \in Form \ {f} : docs'[g] = docs[g]
         /\ chunks' = chunks
<1>1. docs' # docs
  OBVIOUS
<1>2. ASSUME NEW r \in Call, WriteBatch(r) PROVE FALSE
  <2>1. WriteInv(r) /\ form[r] \in Form
    BY <1>2 DEF IInv, TypeOK, PhaseInv, WriteBatch
  <2>2. docs'[form[r]].status = "ingesting"
    BY <1>2, <2>1 DEF IInv, TypeOK, WriteBatch, CommittedDocs, WriteInv,
       Present, Row, NoDoc
  <2>3. \A g \in Form \ {form[r]} : docs'[g] = docs[g]
    BY <1>2 DEF IInv, TypeOK, WriteBatch, CommittedDocs
  <2> QED
    BY <2>2, <2>3
<1>3. PICK r \in Call : Commit(r)
  BY <1>1, <1>2 DEF Next, Handle, FindDuplicate, RecordDeduped, CreateDocument,
     Enlist, Convert, Chunk, Embed, Activate, FailDocument, RecordOutcome,
     RefreshAgain, LockRow, LockView, Lock, Rollback, BreakDeadlock,
     CompleteUpload, DbError, Crash, Expire, tables, vars
<1>4. chunks' = chunks /\ \A g \in Form \ {form[r]} : docs'[g] = docs[g]
  BY <1>3 DEF IInv, TypeOK, Commit, CommittedDocs
<1> QED
  BY <1>4

(* The pipeline implements the catalog: a document is published whole, in  *)
(* one step, and stays as it is.                                           *)
THEOREM Refinement == Spec => PublishesAtomically
<1>1. Init => Catalog!Init
  BY DEF Init, Catalog!Init, Catalog!Unpublished, Shown, NoDoc
<1>2. ASSUME IInv, IInv', UniqueContent', [Next]_vars
      PROVE  [Catalog!Next]_Shown
  <2>1. \A g \in Form : docs[g].status = "active" =>
          docs'[g] = docs[g] /\ chunks'[g] = chunks[g]
    BY <1>2, FinishedStep
  <2>2. CASE \A g \in Form : docs'[g].status = "active" => docs[g].status = "active"
    <3>1. \A g \in Form : Shown'[g] = Shown[g]
      BY <2>1, <2>2 DEF Shown
    <3> QED
      BY <3>1 DEF Shown
  <2>3. ASSUME NEW f \in Form, docs'[f].status = "active", docs[f].status # "active"
        PROVE  Catalog!Next
    <3> DEFINE c == docs'[f].hash
    <3>1. /\ \A g \in Form \ {f} : docs'[g] = docs[g]
          /\ chunks' = chunks
      BY <1>2, <2>3, ActivatedByCommit
    <3>2. c \in Content /\ chunks'[f] = ChunksOf[c]
      BY <1>2, <2>3 DEF IInv, TypeOK, ActiveDocumentsComplete, DocRow, NoDoc
    <3>3. Shown[f] = Catalog!Unpublished
      BY <2>3 DEF Shown, Catalog!Unpublished
    <3>4. \A e \in Form \ {f} : KeyOf[f] = KeyOf[e] =>
            Shown[e] # Catalog!Published(c)
      <4> SUFFICES ASSUME NEW e \in Form \ {f}, KeyOf[f] = KeyOf[e],
                          Shown[e] = Catalog!Published(c)
                   PROVE  FALSE
        OBVIOUS
      <4>1. docs[e].status = "active" /\ docs[e].hash = c
        BY DEF Shown, Catalog!Published
      <4>2. docs'[e].status = "active" /\ docs'[e].hash = c
        BY <3>1, <4>1
      <4> QED
        BY <1>2, <2>3, <4>2 DEF UniqueContent, Present
    <3>5. Shown' = [Shown EXCEPT ![f] = Catalog!Published(c)]
      <4>1. \A g \in Form \ {f} : Shown'[g] = Shown[g]
        BY <3>1 DEF Shown
      <4>2. Shown'[f] = Catalog!Published(c)
        BY <2>3, <3>2 DEF Shown, Catalog!Published
      <4> QED
        BY <4>1, <4>2 DEF Shown
    <3>6. Catalog!Publish(f, c)
      BY <3>3, <3>4, <3>5 DEF Catalog!Publish
    <3> QED
      BY <3>2, <3>6 DEF Catalog!Next
  <2> QED
    BY <2>2, <2>3
<1>3. IInv => UniqueContent
  BY NoClashUnique
<1> QED
  BY <1>1, <1>2, <1>3, Invariance, PTL
  DEF Spec, PublishesAtomically, Catalog!Spec
-----------------------------------------------------------------------------
(* Why every call is answered, up to the fairness of the event loop.       *)

(* A step of a call leaves it with locks it may have at its label.         *)
LEMMA OwnLocks ==
  ASSUME IInv, LInv, NEW r \in Call,
         CompleteUpload(r) \/ Handle(r) \/ DbError(r) \/ Crash(r)
  PROVE  LockInv(r)'
<1> USE DEF Refreshing, Concluding, Ending, Goto, Answer
<1>1. /\ LockInv(r) /\ form[r] \in Form
      /\ pc \in [Call -> Label] /\ locked \in [Call -> SUBSET (Form \cup {View})]
  BY DEF LInv, IInv, TypeOK
<1>2. CASE CompleteUpload(r) \/ FindDuplicate(r)
  BY <1>1, <1>2 DEF LockInv, CompleteUpload, FindDuplicate, inputs, pending
<1>3. CASE RecordDeduped(r) \/ CreateDocument(r)
  BY <1>1, <1>3 DEF LockInv, RecordDeduped, RecordJob, CreateDocument, inputs
<1>4. CASE Enlist(r) \/ Convert(r) \/ Chunk(r) \/ Embed(r) \/ Activate(r) \/ FailDocument(r)
  BY <1>1, <1>4 DEF LockInv, Enlist, Convert, Chunk, Embed, Activate, FailDocument,
     inputs, pending
<1>5. CASE RecordOutcome(r) \/ RefreshAgain(r)
  BY <1>1, <1>5 DEF LockInv, RecordOutcome, RecordJob, RefreshAgain, inputs, pending
<1>6. CASE LockRow(r)
  <2>1. PICK d \in BaseRows(r) : Lock(r, d)
    BY <1>6 DEF LockRow
  <2>2. /\ d # View /\ Fields[form[r]].scope = "base"
        /\ pc' = pc /\ form' = form /\ pc[r] \in Refreshing
        /\ locked'[r] = locked[r] \cup {d}
    BY <1>1, <1>6, <2>1, IngestionAssumption DEF LockRow, Lock, BaseRows, inputs
  <2> QED BY <1>1, <2>2 DEF LockInv
<1>7. CASE LockView(r)
  <2>1. /\ pc' = pc /\ form' = form /\ pc[r] \in Concluding
        /\ locked'[r] = locked[r] \cup {View}
    BY <1>1, <1>7 DEF LockView, Lock, inputs
  <2> QED BY <1>1, <2>1 DEF LockInv
<1>8. CASE WriteBatch(r) \/ Commit(r) \/ Rollback(r) \/ Crash(r)
  BY <1>1, <1>8 DEF LockInv, WriteBatch, Commit, Rollback, Crash, Discard
<1>9. CASE DbError(r) \/ BreakDeadlock(r)
  BY <1>1, <1>9 DEF LockInv, DbError, BreakDeadlock, inputs, pending
<1> QED
  BY <1>2, <1>3, <1>4, <1>5, <1>6, <1>7, <1>8, <1>9 DEF Handle

(* A step is of one call, and only that one's locks and label change.      *)
LEMMA StepIsOf ==
  ASSUME IInv, NEW r \in Call,
         CompleteUpload(r) \/ Handle(r) \/ DbError(r) \/ Crash(r)
  PROVE  StepOf(r)
<1> USE DEF IInv, TypeOK, StepOf, OthersUnchanged, Locals, inputs, Goto, Answer,
            pending, local
<1>1. CASE CompleteUpload(r) \/ FindDuplicate(r) \/ CreateDocument(r)
  BY <1>1 DEF CompleteUpload, FindDuplicate, CreateDocument
<1>2. CASE RecordDeduped(r) \/ RecordOutcome(r)
  BY <1>2 DEF RecordDeduped, RecordOutcome, RecordJob
<1>3. CASE Enlist(r) \/ Convert(r) \/ Chunk(r) \/ Embed(r) \/ RefreshAgain(r)
  BY <1>3 DEF Enlist, Convert, Chunk, Embed, RefreshAgain
<1>4. CASE Activate(r) \/ FailDocument(r)
  BY <1>4 DEF Activate, FailDocument
<1>5. CASE LockRow(r) \/ LockView(r)
  BY <1>5 DEF LockRow, LockView, Lock
<1>6. CASE WriteBatch(r) \/ Commit(r) \/ Rollback(r) \/ Crash(r)
  BY <1>6 DEF WriteBatch, Commit, Rollback, Crash, Discard
<1>7. CASE DbError(r) \/ BreakDeadlock(r)
  BY <1>7 DEF DbError, BreakDeadlock
<1> QED
  BY <1>1, <1>2, <1>3, <1>4, <1>5, <1>6, <1>7 DEF Handle

(* What the calls may have locked, in every reachable state.               *)
THEOREM LockInvariance == Spec => []LInv
<1>1. Init => LInv
  BY DEF Init, LInv, LockInv
<1>2. ASSUME IInv, LInv, [Next]_vars PROVE LInv'
  <2>1. ASSUME NEW r \in Call,
               CompleteUpload(r) \/ Handle(r) \/ DbError(r) \/ Crash(r)
        PROVE  LInv'
    <3>1. LockInv(r)'
      BY <1>2, <2>1, OwnLocks
    <3>2. \A q \in Call \ {r} : LockInv(q)'
      BY <1>2, <2>1, StepIsOf DEF StepOf, OthersUnchanged, Locals, inputs, LInv, LockInv
    <3> QED BY <3>1, <3>2 DEF LInv
  <2>2. CASE UNCHANGED vars \/ \E f \in Form : Expire(f)
    BY <1>2, <2>2 DEF vars, Expire, pending, inputs, LInv, LockInv
  <2> QED BY <1>2, <2>1, <2>2 DEF Next
<1> QED
  BY <1>1, <1>2, Invariance, PTL DEF Spec

(* What a session must have for another one to wait for it.                *)
LEMMA Holders ==
  ASSUME IInv, LInv, NEW q \in Call
  PROVE  /\ Present(pjob[q]) => pc[q] \in Ending \cup {"refresh"}
         /\ pc[q] \in {"create", "dedupe"} =>
              /\ ~Present(pdoc[q]) /\ ~Present(pjob[q])
              /\ locked[q] = {}
         /\ locked[q] \cap Form # {} => Fields[form[q]].scope = "base"
         /\ View \in locked[q] => pc[q] \notin Refreshing \ {"refresh"}
<1>1. PhaseInv(q) /\ LockInv(q)
  BY DEF IInv, LInv
<1>2. Present(pjob[q]) => pc[q] \in Ending \cup {"refresh"}
  BY <1>1 DEF PhaseInv, Ending, Present, NoJob
<1>3. pc[q] \in {"create", "dedupe"} => ~Present(pdoc[q]) /\ ~Present(pjob[q])
  BY <1>1 DEF PhaseInv, Present, NoDoc, NoJob
<1> QED
  BY <1>1, <1>2, <1>3, IngestionAssumption
  DEF LockInv, Refreshing, Concluding, Ending

(* A circle of waits has base uploads only.  Who waits at its first insert,*)
(* or with a duplicate, holds nothing and is not in one.  So a user's call *)
(* in a circle, which has no rows, is waited for because of the view, and  *)
(* waits for the key of a job; but the session that has the key is one of  *)
(* the same form, hence of the same scope, and waits for nothing.          *)
THEOREM OnlyBaseInCircle == Spec => []OnlyBaseUploadsDeadlock
<1>1. ASSUME IInv, LInv PROVE OnlyBaseUploadsDeadlock
  <2> SUFFICES ASSUME NEW S \in SUBSET Call, NEW u \in S,
                      \A s \in S : /\ \E p \in S : WaitsFor(s, p)
                                   /\ \E p \in S : WaitsFor(p, s),
                      Fields[form[u]].scope # "base"
               PROVE  FALSE
    BY DEF OnlyBaseUploadsDeadlock, Deadlocked
  <2>1. \A s \in S : pc[s] \notin {"create", "dedupe"}
    <3> SUFFICES ASSUME NEW s \in S, NEW p \in S, WaitsFor(p, s),
                        pc[s] \in {"create", "dedupe"}
                 PROVE  FALSE
      OBVIOUS
    <3> QED BY <1>1, Holders DEF WaitsFor
  <2>2. \A s \in S : pc[s] \notin Ending
    BY DEF WaitsFor, Ending, Refreshing, Concluding
  <2>3. \A s \in S : Fields[form[s]].scope # "base" => pc[s] # "refresh"
    BY DEF WaitsFor, BaseRows, Refreshing, Concluding
  <2>4. View \in locked[u]
    <3>1. PICK p \in S : WaitsFor(p, u)
      OBVIOUS
    <3>2. ~Present(pjob[u])
      BY <1>1, <2>2, <2>3, Holders
    <3>3. pc[p] # "create"
      BY <2>1
    <3>4. locked[u] \cap Form = {}
      BY <1>1, Holders
    <3>5. BaseRows(p) \subseteq Form
      BY DEF BaseRows
    <3> QED BY <3>1, <3>2, <3>3, <3>4, <3>5 DEF WaitsFor
  <2>5. PICK q \in S : form[q] = form[u] /\ Present(pjob[q])
    <3>1. PICK q \in S : WaitsFor(u, q)
      OBVIOUS
    <3>2. BaseRows(u) = {}
      BY DEF BaseRows
    <3> QED BY <2>1, <2>4, <3>1, <3>2 DEF WaitsFor
  <2> QED BY <1>1, <2>2, <2>3, <2>5, Holders
<1> QED
  BY <1>1, Invariance, LockInvariance, PTL

(* The first batch, the next one and the remainder all write something.    *)
LEMMA BatchWrites ==
  ASSUME IInv, NEW r \in Call, pc[r] = "write"
  PROVE  /\ Batch(r) \in Nat \ {0}
         /\ written[r] + Batch(r) <= ChunksOf[content[r]]
<1>1. WriteInv(r) /\ written[r] \in Nat /\ content[r] \in Content
  BY DEF IInv, TypeOK, PhaseInv
<1> QED
  BY <1>1, IngestionAssumption DEF WriteInv, Batch

(* The labels in numbers.                                                  *)
LEMMA AheadIs ==
  /\ Ahead["idle"] = 15 /\ Ahead["lookup"] = 14 /\ Ahead["dedupe"] = 13
  /\ Ahead["create"] = 13 /\ Ahead["enlist"] = 12 /\ Ahead["convert"] = 11
  /\ Ahead["chunk"] = 10 /\ Ahead["embed"] = 9 /\ Ahead["write"] = 8
  /\ Ahead["activate"] = 7 /\ Ahead["reject"] = 7 /\ Ahead["abort"] = 7
  /\ Ahead["activating"] = 5 /\ Ahead["rejecting"] = 5 /\ Ahead["aborting"] = 5
  /\ Ahead["refresh"] = 4 /\ Ahead["commit"] = 2 /\ Ahead["commitReject"] = 2
  /\ Ahead["conflict"] = 1 /\ Ahead["error"] = 1 /\ Ahead["done"] = 0
BY DEF Ahead

(* No call has written more chunks than there are, and so what is left to  *)
(* it is a number.                                                         *)
LEMMA Remaining ==
  ASSUME IInv, NEW r \in Call
  PROVE  /\ ChunksOf[content[r]] \in Nat /\ written[r] \in Nat /\ pc[r] \in Label
         /\ pc[r] \in MayWrite => written[r] <= ChunksOf[content[r]]
         /\ Left(r) \in Nat
<1> DEFINE n == ChunksOf[content[r]]
<1>1. PhaseInv(r) /\ content[r] \in Content /\ pc[r] \in Label /\ written[r] \in Nat
  BY DEF IInv, TypeOK
<1>2. n \in Nat
  BY <1>1, IngestionAssumption
<1>3. pc[r] = "write" => written[r] <= n
  BY <1>1, <1>2 DEF PhaseInv, WriteInv
<1>4. pc[r] \in MayWrite /\ pc[r] # "write" => written[r] = 0
  BY <1>1 DEF PhaseInv, MayWrite, Fresh
<1>5. Ahead[pc[r]] \in Nat
  BY <1>1, AheadIs DEF Label, DbLabel, Refreshing, Concluding
<1> HIDE DEF n
<1>6. Left(r) = Ahead[pc[r]] + (IF pc[r] \in MayWrite THEN n - written[r] ELSE 0)
  BY DEF Left, n
<1>7. pc[r] \in MayWrite => written[r] <= n
  BY <1>1, <1>2, <1>3, <1>4
<1> QED
  BY <1>1, <1>2, <1>5, <1>6, <1>7 DEF n

(* A step of a call takes a lock, or leaves it less to do.                 *)
LEMMA StepAdvances ==
  ASSUME IInv, NEW r \in Call,
         CompleteUpload(r) \/ Handle(r) \/ DbError(r) \/ Crash(r)
  PROVE  \/ Left(r)' < Left(r)
         \/ /\ locked[r] \subseteq locked'[r]
            /\ UNCHANGED <<pc[r], pdoc[r], pjob[r], written[r], target[r],
                           seen[r], resp[r]>>
<1> DEFINE n == ChunksOf[content[r]]
<1> DEFINE l == pc'[r]
<1>1. /\ n \in Nat /\ written[r] \in Nat /\ pc[r] \in Label
      /\ pc[r] \in MayWrite => written[r] <= n
  BY Remaining
<1>2. UNCHANGED inputs /\ n' = n
  BY StepIsOf DEF StepOf, inputs
<1>3. CASE WriteBatch(r)
  <2>1. /\ pc[r] = "write" /\ l \in {"write", "activate", "error"}
        /\ written'[r] = written[r] + Batch(r)
    BY <1>3 DEF IInv, TypeOK, WriteBatch, Goto
  <2>2. Batch(r) \in Nat \ {0} /\ written[r] + Batch(r) <= n
    BY <2>1, BatchWrites
  <2>3. Ahead[l] \in Nat /\ Ahead[l] <= Ahead["write"] /\ Ahead["write"] \in Nat
        /\ (l # "write" => Ahead[l] < Ahead["write"])
    BY <2>1, AheadIs
  <2>4. "write" \in MayWrite /\ (l \in MayWrite => l = "write")
    BY <2>1 DEF MayWrite
  <2> HIDE DEF n, l
  <2>5. Left(r) = Ahead["write"] + (n - written[r])
    BY <2>1, <2>4 DEF Left, n
  <2>6. Left(r)' = Ahead[l] + (IF l = "write" THEN n - (written[r] + Batch(r)) ELSE 0)
    BY <1>2, <2>1, <2>4 DEF Left, Ahead, n, l
  <2> QED BY <1>1, <1>2, <2>1, <2>2, <2>3, <2>5, <2>6
<1>4. CASE LockRow(r) \/ LockView(r)
  BY <1>4 DEF IInv, TypeOK, LockRow, LockView, Lock, local
<1>5. CASE ~(WriteBatch(r) \/ LockRow(r) \/ LockView(r))
  <2>1. /\ written'[r] = written[r]
        /\ l \in Label /\ Ahead[l] < Ahead[pc[r]]
        /\ l \in MayWrite => pc[r] \in MayWrite
    <3>1. CASE CompleteUpload(r) \/ FindDuplicate(r) \/ CreateDocument(r)
      BY <3>1, AheadIs DEF IInv, TypeOK, Label, DbLabel, Refreshing, Concluding,
         MayWrite, CompleteUpload, FindDuplicate, CreateDocument, Answer, Goto, local
    <3>2. CASE Enlist(r) \/ Convert(r) \/ Chunk(r) \/ Embed(r) \/ RefreshAgain(r)
      BY <3>2, AheadIs DEF IInv, TypeOK, Label, DbLabel, Refreshing, Concluding,
         MayWrite, Enlist, Convert, Chunk, Embed, RefreshAgain, Goto, local
    <3>3. CASE RecordDeduped(r) \/ RecordOutcome(r)
      BY <3>3, AheadIs DEF IInv, TypeOK, Label, DbLabel, Refreshing, Concluding,
         MayWrite, RecordDeduped, RecordOutcome, RecordJob, Goto, local
    <3>7. CASE Activate(r) \/ FailDocument(r)
      BY <3>7, AheadIs DEF IInv, TypeOK, Label, DbLabel, Refreshing, Concluding,
         MayWrite, Activate, FailDocument, Goto
    <3>8. CASE BreakDeadlock(r)
      <4>1. pc[r] \in {"create", "write", "dedupe"} \cup Refreshing \cup Concluding
        BY <3>8 DEF BreakDeadlock, Deadlocked, WaitsFor
      <4> QED
        BY <3>8, <4>1, AheadIs DEF IInv, TypeOK, Label, DbLabel, Refreshing,
           Concluding, MayWrite, BreakDeadlock, Goto, local
    <3>4. CASE Commit(r) \/ Rollback(r)
      BY <3>4, AheadIs DEF IInv, TypeOK, Label, DbLabel, Refreshing, Concluding,
         MayWrite, Commit, Rollback, Answer, Goto, local
    <3>5. CASE DbError(r)
      BY <3>5, AheadIs DEF IInv, TypeOK, Label, DbLabel, Refreshing, Concluding,
         MayWrite, DbError, Goto, local
    <3>6. CASE Crash(r)
      BY <3>6, AheadIs DEF IInv, TypeOK, Label, DbLabel, Refreshing, Concluding,
         MayWrite, Crash, InFlight, Answer, Goto, local
    <3> QED BY <1>5, <3>1, <3>2, <3>3, <3>4, <3>5, <3>6, <3>7, <3>8 DEF Handle
  <2>2. Ahead[l] \in Nat /\ Ahead[pc[r]] \in Nat
    BY <1>1, <2>1, AheadIs DEF Label, DbLabel, Refreshing, Concluding
  <2> HIDE DEF n, l
  <2>3. Left(r) = Ahead[pc[r]] + (IF pc[r] \in MayWrite THEN n - written[r] ELSE 0)
    BY DEF Left, n
  <2>4. Left(r)' = Ahead[l] + (IF l \in MayWrite THEN n - written[r] ELSE 0)
    BY <1>2, <2>1 DEF Left, Ahead, MayWrite, n, l
  <2> QED BY <1>1, <1>2, <2>1, <2>2, <2>3, <2>4
<1> QED
  BY <1>3, <1>4, <1>5

(* What is left to a call can be counted.                                  *)
LeftIsNumber == \A r \in Call : Left(r) \in Nat

(* Every step brings a call nearer to its answer, or gives it a lock, and  *)
(* leaves the others as they were, so that apart from its locks a call     *)
(* takes at most as many steps as are left to it, however the calls are    *)
(* interleaved.                                                            *)
THEOREM Advance == Spec => CallsAdvance
<1> DEFINE Stays(q) == /\ locked[q] \subseteq locked'[q]
                       /\ UNCHANGED <<pc[q], pdoc[q], pjob[q], written[q],
                                      target[q], seen[q], resp[q]>>
<1>1. ASSUME IInv, LeftIsNumber', [Next]_vars
      PROVE  \A q \in Call : (Left(q)' \in Nat /\ Left(q)' < Left(q)) \/ Stays(q)
  <2>1. ASSUME NEW r \in Call,
               CompleteUpload(r) \/ Handle(r) \/ DbError(r) \/ Crash(r),
               NEW q \in Call
        PROVE  (Left(q)' \in Nat /\ Left(q)' < Left(q)) \/ Stays(q)
    <3>1. \/ Stays(q)
          \/ Left(q)' < Left(q)
      BY <1>1, <2>1, StepAdvances, StepIsOf DEF StepOf, OthersUnchanged, Locals
    <3>2. Left(q)' \in Nat
      BY <1>1 DEF LeftIsNumber
    <3> QED BY <3>1, <3>2
  <2>2. CASE UNCHANGED vars \/ \E f \in Form : Expire(f)
    BY <2>2 DEF vars, Expire, pending, local
  <2> QED BY <1>1, <2>1, <2>2 DEF Next
<1>2. IInv /\ LeftIsNumber' /\ [Next]_vars =>
        [\A r \in Call :
           \/ Left(r)' \in Nat /\ Left(r)' < Left(r)
           \/ /\ locked[r] \subseteq locked'[r]
              /\ UNCHANGED <<pc[r], pdoc[r], pjob[r], written[r], target[r],
                             seen[r], resp[r]>>]_vars
  BY <1>1
<1>3. IInv => LeftIsNumber
  BY Remaining DEF LeftIsNumber
<1> QED
  BY <1>2, <1>3, Invariance, PTL DEF Spec, CallsAdvance
-----------------------------------------------------------------------------
(***************************************************************************)
(* The PDF copies beside the pipeline, for any number of calls, forms,     *)
(* files and loose objects.  The pipeline keeps its own invariant, since a *)
(* behaviour of DocumentFiles is one of Ingestion; what is added is where  *)
(* a copy and a row have their content from: a call that posted it.        *)
(***************************************************************************)
(* A call has posted file c with form d.                                   *)
Gave(d, c) == \E q \in Call : form[q] = d /\ content[q] = c /\ Posted(q)

(* Copies, rows and what was handed out are of files that were posted.     *)
Sources ==
  /\ \A d \in Form : bucket[Key(d)] # NoCopy => Gave(d, bucket[Key(d)])
  /\ \A d \in Form : Present(docs[d]) => Gave(d, docs[d].hash)
  /\ answer.is = "copy" => Gave(answer.doc, answer.file)

(* What a reader relies on between its two reads.                          *)
ReaderInv ==
  /\ \A d \in had : bucket[Key(d)] # NoCopy
  /\ ask.by = "list" => rows \subseteq Selected(ask)
  /\ ReadersMissNothing

FInv == FilesTypeOK /\ Sources /\ ReaderInv
-----------------------------------------------------------------------------
(* Keys of forms and of loose files are all different.                     *)
LEMMA KeysDiffer ==
  /\ \A d, e \in Form : Key(d) = Key(e) => d = e
  /\ \A d \in Form : Key(d) \in Keys /\ Key(d) \notin DOMAIN Loose
  /\ \A k \in DOMAIN Loose : k \in Keys /\ Loose[k] \in Content
BY FilesAssumption DEF Key, Keys

(* What a reader is answered tells itself apart by its first field.        *)
LEMMA Shapes ==
  /\ \A S : \A w \in S : Nothing(w) \in [is : S]
  /\ \A w : Nothing(w).is = w
  /\ Pending \in [is : {"pending"}] /\ Pending.is = "pending"
  /\ \A codes : CountryPage(codes).is = "countries"
<1>1. \A S : \A w \in S : Nothing(w) \in [is : S]
  BY DEF Nothing
<1>2. \A w : Nothing(w).is = w
  BY DEF Nothing
<1>3. Pending \in [is : {"pending"}] /\ Pending.is = "pending"
  BY DEF Pending
<1>4. \A codes : CountryPage(codes).is = "countries"
  BY DEF CountryPage
<1> QED BY <1>1, <1>2, <1>3, <1>4

(* A full page is not one with room left.                                  *)
LEMMA FullPage == ~(PageSize < PageSize)
<1>1. \A n \in Nat : ~(n < n)
  OBVIOUS
<1> QED BY <1>1, FilesAssumption

(* A step here is a step of the pipeline, or leaves it alone.              *)
LEMMA StepIsIngestion == [FilesNext]_filesVars => [Next]_vars
BY DEF FilesNext, Upload, UploadOnly, Pipeline, LookUp, RelayUpload, Fetch, List,
       RelayFails, filesVars, Next

(* The copies do not disturb the pipeline: its behaviours are those of     *)
(* Ingestion, whatever S3, agent-api and the readers do.                   *)
THEOREM Undisturbed == FilesSpec => Spec
<1>1. FilesInit => Init
  BY DEF FilesInit
<1> QED BY <1>1, StepIsIngestion, PTL DEF FilesSpec, Spec

(* What was posted stays so.                                               *)
LEMMA PostsStay ==
  ASSUME IInv, [Next]_vars
  PROVE  /\ UNCHANGED inputs
         /\ \A q \in Call : Posted(q) => Posted(q)'
<1> DEFINE Stay == UNCHANGED inputs /\ \A q \in Call : Posted(q) => Posted(q)'
<1>1. CASE UNCHANGED vars
  BY <1>1 DEF vars, Posted, inputs
<1>2. ASSUME NEW r \in Call, CompleteUpload(r) PROVE Stay
  BY <1>2 DEF CompleteUpload, Answer, Goto, Posted, IInv, TypeOK, inputs
<1>3. ASSUME NEW r \in Call, Handle(r) \/ DbError(r)
      PROVE  Stay
  <2>1. /\ UNCHANGED inputs
        /\ \A q \in Call : pc[q] # "idle" => pc'[q] # "idle"
        /\ \A q \in Call : resp'[q] = "gone" => resp[q] = "gone"
    <3>1. CASE Handle(r)
      BY <3>1 DEF Handle, FindDuplicate, RecordDeduped, CreateDocument, Enlist,
         Convert, Chunk, Embed, WriteBatch, Activate, FailDocument, RecordOutcome,
         RefreshAgain, LockRow, LockView, Lock, BreakDeadlock, Deadlocked, WaitsFor,
         Refreshing, Concluding, Commit, Rollback,
         RecordJob, Answer, Goto, IInv, TypeOK, inputs, Label, Reply, pending, local, tables
    <3>2. CASE DbError(r)
      BY <3>2 DEF DbError, Goto, IInv, TypeOK, inputs
    <3> QED BY <1>3, <3>1, <3>2
  <2> QED BY <2>1 DEF Posted
<1>4. ASSUME NEW r \in Call, Crash(r) PROVE Stay
  BY <1>4 DEF Crash, Answer, Goto, Posted, IInv, TypeOK, inputs
<1>5. ASSUME NEW f \in Form, Expire(f) PROVE Stay
  BY <1>5 DEF Expire, Posted, inputs
<1> QED
  BY <1>1, <1>2, <1>3, <1>4, <1>5 DEF Next

(* So does what a form was posted with, whichever form that is.            *)
LEMMA GivenStays ==
  ASSUME IInv, [Next]_vars, NEW d, NEW c, Gave(d, c)
  PROVE  Gave(d, c)'
<1>1. PICK q \in Call : form[q] = d /\ content[q] = c /\ Posted(q)
  BY DEF Gave
<1>2. form'[q] = d /\ content'[q] = c /\ Posted(q)'
  BY <1>1, PostsStay DEF inputs
<1> QED
  BY <1>2 DEF Gave

(* A commit publishes the row a call has flushed, of its own content; rows *)
(* stay, and keep their content.                                           *)
LEMMA RowsHaveSources ==
  ASSUME IInv, [Next]_vars, NEW d \in Form
  PROVE  /\ Present(docs[d]) => Present(docs'[d]) /\ docs'[d].hash = docs[d].hash
         /\ Present(docs'[d]) /\ ~Present(docs[d]) => Gave(d, docs'[d].hash)
<1>1. CASE UNCHANGED docs
  BY <1>1
<1>2. ASSUME NEW r \in Call, WriteBatch(r) \/ Commit(r)
      PROVE  /\ Present(docs[d]) => Present(docs'[d]) /\ docs'[d].hash = docs[d].hash
             /\ Present(docs'[d]) /\ ~Present(docs[d]) => Gave(d, docs'[d].hash)
  <2>1. docs' = CommittedDocs(r) /\ pc[r] \notin {"idle", "done"}
    BY <1>2 DEF WriteBatch, Commit
  <2>2. PhaseInv(r) /\ form[r] \in Form /\ docs[form[r]] \in DocRow \cup {NoDoc}
    BY DEF IInv, TypeOK
  <2>3. CASE ~Present(pdoc[r])
    BY <2>1, <2>3 DEF CommittedDocs
  <2>4. CASE Present(pdoc[r])
    <3>1. /\ pdoc[r].hash = content[r]
          /\ docs[form[r]] \in {NoDoc, Row(content[r], "ingesting")}
      BY <2>2, <2>4 DEF PhaseInv
    <3>2. docs' = [docs EXCEPT ![form[r]] = pdoc[r]]
      BY <2>1, <2>4 DEF CommittedDocs
    <3>3. CASE d # form[r]
      BY <3>2, <3>3 DEF IInv, TypeOK
    <3>4. CASE d = form[r]
      <4>1. docs'[d] = pdoc[r]
        BY <3>2, <3>4 DEF IInv, TypeOK
      <4>2. Posted(r)
        BY <2>1, <2>2 DEF Posted, PhaseInv
      <4>3. Gave(d, docs'[d].hash)
        BY <4>1, <4>2, <3>1, <3>4 DEF Gave
      <4>4. Present(docs[d]) => docs[d].hash = content[r]
        BY <3>1, <3>4 DEF Present, Row, NoDoc
      <4> QED BY <2>4, <3>1, <4>1, <4>3, <4>4
    <3> QED BY <3>3, <3>4
  <2> QED BY <2>3, <2>4
<1> QED
  BY <1>1, <1>2 DEF Next, Handle, FindDuplicate, RecordDeduped, CreateDocument,
     Enlist, Convert, Chunk, Embed, Activate, FailDocument, RecordOutcome,
     RefreshAgain, LockRow, LockView, Lock, Rollback, BreakDeadlock,
     CompleteUpload, DbError, Crash, Expire, tables, vars
-----------------------------------------------------------------------------
(* The copies and the reader.                                              *)

LEMMA FilesInitEstablishes == FilesInit => FInv
<1> SUFFICES ASSUME FilesInit PROVE FInv
  OBVIOUS
<1>1. FilesTypeOK
  BY DEF FilesInit, FilesTypeOK, Nothing
<1>2. Sources
  BY KeysDiffer DEF FilesInit, Init, Sources, Nothing, Present, NoDoc
<1>3. ReaderInv
  BY DEF FilesInit, ReaderInv, ReadersMissNothing, Nothing, NoAsk
<1> QED BY <1>1, <1>2, <1>3 DEF FInv

(* Every object is a file, and what is there stays.                        *)
LEMMA BucketStep ==
  ASSUME IInv, FInv, [FilesNext]_filesVars
  PROVE  /\ bucket' \in [Keys -> Content \cup {NoCopy}]
         /\ \A k \in Keys : bucket[k] # NoCopy => bucket'[k] # NoCopy
         /\ \A d \in Form : bucket'[Key(d)] # NoCopy =>
              bucket'[Key(d)] = bucket[Key(d)] \/ Gave(d, bucket[Key(d)])'
<1> USE DEF FInv, FilesTypeOK
<1>1. CASE UNCHANGED bucket
  BY <1>1
<1>2. ASSUME NEW r \in Call, Upload(r),
             bucket' = [bucket EXCEPT ![Key(form[r])] = content[r]],
             form[r] \notin expired
      PROVE  /\ bucket' \in [Keys -> Content \cup {NoCopy}]
             /\ \A k \in Keys : bucket[k] # NoCopy => bucket'[k] # NoCopy
             /\ \A d \in Form : bucket'[Key(d)] # NoCopy =>
                  bucket'[Key(d)] = bucket[Key(d)] \/ Gave(d, bucket[Key(d)])'
  <2>0. form[r] \in Form /\ content[r] \in Content
    BY DEF IInv, TypeOK
  <2>1. content[r] # NoCopy /\ Key(form[r]) \in Keys
    BY <2>0, KeysDiffer, FilesAssumption
  <2>2. form' = form /\ content' = content /\ Posted(r)'
    BY <1>2 DEF Upload, CompleteUpload, Goto, Posted, inputs, IInv, TypeOK, PhaseInv
  <2>3. Gave(form[r], content[r])'
    BY <2>2 DEF Gave
  <2>4. \A d \in Form : d # form[r] => bucket'[Key(d)] = bucket[Key(d)]
    BY <1>2, <2>0, <2>1, KeysDiffer
  <2>5. bucket'[Key(form[r])] = content[r]
    BY <1>2, <2>1
  <2>6. bucket' \in [Keys -> Content \cup {NoCopy}]
    BY <1>2, <2>0, <2>1
  <2>7. \A k \in Keys : bucket[k] # NoCopy => bucket'[k] # NoCopy
    BY <1>2, <2>1
  <2>8. \A d \in Form : bucket'[Key(d)] = bucket[Key(d)] \/ Gave(d, bucket[Key(d)])'
    <3> TAKE d \in Form
    <3>1. CASE d = form[r]
      BY <2>2, <2>5, <3>1 DEF Gave
    <3> QED BY <2>4, <3>1
  <2> QED BY <2>6, <2>7, <2>8
<1>3. ASSUME NEW k \in DOMAIN Loose, UploadOnly(k)
      PROVE  /\ bucket' \in [Keys -> Content \cup {NoCopy}]
             /\ \A x \in Keys : bucket[x] # NoCopy => bucket'[x] # NoCopy
             /\ \A d \in Form : bucket'[Key(d)] = bucket[Key(d)]
  BY ZenonT(60), <1>3, KeysDiffer, FilesAssumption DEF UploadOnly
<1> QED
  BY <1>1, <1>2, <1>3 DEF FilesNext, Upload, Stores, Pipeline, LookUp, RelayUpload,
     Fetch, List, RelayFails, filesVars, reader

(* Every step keeps types.                                                 *)
LEMMA TypeStep ==
  ASSUME IInv, FInv, [FilesNext]_filesVars
  PROVE  FilesTypeOK'
<1> USE DEF FInv, FilesTypeOK
<1>1. bucket' \in [Keys -> Content \cup {NoCopy}]
  BY BucketStep
<1>2. CASE UNCHANGED reader
  BY <1>1, <1>2 DEF reader
<1>3. ASSUME NEW a \in Asks, LookUp(a) PROVE FilesTypeOK'
  <2>1. rows' \subseteq Form /\ had' \subseteq rows'
    BY <1>3 DEF LookUp, Selected
  <2>2. Countries(rows') \subseteq {Fields[f].country : f \in Form}
    BY <2>1 DEF Countries
  <2>3. answer' \in {CountryPage(Countries(rows')), Nothing("no document"),
                     Nothing("forbidden"), Pending}
    BY <1>3 DEF LookUp
  <2>4. answer' \in [is : {"none", "pending", "no document", "forbidden"}]
          \cup [is : {"countries"}, codes : SUBSET {Fields[f].country : f \in Form}]
    <3>1. CASE answer' = CountryPage(Countries(rows'))
      BY <2>2, <3>1 DEF CountryPage
    <3>2. CASE answer' \in {Nothing("no document"), Nothing("forbidden"), Pending}
      <4> DEFINE S == {"none", "pending", "no document", "forbidden"}
      <4>1. Nothing("no document") \in [is : S] /\ Nothing("forbidden") \in [is : S]
        BY Shapes
      <4>2. Pending \in [is : S]
        BY DEF Pending
      <4> QED BY <3>2, <4>1, <4>2
    <3> QED BY <2>3, <3>1, <3>2
  <2> QED BY <1>1, <1>3, <2>1, <2>4 DEF LookUp
<1>4. ASSUME NEW a \in Asks, RelayUpload(a) PROVE FilesTypeOK'
  BY <1>1, <1>4 DEF RelayUpload, Nothing
<1>5. CASE Fetch
  <2>1. \A d \in Readable(rows) : d \in Form /\ bucket[Key(d)] \in Content
    BY KeysDiffer DEF Readable
  <2>2. answer' \in [is : {"no copy", "S3 failed"}]
                      \cup [is : {"copy"}, doc : Form, file : Content]
    <3>1. CASE \E d \in Readable(rows) : answer' = Copy(d)
      <4>1. PICK d \in Readable(rows) : answer' = Copy(d)
        BY <3>1
      <4>2. Copy(d) \in [is : {"copy"}, doc : Form, file : Content]
        BY <2>1 DEF Copy
      <4> QED BY <4>1, <4>2
    <3>2. CASE answer' \in {Nothing("no copy"), Nothing("S3 failed")}
      <4>1. \A w \in {"no copy", "S3 failed"} :
              Nothing(w) \in [is : {"no copy", "S3 failed"}]
        BY Shapes
      <4> QED BY <3>2, <4>1
    <3> QED BY <1>5, <3>1, <3>2 DEF Fetch
  <2> QED BY <1>1, <1>5, <2>2 DEF Fetch
<1>6. CASE List
  <2>1. answer' \in [is : {"page"}, shown : SUBSET Form]
    <3>1. PICK shown \in SUBSET ListedRows : answer' = Page(shown)
      BY <1>6 DEF List
    <3>2. shown \subseteq Form
      BY DEF ListedRows, Selected
    <3> QED BY <3>1, <3>2 DEF Page
  <2> QED BY <1>1, <1>6, <2>1 DEF List
<1>7. CASE RelayFails
  BY <1>1, <1>7 DEF RelayFails, Nothing
<1> QED
  BY <1>2, <1>3, <1>4, <1>5, <1>6, <1>7
  DEF FilesNext, Upload, UploadOnly, Pipeline, filesVars

(* Every copy and every row is still of a file that was posted.            *)
LEMMA SourcesStep ==
  ASSUME IInv, FInv, [FilesNext]_filesVars
  PROVE  Sources'
<1>1. [Next]_vars
  BY StepIsIngestion
<1>2. \A d, c : Gave(d, c) => Gave(d, c)'
  BY <1>1, GivenStays
<1>3. ASSUME NEW d \in Form, bucket'[Key(d)] # NoCopy
      PROVE  Gave(d, bucket[Key(d)])'
  BY <1>2, <1>3, BucketStep DEF FInv, Sources
<1>4. ASSUME NEW d \in Form, Present(docs'[d])
      PROVE  Gave(d, docs[d].hash)'
  BY <1>1, <1>2, <1>4, RowsHaveSources DEF FInv, Sources
<1>5. ASSUME answer'.is = "copy"
      PROVE  Gave(answer.doc, answer.file)'
  <2>1. CASE UNCHANGED answer
    BY <1>2, <1>5, <2>1 DEF FInv, Sources
  <2>2. CASE Fetch
    <3>1. PICK d \in Readable(rows) : answer' = Copy(d)
      <4>1. answer' # Nothing("no copy") /\ answer' # Nothing("S3 failed")
        BY <1>5, Shapes
      <4> QED BY <2>2, <4>1 DEF Fetch
    <3>2. d \in Form /\ bucket[Key(d)] # NoCopy
      BY <3>1 DEF Readable, FInv, FilesTypeOK
    <3>3. answer'.doc = d /\ answer'.file = bucket[Key(d)]
      BY <3>1 DEF Copy
    <3> QED BY <1>2, <3>2, <3>3 DEF FInv, Sources
  <2> QED
    <3>1. ASSUME NEW a \in Asks, LookUp(a) PROVE FALSE
      <4>1. answer' \in {CountryPage(Countries(rows')), Nothing("no document"),
                         Nothing("forbidden"), Pending}
        BY <3>1 DEF LookUp
      <4> QED BY <1>5, <4>1, Shapes
    <3>2. ASSUME NEW a \in Asks, RelayUpload(a) PROVE FALSE
      BY <1>5, <3>2 DEF RelayUpload, Nothing
    <3>3. ~List /\ ~RelayFails
      BY <1>5 DEF List, RelayFails, Nothing, Page
    <3> QED BY <2>1, <2>2, <3>1, <3>2, <3>3 DEF FilesNext, Upload, UploadOnly,
               Pipeline, filesVars, reader
<1> QED
  BY <1>3, <1>4, <1>5 DEF Sources, Present

(* What a reader relies on between its reads stays true.                   *)
LEMMA ReaderStep ==
  ASSUME IInv, FInv, [FilesNext]_filesVars
  PROVE  ReaderInv'
<1> USE DEF FInv, FilesTypeOK
<1>1. [Next]_vars
  BY StepIsIngestion
<1>2. \A k \in Keys : bucket[k] # NoCopy => bucket'[k] # NoCopy
  BY BucketStep
<1>3. \A d \in Form : Present(docs[d]) => Present(docs[d])'
  BY <1>1, RowsHaveSources DEF Present
<1>4. \A a : Selected(a) \subseteq Selected(a)'
  BY <1>3 DEF Selected
<1>5. ASSUME had' = had, ask' = ask, rows' = rows, answer' = answer PROVE ReaderInv'
  <2>1. \A d \in had : Key(d) \in Keys
    BY KeysDiffer
  <2> QED BY <1>2, <1>4, <1>5, <2>1 DEF ReaderInv, ReadersMissNothing, Nothing
<1>6. ASSUME NEW a \in Asks, LookUp(a) PROVE ReaderInv'
  <2>1. /\ \A d \in had' : bucket'[Key(d)] # NoCopy
        /\ rows' \subseteq Selected(ask')
        /\ UNCHANGED docs
    BY <1>6 DEF LookUp, vars
  <2>2. rows' \subseteq Selected(ask)'
    BY <1>6, <2>1 DEF LookUp, Selected
  <2>3. answer'.is \in {"countries", "no document", "forbidden", "pending"}
    BY <1>6 DEF LookUp, Nothing, Pending, CountryPage
  <2> QED BY <2>1, <2>2, <2>3 DEF ReaderInv, ReadersMissNothing, Nothing
<1>7. ASSUME answer'.is \in {"not recorded", "unavailable", "S3 failed"},
             had' = had, rows' = rows, bucket' = bucket, docs' = docs,
             ask' = ask \/ ask'.by # "list"
      PROVE  ReaderInv'
  BY <1>7, <1>4 DEF ReaderInv, ReadersMissNothing, Nothing
<1>8. CASE Fetch
  <2>1. ASSUME NEW d \in Readable(rows), answer' = Copy(d) PROVE ReaderInv'
    BY <1>8, <2>1, <1>4 DEF Fetch, ReaderInv, ReadersMissNothing, Nothing, Copy, Readable
  <2>2. ASSUME Readable(rows) = {} \/ ask.by = "name",
               answer' = Nothing("no copy")
        PROVE  ReaderInv'
    <3>1. ask.by = "id" => had = {}
      BY <2>2 DEF Readable, ReaderInv
    <3> QED BY <1>8, <2>2, <3>1, <1>4 DEF Fetch, ReaderInv, ReadersMissNothing, Nothing
  <2>3. ASSUME answer' = Nothing("S3 failed") PROVE ReaderInv'
    BY <1>7, <1>8, <2>3 DEF Fetch, Nothing, vars
  <2> QED BY <1>8, <2>1, <2>2, <2>3 DEF Fetch
<1>9. CASE List
  <2>1. PICK shown \in SUBSET ListedRows :
          /\ \/ Cardinality(shown) = PageSize
             \/ Cardinality(shown) < PageSize /\ shown = ListedRows
          /\ answer' = Page(shown)
    BY <1>9 DEF List
  <2>2. rows' = rows /\ had' = had /\ ask' = ask /\ bucket' = bucket
        /\ rows \subseteq ListedRows
    BY <1>9 DEF List, ListedRows, ReaderInv
  <2>3. Cardinality(shown) < PageSize => rows \subseteq shown
    <3>1. ~(PageSize < PageSize)
      BY FullPage
    <3>2. CASE Cardinality(shown) = PageSize
      BY <3>1, <3>2
    <3> QED BY <2>1, <2>2, <3>2
  <2>4. answer'.is = "page" /\ answer'.shown = shown
    BY <2>1 DEF Page
  <2> QED BY <2>2, <2>3, <2>4, <1>4 DEF ReaderInv, ReadersMissNothing, Nothing
<1>10. CASE RelayFails
  BY <1>7, <1>10 DEF RelayFails, Nothing, vars
<1>11. ASSUME NEW a \in Asks, RelayUpload(a) PROVE ReaderInv'
  BY <1>7, <1>11 DEF RelayUpload, Nothing, vars
<1> QED
  BY <1>5, <1>6, <1>8, <1>9, <1>10, <1>11
  DEF FilesNext, Upload, UploadOnly, Pipeline, filesVars, reader
-----------------------------------------------------------------------------
(* Every state of the pipeline with its copies and readers satisfies FInv. *)
THEOREM FilesInvariance == FilesSpec => []FInv
<1>1. FInv /\ IInv /\ [FilesNext]_filesVars => FInv'
  BY TypeStep, SourcesStep, ReaderStep DEF FInv
<1>2. FilesSpec => []IInv
  BY Undisturbed, Invariance
<1> QED
  BY <1>1, <1>2, FilesInitEstablishes, PTL DEF FilesSpec

(* The bucket and what a reader holds keep their types.                    *)
THEOREM FilesTypeCorrect == FilesSpec => []FilesTypeOK
BY FilesInvariance, PTL DEF FInv

(* The copy of a document is the file its row was made of, unless the form *)
(* was posted with two.                                                    *)
THEOREM CopiesMatch == FilesSpec => []CopiesMatchRows
<1>1. FInv => CopiesMatchRows
  <2> SUFFICES ASSUME FInv, NEW d \in Form, NEW c \in Content,
                      Present(docs[d]), c # docs[d].hash,
                      bucket[Key(d)] = c \/ answer = [is |-> "copy", doc |-> d, file |-> c]
               PROVE  \E q, r \in Call : /\ form[q] = d /\ form[r] = d
                                         /\ Posted(q) /\ Posted(r)
                                         /\ content[q] # content[r]
    BY DEF CopiesMatchRows
  <2>1. Gave(d, docs[d].hash)
    BY DEF FInv, Sources
  <2>2. Gave(d, c)
    BY FilesAssumption DEF FInv, Sources
  <2> QED BY <2>1, <2>2 DEF Gave
<1> QED
  BY <1>1, FilesInvariance, PTL

(* What was there when a client asked is found, by a listing and by a      *)
(* download of one document.                                               *)
THEOREM NothingMissed == FilesSpec => []ReadersMissNothing
BY FilesInvariance, PTL DEF FInv, ReaderInv
=============================================================================
