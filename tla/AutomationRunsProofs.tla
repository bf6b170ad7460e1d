------------------------ MODULE AutomationRunsProofs ------------------------
(***************************************************************************)
(* What a run keeps for every plan, any number of workers, operators,      *)
(* faults and decisions: AtMostOnce, OutcomeIsFinal, ConfirmAfterDelivery, *)
(* ProofIsWhatWasSent and the promise of DeliveryPromise.                  *)
(*                                                                         *)
(* The first part is about the statements of RunRow.  The second is about  *)
(* AtMostOnce; its invariant is CheckpointsBracketCalls of AutomationRuns. *)
(* Most steps are quiet: they touch neither the cursor, nor                *)
(* action_started_at, nor a worker inside an action.  Five are not:        *)
(* starting an action, performing it, the two checkpoints after it, and an *)
(* operator's decision.  Then come what the cursor says about the past,    *)
(* where the proof of delivery comes from, the refinement, and the count   *)
(* of reminders.                                                           *)
(***************************************************************************)
EXTENDS AutomationRuns, TLAPS

(* The statements of RunRow keep the row's type. *)

\* The plan has a length, and its positions are actions.
LEMMA PlanShape == Len(Plan) \in Nat /\ \A c \in Steps : c \in Nat \ {0} /\ Plan[c] \in ActionTypes
BY PlanAssumption DEF Steps

\* A run that does not exist yet is the row its INSERT would find.
LEMMA NoRowType == NoRow \in Row
BY DEF NoRow, Row, Statuses, Errors

\* TryStartRun and ClaimRecoveryRun leave a row.
LEMMA ClaimType == ASSUME NEW r \in Row
                   PROVE  InsertedRun \in Row /\ Reclaimed(r) \in Row /\ TryStarted(r) \in Row
<1>1. InsertedRun \in Row BY NoRowType DEF InsertedRun, Row, Statuses
<1>2. Reclaimed(r) \in Row
  <2>1. r.attempt + 1 \in Nat BY DEF Row
  <2>2. QED BY <2>1 DEF Reclaimed, Row, Statuses, Errors
<1>3. QED BY <1>1, <1>2 DEF TryStarted

\* So do postponing, starting and aborting an action, and renewing the lease.
LEMMA CheckpointType == ASSUME NEW r \in Row
                        PROVE  /\ Postponed(r) \in Row /\ StartedAction(r) \in Row
                               /\ AbortedAction(r) \in Row /\ RenewedLease(r) \in Row
BY DEF Postponed, StartedAction, AbortedAction, RenewedLease, Row, Statuses, Errors

\* Advancing adds what was sent and stores a set of plan positions as proof.
LEMMA AdvancedType == ASSUME NEW r \in Row, NEW n \in Nat, NEW proof \in SUBSET Steps
                      PROVE  Advanced(r, n, proof) \in Row
<1>1. r.cursor + 1 \in Nat \ {0} /\ r.sent + n \in Nat BY DEF Row
<1>2. QED BY <1>1 DEF Advanced, Row

\* Moving the run to review, with or without a result.
LEMMA QuarantineType == ASSUME NEW r \in Row, NEW err \in Errors, NEW sent \in Nat, NEW proof \in SUBSET Steps
                        PROVE  Quarantined(r, err) \in Row /\ QuarantinedResult(r, sent, proof) \in Row
<1>1. Quarantined(r, err) \in Row /\ Quarantined(r, "plain") \in Row
  BY DEF Quarantined, Row, Statuses, Errors
<1>2. QuarantinedResult(r, sent, proof) \in Row
  BY <1>1 DEF QuarantinedResult, Row
<1>3. QED BY <1>1, <1>2

\* FinishRun.
LEMMA FinishedType == ASSUME NEW r \in Row, NEW status \in Statuses, NEW sent \in Nat, NEW err \in Errors
                      PROVE  Finished(r, status, sent, err) \in Row
BY DEF Finished, RetriableFailure, Row

\* Only the three known resolutions are ever offered, and each leaves a row.
LEMMA ResolutionType == ASSUME NEW r \in Row, NEW enabled \in BOOLEAN
                        PROVE  /\ Resolutions(r, enabled) \subseteq {"continue", "retry", "cancel"}
                               /\ \A x \in {"continue", "retry", "cancel"} : Resolved(r, x) \in Row
<1>1. r.started \in BOOLEAN BY DEF Row
<1>2. Resolutions(r, enabled) \subseteq {"continue", "retry", "cancel"}
  BY <1>1 DEF Resolutions
<1>3. \A x \in {"continue", "retry", "cancel"} : Resolved(r, x) \in Row
  <2>1. r.cursor + 1 \in Nat \ {0} BY DEF Row
  <2>2. Resolved(r, "continue") \in Row BY <2>1 DEF Resolved, Row, Statuses, Errors
  <2>3. Resolved(r, "retry") \in Row BY DEF Resolved, Row, Statuses, Errors
  <2>4. Resolved(r, "cancel") \in Row BY DEF Resolved, Row, Statuses, Errors
  <2>5. QED BY <2>2, <2>3, <2>4
<1>4. QED BY <1>2, <1>3

-----------------------------------------------------------------------------
(* AtMostOnce. *)

InAction == {"exec", "advance", "abort", "uncertain"}

QuietRow == /\ row'.cursor = row.cursor /\ row'.started = row.started
            /\ row.status = "canceled" => row'.status = "canceled"
            /\ row'.status = "absent" => row' = row

QuietWork == \A w \in Workers : work'[w] = work[w] \/ work'[w].pc \notin InAction

Quiet == /\ TypeOK' /\ QuietRow /\ QuietWork
         /\ effects' = effects /\ overridden' = overridden

-----------------------------------------------------------------------------
(* Workers keep their type. *)

LEMMA IdleType == Idle \in Worker /\ Idle.pc = "idle"
BY DEF Idle, Worker, Points, Kinds, Errors

\* A worker may go to any point, with any error.
LEMMA PointType == ASSUME NEW s \in Worker, NEW pc \in Points, NEW err \in Errors
                   PROVE  /\ [s EXCEPT !.pc = pc] \in Worker /\ [s EXCEPT !.pc = pc].pc = pc
                          /\ [s EXCEPT !.pc = pc, !.err = err] \in Worker
                          /\ [s EXCEPT !.pc = pc, !.err = err].pc = pc
BY DEF Worker

\* The two ways out of executeRule end outside of any action.
LEMMA LeaveType == ASSUME NEW s \in Worker, NEW err \in Errors
                   PROVE  /\ Ended(s, err) \in Worker /\ Ended(s, err).pc \notin InAction
                          /\ Failing(s, err) \in Worker /\ Failing(s, err).pc \notin InAction
<1>1. /\ "plain" \in Errors /\ {"finish", "partial", "settle"} \subseteq Points
      /\ {"idle", "finish", "partial", "settle"} \cap InAction = {}
  BY DEF Errors, Points, InAction
<1>2. \A pc \in {"finish", "partial", "settle"} : \A e \in Errors :
          [s EXCEPT !.pc = pc, !.err = e] \in Worker /\ [s EXCEPT !.pc = pc, !.err = e].pc \notin InAction
  <2> TAKE pc \in {"finish", "partial", "settle"}
  <2> TAKE e \in Errors
  <2>1. pc \in Points /\ pc \notin InAction BY <1>1
  <2>2. QED BY <2>1, PointType
<1>3. Ended(s, err) \in Worker /\ Ended(s, err).pc \notin InAction
  <2>1. Idle.pc \notin InAction BY IdleType DEF InAction
  <2>2. Ended(s, err) = [s EXCEPT !.pc = "settle", !.err = err] \/ Ended(s, err) = Idle BY DEF Ended
  <2>3. QED BY <1>2, <2>1, <2>2, IdleType
<1>4. CASE s.kind = "manual"
  <2>1. PICK e \in Errors : Failing(s, err) = [s EXCEPT !.pc = "finish", !.err = e]
    BY <1>1, <1>4 DEF Failing
  <2>2. QED BY <1>2, <1>3, <2>1
<1>5. CASE s.kind # "manual"
  <2>1. PICK pc \in {"finish", "partial"} : Failing(s, err) = [s EXCEPT !.pc = pc, !.err = err]
    BY <1>5 DEF Failing
  <2>2. QED BY <1>2, <1>3, <2>1
<1>6. QED BY <1>4, <1>5

\* A worker that ends up outside of any action has taken a quiet step.
LEMMA QuietMove == ASSUME TypeOK, NEW w \in Workers, NEW s \in Worker, s.pc \notin InAction, Become(w, s)
                   PROVE  work' \in [Workers -> Worker] /\ QuietWork
BY DEF TypeOK, Become, QuietWork

\* The usual quiet moves: to idle, to the end of executeRule, or to another point.
LEMMA QuietMoves == ASSUME TypeOK, NEW w \in Workers, NEW pc \in Points \ InAction, NEW err \in Errors,
                           \/ Become(w, Idle)
                           \/ Become(w, Ended(work[w], err))
                           \/ Become(w, Failing(work[w], err))
                           \/ Become(w, [work[w] EXCEPT !.pc = pc])
                           \/ Become(w, [work[w] EXCEPT !.pc = pc, !.err = err])
                    PROVE  work' \in [Workers -> Worker] /\ QuietWork
<1>1. work[w] \in Worker BY DEF TypeOK
<1>2. pc \in Points /\ pc \notin InAction OBVIOUS
<1>3. Idle.pc \notin InAction BY IdleType DEF InAction
<1>4. CASE Become(w, Idle) BY <1>3, <1>4, IdleType, QuietMove
<1>5. CASE Become(w, Ended(work[w], err)) BY <1>1, <1>5, LeaveType, QuietMove
<1>6. CASE Become(w, Failing(work[w], err)) BY <1>1, <1>6, LeaveType, QuietMove
<1>7. CASE Become(w, [work[w] EXCEPT !.pc = pc]) BY <1>1, <1>2, <1>7, PointType, QuietMove
<1>8. CASE Become(w, [work[w] EXCEPT !.pc = pc, !.err = err]) BY <1>1, <1>2, <1>8, PointType, QuietMove
<1>9. QED BY <1>4, <1>5, <1>6, <1>7, <1>8

LEMMA Points1 == /\ {"idle", "recover", "gone", "claim", "replay", "load", "loop", "defer", "stuck", "count",
                      "partial", "finish", "finishq", "settle"} = Points \ InAction
                 /\ {"none", "plain", "safe_retry", "no_retry", "rule_gone"} = Errors
BY DEF Points, InAction, Errors

\* What a claim makes of the row changes neither cursor nor action_started_at.
LEMMA QuietClaim == ASSUME TypeOK, AbsentIsNew, row' = TryStarted(row), CanTryStart(row)
                    PROVE  row' \in Row /\ QuietRow
<1>1. row \in Row BY DEF TypeOK
<1>2. row' \in Row BY <1>1, ClaimType
<1>3. CASE row.status = "absent"
  <2>1. row = NoRow BY <1>3 DEF AbsentIsNew
  <2>2. row' = InsertedRun BY <1>3 DEF TryStarted
  <2>3. QED BY <1>2, <2>1, <2>2 DEF QuietRow, InsertedRun, NoRow
<1>4. CASE row.status # "absent"
  <2>1. row' = Reclaimed(row) BY <1>4 DEF TryStarted
  <2>2. row.status \in {"running", "failed"} BY <1>4 DEF CanTryStart, CanReclaim, RetryOpen
  <2>3. QED BY <1>1, <1>2, <2>1, <2>2 DEF QuietRow, Reclaimed, Row
<1>5. QED BY <1>3, <1>4

\* A row that stays is quiet.
LEMMA QuietSame == ASSUME TypeOK, row' = row PROVE row' \in Row /\ QuietRow
BY DEF TypeOK, QuietRow

\* Moving a run to review is quiet.
LEMMA QuietReview == ASSUME TypeOK, NEW a, NEW err \in Errors, NEW sent \in Nat, NEW proof \in SUBSET Steps,
                            \/ row' = IF CanQuarantine(row, a) THEN Quarantined(row, err) ELSE row
                            \/ row' = IF CanQuarantine(row, a) THEN QuarantinedResult(row, sent, proof) ELSE row
                     PROVE  row' \in Row /\ QuietRow
<1>1. row \in Row BY DEF TypeOK
<1>2. row' \in Row BY <1>1, QuarantineType
<1>3. CASE ~CanQuarantine(row, a) BY <1>3, QuietSame
<1>4. CASE CanQuarantine(row, a)
  <2>1. row.status \in {"running", "failed"} BY <1>4 DEF CanQuarantine
  <2>2. CASE row' = Quarantined(row, err)
    BY <1>1, <1>2, <2>1, <2>2 DEF QuietRow, Quarantined, Row
  <2>3. CASE row' = QuarantinedResult(row, sent, proof)
    <3>1. "plain" \in Errors BY DEF Errors
    <3>2. Quarantined(row, "plain") \in Row BY <1>1, <3>1, QuarantineType
    <3>3. /\ Quarantined(row, "plain").cursor = row.cursor /\ Quarantined(row, "plain").started = row.started
          /\ Quarantined(row, "plain").status = "needs_review"
      BY <1>1 DEF Quarantined, Row
    <3>4. /\ row'.cursor = row.cursor /\ row'.started = row.started /\ row'.status = "needs_review"
      BY <2>3, <3>2, <3>3 DEF QuarantinedResult, Row
    <3>5. QED BY <1>2, <2>1, <3>4 DEF QuietRow
  <2>4. QED BY <1>4, <2>2, <2>3
<1>5. QED BY <1>3, <1>4

\* Renewing the lease, postponing and letting it expire are quiet.
LEMMA QuietLease == ASSUME TypeOK,
                           \/ row' = RenewedLease(row)
                           \/ row' = [row EXCEPT !.live = FALSE]
                           \/ row' = [row EXCEPT !.due = TRUE] /\ row.status = "failed"
                           \/ row' = Postponed(row) /\ row.status \in {"running", "failed"}
                    PROVE  row' \in Row /\ (row.status # "absent" => QuietRow)
<1>1. row \in Row BY DEF TypeOK
<1>2. row' \in Row
  <2>1. [row EXCEPT !.live = FALSE] \in Row /\ [row EXCEPT !.due = TRUE] \in Row
    BY <1>1 DEF Row
  <2>2. QED BY <1>1, <2>1, CheckpointType
<1>3. /\ row'.cursor = row.cursor /\ row'.started = row.started /\ row'.status = row.status
  BY <1>1 DEF RenewedLease, Postponed, Row
<1>4. QED BY <1>2, <1>3 DEF QuietRow

\* FinishRun concerns a running row.
LEMMA QuietFinish == ASSUME TypeOK, NEW a, Owned(row, a), NEW status \in {"success", "failed"},
                            NEW sent \in Nat, NEW err \in Errors, row' = Finished(row, status, sent, err)
                     PROVE  row' \in Row /\ QuietRow
<1>1. row \in Row /\ row.status = "running" /\ status \in Statuses BY DEF TypeOK, Owned, Statuses
<1>2. row' \in Row BY <1>1, FinishedType
<1>3. row'.cursor = row.cursor /\ row'.started = row.started /\ row'.status = status
  BY <1>1 DEF Finished, Row
<1>4. QED BY <1>1, <1>2, <1>3 DEF QuietRow

LEMMA DeferredTaskType == ASSUME TypeOK, NEW run \in BOOLEAN, NEW d \in Nat PROVE DeferredTask(run, d) \in Pend
BY DEF DeferredTask, TypeOK, Pend, PendStatuses

-----------------------------------------------------------------------------
(* Entry points. *)

LEMMA StartRunQuiet == ASSUME TypeOK, AbsentIsNew, NEW w \in Workers, NEW kind \in Kinds, StartRun(w, kind)
                       PROVE  Quiet
<1>1. row' \in Row /\ QuietRow BY QuietClaim DEF StartRun
<1>2. work' \in [Workers -> Worker] /\ QuietWork
  <2> DEFINE s == [Idle EXCEPT !.pc = "load", !.kind = kind]
  <2>1. s \in Worker /\ s.pc \notin InAction BY IdleType DEF Worker, Points, InAction
  <2>2. Become(w, s) BY DEF StartRun
  <2> HIDE DEF s
  <2>3. QED BY <2>1, <2>2, QuietMove
<1>3. QED BY <1>1, <1>2 DEF StartRun, Quiet, TypeOK, Rest, Rule, History

LEMMA DeferEventQuiet == ASSUME TypeOK, DeferEvent PROVE Quiet
<1>1. pend' \in Pend BY DeferredTaskType DEF DeferEvent
<1>2. faults' \in Nat BY DEF DeferEvent, TypeOK
<1>3. QED BY <1>1, <1>2 DEF DeferEvent, Quiet, QuietRow, QuietWork, TypeOK, Rule, History

LEMMA RecoveryScanQuiet == ASSUME TypeOK, NEW w \in Workers, RecoveryScan(w) PROVE Quiet
<1>1. work' \in [Workers -> Worker] /\ QuietWork
  <2> DEFINE s == [Idle EXCEPT !.pc = "recover", !.kind = "recovery", !.attempt = row.attempt, !.seen = row.started]
  <2>1. row.attempt \in Nat /\ row.started \in BOOLEAN BY DEF TypeOK, Row
  <2>2. s \in Worker /\ s.pc \notin InAction BY <2>1, IdleType DEF Worker, Points, Kinds, InAction
  <2>3. Become(w, s) BY DEF RecoveryScan
  <2> HIDE DEF s
  <2>4. QED BY <2>2, <2>3, QuietMove
<1>2. QED BY <1>1 DEF RecoveryScan, Quiet, QuietRow, TypeOK, Rest, Rule, History

LEMMA ClaimTaskQuiet == ASSUME TypeOK, NEW w \in Workers, ClaimTask(w) PROVE Quiet
<1>1. pend' \in Pend
  <2>1. pend \in Pend /\ pend.claims + 1 \in Nat BY DEF TypeOK, Pend
  <2>2. pend' = [pend EXCEPT !.status = "running", !.claims = pend.claims + 1, !.live = TRUE] BY DEF ClaimTask
  <2>3. QED BY <2>1, <2>2 DEF Pend, PendStatuses
<1>2. work' \in [Workers -> Worker] /\ QuietWork
  <2> DEFINE s == [Idle EXCEPT !.pc = "replay", !.kind = "replay", !.task = pend.id,
                               !.claim = pend.claims + 1, !.seen = pend.run, !.delayAt = pend.delayAt]
  <2>1. pend.id \in Nat /\ pend.claims + 1 \in Nat /\ pend.run \in BOOLEAN /\ pend.delayAt \in Nat BY DEF TypeOK, Pend
  <2>2. s \in Worker /\ s.pc \notin InAction BY <2>1, IdleType DEF Worker, Points, Kinds, InAction
  <2>3. Become(w, s) BY DEF ClaimTask
  <2> HIDE DEF s
  <2>4. QED BY <2>2, <2>3, QuietMove
<1>3. QED BY <1>1, <1>2 DEF ClaimTask, Quiet, QuietRow, TypeOK, Rest, Rule, History

-----------------------------------------------------------------------------
(* The recovery scan. *)

LEMMA RecoveryPostponeQuiet == ASSUME TypeOK, NEW w \in Workers, RecoveryPostpone(w) PROVE Quiet
<1>1. row' \in Row /\ QuietRow
  <2>1. CASE CanPostpone(row, work[w].attempt)
    BY <2>1, QuietLease DEF RecoveryPostpone, CanPostpone
  <2>2. CASE ~CanPostpone(row, work[w].attempt) BY <2>2, QuietSame DEF RecoveryPostpone
  <2>3. QED BY <2>1, <2>2
<1>2. work' \in [Workers -> Worker] /\ QuietWork BY QuietMoves, Points1 DEF RecoveryPostpone
<1>3. QED BY <1>1, <1>2 DEF RecoveryPostpone, Quiet, TypeOK, Rest, Rule, History

LEMMA RecoveryCheckQuiet == ASSUME TypeOK, NEW w \in Workers, RecoveryCheck(w) PROVE Quiet
<1>1. work' \in [Workers -> Worker] /\ QuietWork
  <2>1. PICK pc \in {"gone", "claim"} : Become(w, [work[w] EXCEPT !.pc = pc]) BY DEF RecoveryCheck
  <2>2. QED BY <2>1, QuietMoves, Points1
<1>2. QED BY <1>1 DEF RecoveryCheck, Quiet, QuietRow, TypeOK, Rest, Rule, History

LEMMA RecoveryQuarantineQuiet == ASSUME TypeOK, NEW w \in Workers, RecoveryQuarantine(w) PROVE Quiet
<1>1. row' \in Row /\ QuietRow
  <2> DEFINE err == IF work[w].seen THEN "plain" ELSE "rule_gone"
  <2>1. err \in Errors BY Points1
  <2>2. row' = IF CanQuarantine(row, work[w].attempt) THEN Quarantined(row, err) ELSE row BY DEF RecoveryQuarantine
  <2> HIDE DEF err
  <2>3. QED BY <2>1, <2>2, QuietReview
<1>2. work' \in [Workers -> Worker] /\ QuietWork BY QuietMoves, Points1 DEF RecoveryQuarantine
<1>3. QED BY <1>1, <1>2 DEF RecoveryQuarantine, Quiet, TypeOK, Rest, Rule, History

LEMMA RecoveryClaimQuiet == ASSUME TypeOK, AbsentIsNew, NEW w \in Workers, RecoveryClaim(w) PROVE Quiet
<1>1. row' \in Row /\ QuietRow
  <2>1. CASE CanReclaim(row)
    <3>1. row.status # "absent" BY <2>1 DEF CanReclaim, RetryOpen
    <3>2. row' = TryStarted(row) /\ CanTryStart(row) BY <2>1, <3>1 DEF RecoveryClaim, TryStarted, CanTryStart
    <3>3. QED BY <3>2, QuietClaim
  <2>2. CASE ~CanReclaim(row) BY <2>2, QuietSame DEF RecoveryClaim
  <2>3. QED BY <2>1, <2>2
<1>2. work' \in [Workers -> Worker] /\ QuietWork BY QuietMoves, Points1 DEF RecoveryClaim
<1>3. QED BY <1>1, <1>2 DEF RecoveryClaim, Quiet, TypeOK, Rest, Rule, History

-----------------------------------------------------------------------------
(* The replay of a deferred task. *)

LEMMA ReplayPausedQuiet == ASSUME TypeOK, NEW w \in Workers, ReplayPaused(w) PROVE Quiet
<1>1. pend' \in Pend
  <2>1. work[w].seen \in BOOLEAN /\ work[w].delayAt \in Nat BY DEF TypeOK, Worker
  <2>2. QED BY <2>1, DeferredTaskType DEF ReplayPaused
<1>2. work' \in [Workers -> Worker] /\ QuietWork BY QuietMoves, Points1 DEF ReplayPaused
<1>3. QED BY <1>1, <1>2 DEF ReplayPaused, Quiet, QuietRow, TypeOK, Rule, History

LEMMA ReplayRefusedQuiet == ASSUME TypeOK, NEW w \in Workers, ReplayRefused(w) PROVE Quiet
<1>1. work' \in [Workers -> Worker] /\ QuietWork
  <2>1. PICK err \in {"none", "plain"} : Become(w, [work[w] EXCEPT !.pc = "settle", !.err = err])
    BY DEF ReplayRefused
  <2>2. QED BY <2>1, QuietMoves, Points1
<1>2. QED BY <1>1 DEF ReplayRefused, Quiet, QuietRow, TypeOK, Rule, History

LEMMA ReplayProceedQuiet == ASSUME TypeOK, AbsentIsNew, NEW w \in Workers, ReplayProceed(w) PROVE Quiet
<1>1. row' \in Row /\ QuietRow
  <2>1. row' = row \/ (row' = TryStarted(row) /\ CanTryStart(row)) BY DEF ReplayProceed
  <2>2. QED BY <2>1, QuietClaim, QuietSame
<1>2. work' \in [Workers -> Worker] /\ QuietWork
  <2>1. PICK pc \in {"load", "settle"}, err \in {"none", "plain"} :
            Become(w, [work[w] EXCEPT !.pc = pc, !.err = err])
    BY DEF ReplayProceed
  <2>2. QED BY <2>1, QuietMoves, Points1
<1>3. QED BY <1>1, <1>2 DEF ReplayProceed, Quiet, TypeOK, Rest, Rule, History

LEMMA SettleTaskQuiet == ASSUME TypeOK, NEW w \in Workers, SettleTask(w) PROVE Quiet
<1>1. pend' \in Pend
  <2>1. [NoPend EXCEPT !.id = pend.id] \in Pend BY DEF TypeOK, NoPend, Pend, PendStatuses
  <2>2. \A st \in {"dead_letter", "pending"} : [pend EXCEPT !.live = FALSE, !.status = st] \in Pend
    BY DEF TypeOK, Pend, PendStatuses
  <2>3. QED BY <2>1, <2>2 DEF SettleTask, TypeOK
<1>2. work' \in [Workers -> Worker] /\ QuietWork BY QuietMoves, Points1 DEF SettleTask
<1>3. QED BY <1>1, <1>2 DEF SettleTask, Quiet, QuietRow, TypeOK, Rest, Rule, History

-----------------------------------------------------------------------------
(* executeRule outside of an action. *)

LEMMA LoadQuiet == ASSUME TypeOK, NEW w \in Workers, Load(w) PROVE Quiet
<1>1. work' \in [Workers -> Worker] /\ QuietWork
  <2> DEFINE s == [work[w] EXCEPT !.pc = "loop", !.attempt = row.attempt, !.cursor = row.cursor,
                                  !.sent = row.sent, !.proof = row.proof]
  <2>1. row \in Row /\ work[w] \in Worker BY DEF TypeOK
  <2>2. s \in Worker /\ s.pc \notin InAction BY <2>1 DEF Row, Worker, Points, InAction
  <2>3. Become(w, s) \/ Become(w, Ended(work[w], "none")) BY DEF Load
  <2> HIDE DEF s
  <2>4. CASE Become(w, s) BY <2>2, <2>4, QuietMove
  <2>5. CASE Become(w, Ended(work[w], "none")) BY <2>5, QuietMoves, Points1
  <2>6. QED BY <2>3, <2>4, <2>5
<1>2. QED BY <1>1 DEF Load, Quiet, QuietRow, TypeOK, Rest, Rule, History

LEMMA PlanDoneQuiet == ASSUME TypeOK, NEW w \in Workers, PlanDone(w) PROVE Quiet
<1>1. work' \in [Workers -> Worker] /\ QuietWork
  <2>1. PICK pc \in {"count", "finish"} : Become(w, [work[w] EXCEPT !.pc = pc, !.err = "none"])
    BY DEF PlanDone
  <2>2. QED BY <2>1, QuietMoves, Points1
<1>2. QED BY <1>1 DEF PlanDone, Quiet, QuietRow, TypeOK, Rest, Rule, History

LEMMA CountReminderQuiet == ASSUME TypeOK, NEW w \in Workers, CountReminder(w) PROVE Quiet
<1>1. work' \in [Workers -> Worker] /\ QuietWork BY QuietMoves, Points1 DEF CountReminder
<1>2. reminders' \in Nat BY DEF CountReminder, TypeOK
<1>3. QED BY <1>1, <1>2 DEF CountReminder, Quiet, QuietRow, TypeOK, Rule

LEMMA DelayActionQuiet == ASSUME TypeOK, NEW w \in Workers, DelayAction(w) PROVE Quiet
<1>1. row' \in Row /\ QuietRow
  <2>1. CASE Owned(row, work[w].attempt) BY <2>1, QuietLease DEF DelayAction, Owned
  <2>2. CASE ~Owned(row, work[w].attempt) BY <2>2, QuietSame DEF DelayAction
  <2>3. QED BY <2>1, <2>2
<1>2. work' \in [Workers -> Worker] /\ QuietWork BY QuietMoves, Points1 DEF DelayAction
<1>3. QED BY <1>1, <1>2 DEF DelayAction, Quiet, TypeOK, Rest, Rule, History

LEMMA DeferQuiet == ASSUME TypeOK, NEW w \in Workers, Defer(w) PROVE Quiet
<1>1. pend' \in Pend
  <2>1. work[w].cursor \in Nat BY DEF TypeOK, Worker
  <2>2. QED BY <2>1, DeferredTaskType DEF Defer
<1>2. work' \in [Workers -> Worker] /\ QuietWork BY QuietMoves, Points1 DEF Defer
<1>3. QED BY <1>1, <1>2 DEF Defer, Quiet, QuietRow, TypeOK, Rest, Rule, History

LEMMA QuarantineUncertainQuiet == ASSUME TypeOK, ActsInPlan, NEW w \in Workers, QuarantineUncertain(w)
                                  PROVE  Quiet
<1>1. row' \in Row /\ QuietRow
  <2> DEFINE s == work[w]
             review == IF Plan[s.cursor] = "send_template" THEN {s.cursor} ELSE {}
             known  == IF Delivers(s.cursor) /\ s.n > 0 THEN {s.cursor} ELSE {}
             sent   == s.sent + s.n
             proof  == s.proof \cup known \cup review
  <2>1. s \in Worker /\ s.cursor \in Steps BY DEF TypeOK, ActsInPlan, QuarantineUncertain
  <2>2. sent \in Nat BY <2>1 DEF Worker
  <2>3. proof \in SUBSET Steps BY <2>1 DEF Worker
  <2>4. row' = IF CanQuarantine(row, s.attempt) THEN QuarantinedResult(row, sent, proof) ELSE row
    BY DEF QuarantineUncertain
  <2> HIDE DEF sent, proof
  <2>5. QED BY <2>2, <2>3, <2>4, QuietReview, Points1
<1>2. work' \in [Workers -> Worker] /\ QuietWork BY QuietMoves, Points1 DEF QuarantineUncertain
<1>3. QED BY <1>1, <1>2 DEF QuarantineUncertain, Quiet, TypeOK, Rest, Rule, History

LEMMA QuarantineStuckQuiet == ASSUME TypeOK, NEW w \in Workers, QuarantineStuck(w) PROVE Quiet
<1>1. row' \in Row /\ QuietRow BY QuietReview, Points1 DEF QuarantineStuck
<1>2. work' \in [Workers -> Worker] /\ QuietWork BY QuietMoves, Points1 DEF QuarantineStuck
<1>3. QED BY <1>1, <1>2 DEF QuarantineStuck, Quiet, TypeOK, Rest, Rule, History

LEMMA QuarantineResultQuiet == ASSUME TypeOK, NEW w \in Workers, QuarantineResult(w) PROVE Quiet
<1>1. row' \in Row /\ QuietRow
  <2>1. work[w].sent \in Nat /\ {} \in SUBSET Steps BY DEF TypeOK, Worker
  <2>2. QED BY <2>1, QuietReview, Points1 DEF QuarantineResult
<1>2. work' \in [Workers -> Worker] /\ QuietWork BY QuietMoves, Points1 DEF QuarantineResult
<1>3. QED BY <1>1, <1>2 DEF QuarantineResult, Quiet, TypeOK, Rest, Rule, History

LEMMA FinishQuiet == ASSUME TypeOK, NEW w \in Workers, Finish(w) PROVE Quiet
<1> DEFINE s == work[w]
           status == IF s.err = "none" THEN "success" ELSE "failed"
<1>1. s.sent \in Nat /\ s.err \in Errors /\ status \in {"success", "failed"} BY DEF TypeOK, Worker
<1>2. CASE Owned(row, s.attempt)
  <2>1. row' = Finished(row, status, s.sent, s.err) /\ Become(w, Ended(s, s.err)) BY <1>2 DEF Finish
  <2>2. row' \in Row /\ QuietRow
    <3> HIDE DEF status
    <3>1. QED BY <1>1, <1>2, <2>1, QuietFinish
  <2>3. work' \in [Workers -> Worker] /\ QuietWork BY <1>1, <2>1, QuietMoves, Points1
  <2>4. QED BY <2>2, <2>3 DEF Finish, Quiet, TypeOK, Rest, Rule, History
<1>3. CASE ~Owned(row, s.attempt)
  <2>1. row' = row /\ Become(w, [s EXCEPT !.pc = "finishq"]) BY <1>3 DEF Finish
  <2>2. work' \in [Workers -> Worker] /\ QuietWork BY <2>1, QuietMoves, Points1
  <2>3. QED BY <2>1, <2>2 DEF Finish, Quiet, QuietRow, TypeOK, Rest, Rule, History
<1>4. QED BY <1>2, <1>3

-----------------------------------------------------------------------------
(* Operators, the rule, time and failures. *)

LEMMA OpReadQuiet == ASSUME TypeOK, NEW o \in Operators, OpRead(o) PROVE Quiet
<1>1. PICK r \in Resolutions(row, rule = "enabled") :
          op' = [op EXCEPT ![o] = [pc |-> "decided", resolution |-> r]]
  BY DEF OpRead
<1>2. row \in Row /\ (rule = "enabled") \in BOOLEAN BY DEF TypeOK
<1>3. r \in {"continue", "retry", "cancel"} BY <1>1, <1>2, ResolutionType
<1>4. op' \in [Operators -> [pc : {"idle", "decided"}, resolution : {"continue", "retry", "cancel"}]]
  BY <1>1, <1>3 DEF TypeOK
<1>5. QED BY <1>4 DEF OpRead, Quiet, QuietRow, QuietWork, TypeOK, Rule, History

LEMMA RuleEditQuiet == ASSUME TypeOK, SwitchRule \/ DeleteRule PROVE Quiet
<1>1. rule' \in {"enabled", "disabled", "deleted"} /\ edits' \in Nat
  BY DEF SwitchRule, DeleteRule, TypeOK
<1>2. UNCHANGED <<row, pend, work, op, History, faults, decisions>> BY DEF SwitchRule, DeleteRule
<1>3. QED BY <1>1, <1>2 DEF Quiet, QuietRow, QuietWork, TypeOK, History

LEMMA TimeQuiet == ASSUME TypeOK, LeaseExpires \/ RetryFallsDue \/ TaskLeaseExpires PROVE Quiet
<1>1. CASE LeaseExpires
  <2>1. row' \in Row /\ QuietRow BY <1>1, QuietLease DEF LeaseExpires
  <2>2. faults' \in Nat BY <1>1 DEF LeaseExpires, TypeOK
  <2>3. QED BY <1>1, <2>1, <2>2 DEF LeaseExpires, Quiet, QuietWork, TypeOK, Rule, History
<1>2. CASE RetryFallsDue
  <2>1. row' \in Row /\ QuietRow BY <1>2, QuietLease DEF RetryFallsDue
  <2>2. QED BY <1>2, <2>1 DEF RetryFallsDue, Quiet, QuietWork, TypeOK, Rest, Rule, History
<1>3. CASE TaskLeaseExpires
  <2>1. pend' \in Pend BY <1>3 DEF TaskLeaseExpires, TypeOK, Pend
  <2>2. faults' \in Nat BY <1>3 DEF TaskLeaseExpires, TypeOK
  <2>3. QED BY <1>3, <2>1, <2>2 DEF TaskLeaseExpires, Quiet, QuietRow, QuietWork, TypeOK, Rule, History
<1>4. QED BY <1>1, <1>2, <1>3

LEMMA CrashQuiet == ASSUME TypeOK, NEW w \in Workers, Crash(w) PROVE Quiet
<1>1. work' \in [Workers -> Worker] /\ QuietWork BY QuietMoves, Points1 DEF Crash
<1>2. faults' \in Nat BY DEF Crash, TypeOK
<1>3. QED BY <1>1, <1>2 DEF Crash, Quiet, QuietRow, TypeOK, Rule, History

LEMMA StatementFailsQuiet == ASSUME TypeOK, NEW w \in Workers, StatementFails(w) PROVE Quiet
<1>1. work' \in [Workers -> Worker] /\ QuietWork
  <2> DEFINE s == work[w]
  <2>1. Become(w, AfterFailure(s)) BY DEF StatementFails
  <2>2. \/ AfterFailure(s) = Failing(s, "plain")
        \/ \E pc \in {"stuck", "partial", "finishq"} : AfterFailure(s) = [s EXCEPT !.pc = pc]
        \/ AfterFailure(s) = Idle
        \/ AfterFailure(s) = Ended(s, "plain")
    <3> HIDE DEF s
    <3>1. CASE s.pc \in {"loop", "defer"} BY <3>1 DEF AfterFailure
    <3>2. CASE s.pc \in {"advance", "abort"} BY <3>2 DEF AfterFailure
    <3>3. CASE s.pc = "count" BY <3>3 DEF AfterFailure
    <3>4. CASE s.pc = "finish" BY <3>4 DEF AfterFailure
    <3>5. CASE s.pc \in {"recover", "gone", "claim", "settle"} BY <3>5 DEF AfterFailure
    <3>6. CASE s.pc \notin {"loop", "defer", "advance", "abort", "count", "finish",
                            "recover", "gone", "claim", "settle"}
      BY <3>6 DEF AfterFailure
    <3>7. QED BY <3>1, <3>2, <3>3, <3>4, <3>5, <3>6
  <2>3. CASE AfterFailure(s) = Failing(s, "plain") BY <2>1, <2>3, QuietMoves, Points1
  <2>4. CASE \E pc \in {"stuck", "partial", "finishq"} : AfterFailure(s) = [s EXCEPT !.pc = pc]
    <3>1. PICK pc \in {"stuck", "partial", "finishq"} : AfterFailure(s) = [s EXCEPT !.pc = pc] BY <2>4
    <3>2. pc \in Points \ InAction /\ "plain" \in Errors BY Points1
    <3>3. Become(w, [work[w] EXCEPT !.pc = pc]) BY <2>1, <3>1
    <3>4. QED BY <3>2, <3>3, QuietMoves
  <2>5. CASE AfterFailure(s) = Idle BY <2>1, <2>5, QuietMoves, Points1
  <2>6. CASE AfterFailure(s) = Ended(s, "plain") BY <2>1, <2>6, QuietMoves, Points1
  <2>7. QED BY <2>2, <2>3, <2>4, <2>5, <2>6
<1>2. faults' \in Nat BY DEF StatementFails, TypeOK
<1>3. QED BY <1>1, <1>2 DEF StatementFails, Quiet, QuietRow, TypeOK, Rule, History

-----------------------------------------------------------------------------
(* A quiet step keeps the invariant. *)

LEMMA QuietStep == ASSUME CheckpointsBracketCalls, Quiet PROVE CheckpointsBracketCalls'
<1> USE DEF CheckpointsBracketCalls
<1>1. TypeOK' BY DEF Quiet
<1>2. \A w \in Workers, c \in Steps : Acting(w, c)' => Acting(w, c)
  BY DEF Quiet, QuietWork, Acting, InAction
<1>3. Protected' = Protected BY DEF Quiet, Protected
<1>4. \A c \in Steps : Untouched(c) => Untouched(c)'
  BY <1>2 DEF Quiet, Untouched
<1>5. row'.cursor = row.cursor /\ row'.started = row.started /\ (row.status = "canceled" => row'.status = "canceled")
  BY DEF Quiet, QuietRow
<1>6. ActsInPlan' BY DEF Quiet, QuietWork, ActsInPlan, InAction
<1>7. AbsentIsNew' BY DEF Quiet, QuietRow, AbsentIsNew
<1>8. Protected \subseteq Steps BY DEF Protected
<1>9. AheadIsUntouched' BY <1>3, <1>4, <1>5, <1>8 DEF AheadIsUntouched
<1>10. UnstartedIsUntouched' BY <1>3, <1>4, <1>5, <1>8 DEF UnstartedIsUntouched
<1>11. OneActor' BY <1>2, <1>3, <1>8 DEF OneActor, Quiet
<1>12. AtMostOnce' BY DEF AtMostOnce, Quiet
<1>13. QED BY <1>1, <1>6, <1>7, <1>9, <1>10, <1>11, <1>12

-----------------------------------------------------------------------------
(* The steps that are not quiet. *)

\* What a move of one worker changes about who is inside which action.
LEMMA OneMoves == ASSUME TypeOK, NEW w \in Workers, NEW s \in Worker, Become(w, s)
                  PROVE  /\ work' \in [Workers -> Worker] /\ work'[w] = s
                         /\ \A v \in Workers : v # w => work'[v] = work[v]
                         /\ \A v \in Workers, c \in Steps : v # w => (Acting(v, c)' <=> Acting(v, c))
                         /\ \A c \in Steps : Acting(w, c)' <=> (s.pc \in {"exec", "abort"} /\ s.cursor = c)
BY DEF TypeOK, Become, Acting

\* StartRunAction: the first of those who share the attempt enters the action; nobody was there.
LEMMA StartActionStep == ASSUME CheckpointsBracketCalls, NEW w \in Workers, StartAction(w)
                         PROVE  CheckpointsBracketCalls'
<1> USE DEF CheckpointsBracketCalls
<1> DEFINE s == work[w]
           c0 == s.cursor
<1>1. CASE ~CanStartAction(row, s.attempt, c0)
  <2>1. row' = row /\ Become(w, Failing(s, "plain")) BY <1>1 DEF StartAction
  <2>2. work' \in [Workers -> Worker] /\ QuietWork BY <2>1, QuietMoves, Points1
  <2>3. Quiet BY <2>1, <2>2 DEF StartAction, Quiet, QuietRow, TypeOK, Rest, Rule, History
  <2>4. QED BY <2>3, QuietStep
<1>2. CASE CanStartAction(row, s.attempt, c0)
  <2>1. row' = StartedAction(row) /\ Become(w, [s EXCEPT !.pc = "exec"]) BY <1>2 DEF StartAction
  <2>2. row \in Row /\ s \in Worker BY DEF TypeOK
  <2>3. row.cursor = c0 /\ ~row.started /\ row.status = "running" BY <1>2 DEF CanStartAction, Owned
  <2>4. c0 \in Steps
    <3>1. c0 \in Nat \ {0} /\ c0 <= Len(Plan) BY <2>2, PlanShape DEF StartAction, AtEnd, Worker
    <3>2. QED BY <3>1, PlanShape DEF Steps
  <2>5. row' \in Row /\ row'.cursor = c0 /\ row'.started /\ row'.status = "running"
    <3>1. row' \in Row BY <2>1, <2>2, CheckpointType
    <3>2. row'.cursor = row.cursor /\ row'.started = TRUE /\ row'.status = row.status
      BY <2>1, <2>2 DEF StartedAction, Row
    <3>3. QED BY <2>3, <3>1, <3>2
  <2>6. /\ [s EXCEPT !.pc = "exec"] \in Worker /\ [s EXCEPT !.pc = "exec"].pc = "exec"
        /\ [s EXCEPT !.pc = "exec"].cursor = c0
    BY <2>2 DEF Worker, Points
  <2>7. /\ work' \in [Workers -> Worker]
        /\ \A v \in Workers : v # w => work'[v] = work[v]
        /\ \A v \in Workers, c \in Steps : v # w => (Acting(v, c)' <=> Acting(v, c))
        /\ \A c \in Steps : Acting(w, c)' <=> c0 = c
        /\ work'[w].cursor = c0
    <3> DEFINE t == [s EXCEPT !.pc = "exec"]
    <3>1. t \in Worker /\ t.pc = "exec" /\ t.cursor = c0 /\ Become(w, t) BY <2>1, <2>6
    <3> HIDE DEF t
    <3>2. QED BY <3>1, OneMoves
  <2>8. effects' = effects /\ overridden' = overridden /\ Protected' = Protected
    BY DEF StartAction, Rest, History, Protected
  <2>9. c0 \in Protected => Untouched(c0) BY <2>3 DEF UnstartedIsUntouched
  <2>10. TypeOK' BY <2>5, <2>7 DEF TypeOK, StartAction, Rest, Rule, History
  <2>11. ActsInPlan' BY <2>4, <2>7 DEF ActsInPlan
  <2>12. AbsentIsNew' BY <2>5 DEF AbsentIsNew
  <2>13. AheadIsUntouched'
    <3>1. SUFFICES ASSUME NEW c \in Protected, c > c0 PROVE Untouched(c)'
      BY <2>5, <2>8 DEF AheadIsUntouched
    <3>2. c \in Steps /\ c # c0 BY <2>4, <3>1 DEF Protected, Steps
    <3>3. Untouched(c) BY <2>3, <3>1 DEF AheadIsUntouched
    <3>4. QED BY <2>7, <2>8, <3>2, <3>3 DEF Untouched
  <2>14. UnstartedIsUntouched' BY <2>5 DEF UnstartedIsUntouched
  <2>15. OneActor'
    <3>1. SUFFICES ASSUME NEW c \in Protected, NEW v \in Workers, NEW u \in Workers, Acting(v, c)'
                   PROVE  effects[c] = 0 /\ (Acting(u, c)' => v = u)
      BY <2>8 DEF OneActor
    <3>2. c \in Steps BY DEF Protected
    <3>3. CASE c = c0 BY <2>7, <2>9, <3>1, <3>2, <3>3 DEF Untouched
    <3>4. CASE c # c0 BY <2>7, <3>1, <3>2, <3>4 DEF OneActor
    <3>5. QED BY <3>3, <3>4
  <2>16. AtMostOnce' BY <2>8 DEF AtMostOnce
  <2>17. QED BY <2>10, <2>11, <2>12, <2>13, <2>14, <2>15, <2>16
<1>3. QED BY <1>1, <1>2

\* What an executor reports.  Only a template action may report that it did nothing when it did.
LEMMA OutcomesType == ASSUME NEW c \in Steps, NEW o \in Outcomes(c)
                      PROVE  /\ o.effect \in {0, 1} /\ o.n \in {0, 1} /\ o.err \in Errors
                             /\ o.to \in {"advance", "abort", "uncertain"}
                             /\ o.to = "abort" /\ Plan[c] # "send_template" => o.effect = 0
<1>1. /\ o.effect \in {0, 1} /\ o.n \in {0, 1} /\ o.err \in {"none", "plain", "safe_retry", "no_retry"}
      /\ o.to \in {"advance", "abort", "uncertain"}
      /\ o.to = "abort" /\ Plan[c] # "send_template" => o.effect = 0
  BY DEF Outcomes
<1>2. QED BY <1>1 DEF Errors

\* The call itself: the only worker inside the action performs what was not performed before.
LEMMA ExecuteStep == ASSUME CheckpointsBracketCalls, NEW w \in Workers, Execute(w)
                     PROVE  CheckpointsBracketCalls'
<1> USE DEF CheckpointsBracketCalls
<1> DEFINE s == work[w]
           c0 == s.cursor
<1>1. PICK o \in Outcomes(c0) :
          /\ effects' = [effects EXCEPT ![c0] = effects[c0] + o.effect]
          /\ Become(w, [s EXCEPT !.pc = o.to, !.n = o.n, !.err = o.err])
  BY DEF Execute
<1>2. s \in Worker /\ s.pc = "exec" /\ c0 \in Steps BY DEF TypeOK, Execute, ActsInPlan
<1>3. /\ o.effect \in {0, 1} /\ o.n \in {0, 1} /\ o.err \in Errors
      /\ o.to \in {"advance", "abort", "uncertain"}
      /\ o.to = "abort" /\ Plan[c0] # "send_template" => o.effect = 0
  BY <1>1, <1>2, OutcomesType
<1> DEFINE t == [s EXCEPT !.pc = o.to, !.n = o.n, !.err = o.err]
<1>4. t \in Worker /\ t.pc = o.to /\ t.cursor = c0
  <2>1. o.to \in Points BY <1>3 DEF Points
  <2>2. QED BY <1>2, <1>3, <2>1 DEF Worker
<1>5. Become(w, t) BY <1>1
<1> HIDE DEF t
<1>6. /\ work' \in [Workers -> Worker] /\ work'[w] = t
      /\ \A v \in Workers : v # w => work'[v] = work[v]
      /\ \A v \in Workers, c \in Steps : v # w => (Acting(v, c)' <=> Acting(v, c))
      /\ \A c \in Steps : Acting(w, c)' <=> (t.pc \in {"exec", "abort"} /\ c0 = c)
  BY <1>4, <1>5, OneMoves
<1>7. /\ effects' \in [Steps -> Nat] /\ effects'[c0] = effects[c0] + o.effect
      /\ \A c \in Steps : c # c0 => effects'[c] = effects[c]
  BY <1>1, <1>2, <1>3 DEF TypeOK
<1>8. row' = row /\ overridden' = overridden /\ Protected' = Protected
  BY DEF Execute, Protected
<1>9. Acting(w, c0) BY <1>2 DEF Acting
<1>10. c0 \in Protected => /\ effects[c0] = 0 /\ ~Untouched(c0)
                           /\ \A v \in Workers : Acting(v, c0) => v = w
  BY <1>9 DEF OneActor, Untouched
<1>11. TypeOK' BY <1>6, <1>7 DEF TypeOK, Execute, Rule
<1>12. ActsInPlan' BY <1>2, <1>4, <1>6 DEF ActsInPlan
<1>13. AbsentIsNew' BY <1>8 DEF AbsentIsNew
<1>14. \A c \in Protected : c # c0 /\ Untouched(c) => Untouched(c)'
  BY <1>6, <1>7 DEF Untouched, Protected
<1>15. AheadIsUntouched'
  BY <1>8, <1>10, <1>14 DEF AheadIsUntouched
<1>16. UnstartedIsUntouched'
  BY <1>8, <1>10, <1>14 DEF UnstartedIsUntouched
<1>17. OneActor'
  <2>1. SUFFICES ASSUME NEW c \in Protected, NEW v \in Workers, NEW u \in Workers, Acting(v, c)'
                 PROVE  effects'[c] = 0 /\ (Acting(u, c)' => v = u)
    BY <1>8 DEF OneActor
  <2>2. c \in Steps BY DEF Protected
  <2>3. CASE c # c0 BY <1>6, <1>7, <2>1, <2>2, <2>3 DEF OneActor
  <2>4. CASE c = c0
    <3>1. v = w /\ t.pc \in {"exec", "abort"} BY <1>6, <1>10, <2>1, <2>2, <2>4
    <3>2. o.effect = 0 BY <1>3, <1>4, <2>4, <3>1 DEF Protected
    <3>3. effects'[c] = 0 BY <1>7, <1>10, <2>4, <3>2
    <3>4. Acting(u, c)' => u = w BY <1>6, <1>10, <2>2, <2>4
    <3>5. QED BY <3>1, <3>3, <3>4
  <2>5. QED BY <2>3, <2>4
<1>18. AtMostOnce'
  <2>1. SUFFICES ASSUME NEW c \in Steps, c \notin overridden, Plan[c] # "send_template"
                 PROVE  effects'[c] <= 1
    BY <1>8 DEF AtMostOnce
  <2>2. CASE c # c0 BY <1>7, <2>1, <2>2 DEF AtMostOnce
  <2>3. CASE c = c0
    <3>1. c0 \in Protected BY <2>1, <2>3 DEF Protected
    <3>2. QED BY <1>3, <1>7, <1>10, <2>3, <3>1
  <2>4. QED BY <2>2, <2>3
<1>19. QED BY <1>11, <1>12, <1>13, <1>15, <1>16, <1>17, <1>18

\* A step that leaves history and the insides of actions alone, and moves the row to a place
\* nobody has touched, keeps the invariant.
LEMMA FreshPlace == ASSUME CheckpointsBracketCalls, TypeOK', QuietWork, effects' = effects,
                           overridden \subseteq overridden', row'.status # "absent",
                           row'.cursor \in {row.cursor, row.cursor + 1},
                           \/ row'.started
                           \/ row'.status = "canceled"
                           \/ (row.cursor \in Protected => Untouched(row.cursor))'
                    PROVE  CheckpointsBracketCalls'
<1> USE DEF CheckpointsBracketCalls
<1>1. \A w \in Workers, c \in Steps : Acting(w, c)' => Acting(w, c)
  BY DEF QuietWork, Acting, InAction
<1>2. Protected' \subseteq Protected /\ Protected \subseteq Steps BY DEF Protected
<1>3. \A c \in Steps : Untouched(c) => Untouched(c)' BY <1>1 DEF Untouched
<1>4. ActsInPlan' BY DEF QuietWork, ActsInPlan, InAction
<1>5. AbsentIsNew' BY DEF AbsentIsNew
<1>6. AheadIsUntouched'
  <2>1. SUFFICES ASSUME NEW c \in Protected', c > row'.cursor PROVE Untouched(c)'
    BY DEF AheadIsUntouched
  <2>2. c > row.cursor BY <1>2, <2>1 DEF TypeOK, Row, Steps
  <2>3. QED BY <1>2, <1>3, <2>2 DEF AheadIsUntouched
<1>7. UnstartedIsUntouched' BY DEF UnstartedIsUntouched
<1>8. OneActor' BY <1>1, <1>2 DEF OneActor
<1>9. AtMostOnce' BY DEF AtMostOnce
<1>10. QED BY <1>4, <1>5, <1>6, <1>7, <1>8, <1>9

\* AdvanceRunAction: the cursor moves to an action nobody has begun.
LEMMA AdvanceStep == ASSUME CheckpointsBracketCalls, NEW w \in Workers, Advance(w)
                     PROVE  CheckpointsBracketCalls'
<1> USE DEF CheckpointsBracketCalls
<1> DEFINE s == work[w]
           keeps == Plan[s.cursor] # "confirm_shipment" /\ ~(Delivers(s.cursor) /\ s.n > 0)
           proof == IF keeps THEN row.proof ELSE NextProof(s)
           t == [s EXCEPT !.pc = "loop", !.cursor = s.cursor + 1, !.sent = s.sent + s.n,
                          !.proof = NextProof(s), !.n = 0, !.delayAt = 0]
<1>1. row \in Row /\ s \in Worker /\ s.cursor \in Steps BY DEF TypeOK, Advance, ActsInPlan
<1>2. CASE ~CanAdvance(row, s.attempt, s.cursor)
  <2>1. row' = row /\ passed' = passed /\ Become(w, [s EXCEPT !.pc = "stuck"]) BY <1>2 DEF Advance
  <2>2. work' \in [Workers -> Worker] /\ QuietWork BY <2>1, QuietMoves, Points1
  <2>3. Quiet BY <2>1, <2>2 DEF Advance, Quiet, QuietRow, TypeOK, Rule
  <2>4. QED BY <2>3, QuietStep
<1>3. CASE CanAdvance(row, s.attempt, s.cursor)
  <2>1. /\ row' = Advanced(row, s.n, proof) /\ Become(w, t)
        /\ passed' = [passed EXCEPT ![s.cursor] = "advanced"]
        /\ effects' = effects /\ overridden' = overridden
    BY <1>3 DEF Advance
  <2>2. NextProof(s) \in SUBSET Steps BY <1>1 DEF NextProof, Worker
  <2>3. proof \in SUBSET Steps BY <1>1, <2>2 DEF Row
  <2>4. s.n \in Nat BY <1>1 DEF Worker
  <2>5. row' \in Row
    <3> HIDE DEF proof
    <3>1. QED BY <1>1, <2>1, <2>3, <2>4, AdvancedType
  <2>6. row'.cursor = row.cursor + 1 /\ row'.status = row.status
    <3> HIDE DEF proof
    <3>1. QED BY <1>1, <2>1 DEF Advanced, Row
  <2>7. row.status = "running" BY <1>3 DEF CanAdvance, Owned
  <2>8. work' \in [Workers -> Worker] /\ QuietWork
    <3>1. s.cursor + 1 \in Nat \ {0} /\ s.sent + s.n \in Nat BY <1>1 DEF Worker
    <3>2. t \in Worker /\ t.pc \notin InAction BY <1>1, <2>2, <3>1 DEF Worker, Points, InAction
    <3> HIDE DEF t
    <3>3. QED BY <2>1, <3>2, QuietMove
  <2>9. TypeOK' BY <2>1, <2>5, <2>8 DEF TypeOK, Advance, Rule
  <2>10. (row.cursor \in Protected => Untouched(row.cursor))'
    <3> DEFINE next == row.cursor + 1
    <3>1. next \in Protected' => next \in Protected BY <2>1 DEF Protected
    <3>2. next > row.cursor BY <1>1 DEF Row
    <3>3. next \in Protected => Untouched(next) BY <3>2 DEF AheadIsUntouched
    <3>4. row'.cursor \in Protected' =>
              effects'[row'.cursor] = 0 /\ \A v \in Workers :
                  ~(work'[v].pc \in {"exec", "abort"} /\ work'[v].cursor = row'.cursor)
      BY <2>1, <2>6, <2>8, <3>1, <3>3 DEF Untouched, QuietWork, Acting, InAction
    <3>5. QED BY <3>4 DEF Untouched, Acting
  <2>11. QED BY <2>1, <2>6, <2>7, <2>8, <2>9, <2>10, FreshPlace
<1>4. QED BY <1>2, <1>3

\* AbortRunAction: only who was alone inside the action, and did nothing, reopens it.
LEMMA AbortStep == ASSUME CheckpointsBracketCalls, NEW w \in Workers, Abort(w)
                   PROVE  CheckpointsBracketCalls'
<1> USE DEF CheckpointsBracketCalls
<1> DEFINE s == work[w]
           c0 == s.cursor
<1>1. row \in Row /\ s \in Worker /\ s.pc = "abort" /\ s.err \in Errors
  BY DEF TypeOK, Abort, Worker
<1>2. CASE ~CanAbortAction(row, s.attempt, c0)
  <2>1. row' = row /\ Become(w, [s EXCEPT !.pc = "stuck"]) BY <1>2 DEF Abort
  <2>2. work' \in [Workers -> Worker] /\ QuietWork BY <2>1, QuietMoves, Points1
  <2>3. Quiet BY <2>1, <2>2 DEF Abort, Quiet, QuietRow, TypeOK, Rest, Rule, History
  <2>4. QED BY <2>3, QuietStep
<1>3. CASE CanAbortAction(row, s.attempt, c0)
  <2>1. row' = AbortedAction(row) /\ Become(w, Failing(s, s.err)) BY <1>3 DEF Abort
  <2>2. row.status = "running" /\ row.cursor = c0 BY <1>3 DEF CanAbortAction, Owned
  <2>3. row' \in Row BY <1>1, <2>1, CheckpointType
  <2>4. row'.cursor = row.cursor /\ row'.status = row.status BY <1>1, <2>1 DEF AbortedAction, Row
  <2>5. Failing(s, s.err) \in Worker /\ Failing(s, s.err).pc \notin InAction BY <1>1, LeaveType
  <2>6. work' \in [Workers -> Worker] /\ QuietWork BY <2>1, <2>5, QuietMove
  <2>7. effects' = effects /\ overridden' = overridden BY DEF Abort, Rest, History
  <2>8. TypeOK' BY <2>3, <2>6 DEF TypeOK, Abort, Rest, Rule, History
  <2>9. (row.cursor \in Protected => Untouched(row.cursor))'
    <3> DEFINE inside(v) == work'[v].pc \in {"exec", "abort"} /\ work'[v].cursor = c0
    <3>1. SUFFICES ASSUME c0 \in Protected PROVE effects'[c0] = 0 /\ \A v \in Workers : ~inside(v)
      BY <2>2, <2>4, <2>7 DEF Protected, Untouched, Acting
    <3>2. c0 \in Steps /\ Acting(w, c0) BY <1>1, <3>1 DEF Protected, Acting
    <3>3. effects[c0] = 0 /\ \A v \in Workers : Acting(v, c0) => v = w BY <3>1, <3>2 DEF OneActor
    <3>4. work'[w] = Failing(s, s.err) /\ \A v \in Workers : v # w => work'[v] = work[v]
      BY <2>1, <2>5, OneMoves
    <3>5. ~inside(w) BY <2>5, <3>4 DEF InAction
    <3>6. \A v \in Workers : v # w => ~inside(v) BY <3>3, <3>4 DEF Acting
    <3>7. QED BY <2>7, <3>3, <3>5, <3>6
  <2>10. QED BY <2>2, <2>4, <2>6, <2>7, <2>8, <2>9, FreshPlace
<1>4. QED BY <1>2, <1>3

\* ResolveRunIssue: continuing goes to an action nobody has begun, retrying reopens one that was
\* not begun (or overrules the policy, which unprotects it), canceling ends the run.
LEMMA OpApplyStep == ASSUME CheckpointsBracketCalls, NEW o \in Operators, OpApply(o)
                     PROVE  CheckpointsBracketCalls'
<1> USE DEF CheckpointsBracketCalls
<1> DEFINE r == op[o].resolution
<1>1. row \in Row /\ r \in {"continue", "retry", "cancel"} BY DEF TypeOK
<1>2. op' \in [Operators -> [pc : {"idle", "decided"}, resolution : {"continue", "retry", "cancel"}]]
  BY DEF TypeOK, OpApply
<1>3. effects' = effects /\ work' = work /\ QuietWork BY DEF OpApply, QuietWork
<1>4. CASE row.status # "needs_review"
  <2>1. UNCHANGED <<row, passed, overridden>> BY <1>4 DEF OpApply, CanResolve
  <2>2. Quiet BY <1>2, <1>3, <2>1 DEF OpApply, Quiet, QuietRow, TypeOK, Rule
  <2>3. QED BY <2>2, QuietStep
<1>5. CASE row.status = "needs_review"
  <2>1. /\ row' = Resolved(row, r)
        /\ passed' = IF r = "continue" /\ row.cursor \in Steps
                     THEN [passed EXCEPT ![row.cursor] = IF row.started THEN "unknown" ELSE "skipped"]
                     ELSE passed
        /\ overridden' = IF r \in Resolutions(row, TRUE) THEN overridden
                         ELSE overridden \cup ({row.cursor} \cap Steps)
    BY <1>5 DEF OpApply, CanResolve
  <2>2. row' \in Row BY <1>1, <2>1, ResolutionType
  <2>3. passed' \in [Steps -> {"open", "advanced", "skipped", "unknown"}] BY <2>1 DEF TypeOK
  <2>4. overridden \subseteq overridden' /\ overridden' \subseteq Steps BY <2>1 DEF TypeOK
  <2>5. TypeOK' BY <1>2, <1>3, <2>2, <2>3, <2>4 DEF TypeOK, OpApply, Rule
  <2>6. CASE r = "continue"
    <3>1. row'.cursor = row.cursor + 1 /\ row'.status = "running"
      BY <1>1, <2>1, <2>6 DEF Resolved, Row
    <3> DEFINE next == row.cursor + 1
    <3>2. next > row.cursor BY <1>1 DEF Row
    <3>3. next \in Protected' => next \in Protected BY <2>4 DEF Protected
    <3>4. next \in Protected => Untouched(next) BY <3>2 DEF AheadIsUntouched
    <3>5. (row.cursor \in Protected => Untouched(row.cursor))'
      BY <1>3, <3>1, <3>3, <3>4 DEF Untouched, Acting
    <3>6. QED BY <1>3, <2>4, <2>5, <3>1, <3>5, FreshPlace
  <2>7. CASE r = "retry"
    <3>1. row'.cursor = row.cursor /\ row'.status = "running"
      BY <1>1, <2>1, <2>7 DEF Resolved, Row
    <3>2. row.started => row.cursor \notin Protected'
      <4>1. row.started => "retry" \notin Resolutions(row, TRUE) BY <1>1 DEF Resolutions, Row
      <4>2. row.started => {row.cursor} \cap Steps \subseteq overridden' BY <2>1, <2>7, <4>1
      <4>3. QED BY <4>2 DEF Protected
    <3>3. row.cursor \in Protected' => row.cursor \in Protected BY <2>4 DEF Protected
    <3>4. ~row.started /\ row.cursor \in Protected => Untouched(row.cursor)
      BY <1>5 DEF UnstartedIsUntouched
    <3>5. (row.cursor \in Protected => Untouched(row.cursor))'
      BY <1>3, <3>1, <3>2, <3>3, <3>4 DEF Untouched, Acting
    <3>6. QED BY <1>3, <2>4, <2>5, <3>1, <3>5, FreshPlace
  <2>8. CASE r = "cancel"
    <3>1. row'.cursor = row.cursor /\ row'.status = "canceled"
      BY <1>1, <2>1, <2>8 DEF Resolved, Row
    <3>2. QED BY <1>3, <2>4, <2>5, <3>1, FreshPlace
  <2>9. QED BY <1>1, <2>6, <2>7, <2>8
<1>6. QED BY <1>4, <1>5

-----------------------------------------------------------------------------
(* The theorems. *)

LEMMA InitHolds == Init => CheckpointsBracketCalls
<1> SUFFICES ASSUME Init PROVE CheckpointsBracketCalls OBVIOUS
<1>1. TypeOK
  <2>1. NoPend \in Pend BY DEF NoPend, Pend, PendStatuses
  <2>2. QED BY <2>1, NoRowType, IdleType DEF Init, TypeOK
<1>2. \A w \in Workers : work[w].pc = "idle" BY IdleType DEF Init
<1>3. \A c \in Steps : Untouched(c) BY <1>2 DEF Init, Untouched, Acting
<1>4. ActsInPlan BY <1>2 DEF ActsInPlan
<1>5. AbsentIsNew BY DEF Init, AbsentIsNew
<1>6. AheadIsUntouched /\ UnstartedIsUntouched
  BY <1>3 DEF AheadIsUntouched, UnstartedIsUntouched, Protected
<1>7. OneActor BY <1>2 DEF OneActor, Acting
<1>8. AtMostOnce BY DEF Init, AtMostOnce
<1>9. QED BY <1>1, <1>4, <1>5, <1>6, <1>7, <1>8 DEF CheckpointsBracketCalls

LEMMA NextKeeps == CheckpointsBracketCalls /\ [Next]_vars => CheckpointsBracketCalls'
<1> SUFFICES ASSUME CheckpointsBracketCalls, [Next]_vars PROVE CheckpointsBracketCalls' OBVIOUS
<1>1. TypeOK /\ ActsInPlan /\ AbsentIsNew BY DEF CheckpointsBracketCalls
<1>2. CASE UNCHANGED vars
  <2>1. Quiet BY <1>1, <1>2 DEF vars, Quiet, QuietRow, QuietWork, TypeOK
  <2>2. QED BY <2>1, QuietStep
<1>3. ASSUME NEW w \in Workers, StartRun(w, "event") \/ StartRun(w, "manual")
      PROVE  CheckpointsBracketCalls'
  <2>1. PICK kind \in Kinds : StartRun(w, kind) BY <1>3 DEF Kinds
  <2>2. QED BY <1>1, <2>1, StartRunQuiet, QuietStep
<1>4. ASSUME NEW w \in Workers, RecoveryScan(w) \/ ClaimTask(w) PROVE CheckpointsBracketCalls'
  BY <1>1, <1>4, RecoveryScanQuiet, ClaimTaskQuiet, QuietStep
<1>5. ASSUME NEW w \in Workers, Progress(w) PROVE CheckpointsBracketCalls'
  <2>1. CASE RecoveryCheck(w) \/ RecoveryQuarantine(w) \/ RecoveryPostpone(w) \/ RecoveryClaim(w)
    BY <1>1, <2>1, RecoveryCheckQuiet, RecoveryQuarantineQuiet, RecoveryPostponeQuiet, RecoveryClaimQuiet, QuietStep
  <2>2. CASE ReplayProceed(w) \/ SettleTask(w)
    BY <1>1, <2>2, ReplayProceedQuiet, SettleTaskQuiet, QuietStep
  <2>3. CASE Load(w) \/ PlanDone(w) \/ CountReminder(w) \/ DelayAction(w) \/ Defer(w)
    BY <1>1, <2>3, LoadQuiet, PlanDoneQuiet, CountReminderQuiet, DelayActionQuiet, DeferQuiet, QuietStep
  <2>4. CASE StartAction(w) BY <2>4, StartActionStep
  <2>5. CASE Execute(w) BY <2>5, ExecuteStep
  <2>6. CASE Advance(w) BY <2>6, AdvanceStep
  <2>7. CASE Abort(w) BY <2>7, AbortStep
  <2>8. CASE QuarantineUncertain(w) \/ QuarantineStuck(w) \/ QuarantineResult(w) \/ Finish(w)
    BY <1>1, <2>8, QuarantineUncertainQuiet, QuarantineStuckQuiet, QuarantineResultQuiet, FinishQuiet, QuietStep
  <2>9. QED BY <1>5, <2>1, <2>2, <2>3, <2>4, <2>5, <2>6, <2>7, <2>8 DEF Progress
<1>6. ASSUME NEW w \in Workers, Disturbed(w) PROVE CheckpointsBracketCalls'
  BY <1>1, <1>6, CrashQuiet, StatementFailsQuiet, ReplayPausedQuiet, ReplayRefusedQuiet, QuietStep DEF Disturbed
<1>7. ASSUME NEW o \in Operators, OpRead(o) \/ OpApply(o) PROVE CheckpointsBracketCalls'
  BY <1>1, <1>7, OpReadQuiet, OpApplyStep, QuietStep
<1>8. CASE SwitchRule \/ DeleteRule \/ DeferEvent \/ LeaseExpires \/ RetryFallsDue \/ TaskLeaseExpires
  BY <1>1, <1>8, RuleEditQuiet, DeferEventQuiet, TimeQuiet, QuietStep
<1>9. QED BY <1>2, <1>3, <1>4, <1>5, <1>6, <1>7, <1>8 DEF Next

\* The checkpoints bracket every call: in every reachable state nothing beyond the cursor was begun,
\* nothing at the cursor unless action_started_at says so, and one worker at most is inside an action
\* (StartRunAction, AdvanceRunAction, AbortRunAction, ResolveRunIssue).
THEOREM CheckpointsHold == Spec => []CheckpointsBracketCalls
BY InitHolds, NextKeeps, PTL DEF Spec

\* Every variable keeps its type, for every plan and any number of workers and operators.
THEOREM TypeCorrect == Spec => []TypeOK
<1>1. CheckpointsBracketCalls => TypeOK BY DEF CheckpointsBracketCalls
<1>2. QED BY <1>1, CheckpointsHold, PTL

\* No action other than a template reaches the outside twice unless an operator overruled the
\* policy, whatever crashes, lost leases, failing statements, replays and retries interleave.
THEOREM AtMostOnceHolds == Spec => []AtMostOnce
<1>1. CheckpointsBracketCalls => AtMostOnce BY DEF CheckpointsBracketCalls
<1>2. QED BY <1>1, CheckpointsHold, PTL

-----------------------------------------------------------------------------
(* Outcomes are final: a step property, which needs no invariant. *)

\* Statements of workers and of time only change a row that is absent, running or failed.
LEMMA WorkersLeaveOutcomes ==
    ASSUME NEW w \in Workers,
           \/ StartRun(w, "event") \/ StartRun(w, "manual") \/ RecoveryScan(w) \/ ClaimTask(w)
           \/ Progress(w) \/ Disturbed(w)
    PROVE  row' = row \/ row.status \in {"absent", "running", "failed"}
<1> DEFINE Goal == row' = row \/ row.status \in {"absent", "running", "failed"}
<1> USE DEF CanTryStart, CanReclaim, RetryOpen, CanPostpone, CanQuarantine, Owned
<1>1. CASE StartRun(w, "event") \/ StartRun(w, "manual") BY <1>1 DEF StartRun
<1>2. CASE RecoveryScan(w) \/ ClaimTask(w) BY <1>2 DEF RecoveryScan, ClaimTask
<1>3. CASE Disturbed(w)
  BY <1>3 DEF Disturbed, Crash, StatementFails, ReplayPaused, ReplayRefused
<1>4. CASE Progress(w)
  <2>1. CASE RecoveryCheck(w) \/ RecoveryQuarantine(w) \/ RecoveryPostpone(w) \/ RecoveryClaim(w) \/ ReplayProceed(w)
    BY <2>1 DEF RecoveryCheck, RecoveryQuarantine, RecoveryPostpone, RecoveryClaim, ReplayProceed
  <2>2. CASE Load(w) \/ PlanDone(w) \/ CountReminder(w) \/ DelayAction(w) \/ Defer(w) \/ Execute(w) \/ SettleTask(w)
    BY <2>2 DEF Load, PlanDone, CountReminder, DelayAction, Defer, Execute, SettleTask, Rest
  <2>3. CASE StartAction(w) \/ Advance(w) \/ Abort(w)
    BY <2>3 DEF StartAction, Advance, Abort, CanStartAction, CanAdvance, CanAbortAction
  <2>4. CASE QuarantineUncertain(w) \/ QuarantineStuck(w) \/ QuarantineResult(w) \/ Finish(w)
    BY <2>4 DEF QuarantineUncertain, QuarantineStuck, QuarantineResult, Finish
  <2>5. QED BY <1>4, <2>1, <2>2, <2>3, <2>4 DEF Progress
<1>5. QED BY <1>1, <1>2, <1>3, <1>4

LEMMA StepLeavesOutcomes ==
    Next => \/ row' = row
            \/ row.status \in {"absent", "running", "failed"}
            \/ row.status = "needs_review" /\ \E o \in Operators : OpApply(o)
<1> SUFFICES ASSUME Next
             PROVE  \/ row' = row
                    \/ row.status \in {"absent", "running", "failed"}
                    \/ row.status = "needs_review" /\ \E o \in Operators : OpApply(o)
  OBVIOUS
<1>1. CASE \E w \in Workers : \/ StartRun(w, "event") \/ StartRun(w, "manual") \/ RecoveryScan(w)
                              \/ ClaimTask(w) \/ Progress(w) \/ Disturbed(w)
  BY <1>1, WorkersLeaveOutcomes
<1>2. CASE \E o \in Operators : OpRead(o) \/ OpApply(o)
  BY <1>2 DEF OpRead, OpApply, CanResolve
<1>3. CASE SwitchRule \/ DeleteRule \/ DeferEvent \/ LeaseExpires \/ RetryFallsDue \/ TaskLeaseExpires
  BY <1>3 DEF SwitchRule, DeleteRule, DeferEvent, LeaseExpires, RetryFallsDue, TaskLeaseExpires
<1>4. QED BY <1>1, <1>2, <1>3 DEF Next

\* No worker, scan or clock revives a finished or canceled run, and a run in review is moved by
\* ResolveRunIssue alone.
THEOREM OutcomesStay == Spec => OutcomeIsFinal
<1> DEFINE Final == /\ row.status \in {"success", "canceled"} => row' = row
                    /\ row.status = "needs_review" /\ row' # row => \E o \in Operators : OpApply(o)
<1>1. [Next]_vars => [Final]_vars BY StepLeavesOutcomes
<1>2. QED BY <1>1, PTL DEF Spec, OutcomeIsFinal

-----------------------------------------------------------------------------
(* The refinement of DeliveryPromise, and ConfirmAfterDelivery.  The       *)
(* invariant adds to CheckpointsBracketCalls what the cursor says about    *)
(* the past.                                                               *)

\* What was passed is what lies before the cursor, and whoever works is not ahead of it.
PassedBelow      == \A c \in Steps : passed[c] # "open" <=> c < row.cursor
WorkersBehind    == \A w \in Workers : work[w].cursor <= row.cursor
BegunBelow       == \A c \in Steps : effects[c] > 0 => c <= row.cursor
\* What nobody knows was passed only where the policy allows it.
UnknownIsAllowed == \A c \in Steps : passed[c] = "unknown" => c \in overridden \/ UnknownCanContinue(c)
\* Success is reported at the end of the plan only.
Ready(s)         == s.pc = "count" \/ (s.pc = "finish" /\ s.err = "none")
ReadyAtEnd       == \A w \in Workers : Ready(work[w]) => work[w].cursor > Len(Plan)
AbortHasReason   == \A w \in Workers : work[w].pc = "abort" => work[w].err # "none"
\* A worker about to record a success is alone with its action ...
RecordsAlone     == \A c \in Protected : \A w \in Workers :
                        work[w].pc = "advance" /\ work[w].cursor = c =>
                            /\ \A v \in Workers : ~Acting(v, c)
                            /\ row.cursor = c /\ row.status # "canceled" => row.started
\* ... and whoever is inside an action finds it neither recorded nor skipped.
ActingIsOpen     == \A c \in Protected : \A w \in Workers : Acting(w, c) => passed[c] \in {"open", "unknown"}

PromiseInv == /\ PassedBelow /\ WorkersBehind /\ BegunBelow /\ UnknownIsAllowed
              /\ ReadyAtEnd /\ AbortHasReason /\ RecordsAlone /\ ActingIsOpen

-----------------------------------------------------------------------------
(* Steps that record nothing. *)

\* A worker goes to s without getting ahead of the row, and reports success at the end only.
Sound(s) == s.cursor <= row.cursor /\ (Ready(s) => s.cursor > Len(Plan))

Tame == /\ Quiet /\ passed' = passed
        /\ \A w \in Workers : work'[w] = work[w] \/ Sound(work'[w])

LEMMA TameMove ==
    ASSUME TypeOK, NEW w \in Workers, NEW s, Become(w, s), Sound(s)
    PROVE  \A v \in Workers : work'[v] = work[v] \/ Sound(work'[v])
BY DEF TypeOK, Become

LEMMA IdleSound == ASSUME TypeOK PROVE Sound(Idle) /\ Idle.cursor = 1 /\ 1 <= row.cursor
<1>1. 1 <= row.cursor BY DEF TypeOK, Row
<1>2. QED BY <1>1 DEF Sound, Ready, Idle

\* Other points of the program than the last two.
LEMMA PointSound ==
    ASSUME TypeOK, PromiseInv, NEW w \in Workers, NEW pc, pc \notin {"count", "finish"}, NEW err
    PROVE  Sound([work[w] EXCEPT !.pc = pc]) /\ Sound([work[w] EXCEPT !.pc = pc, !.err = err])
<1>1. work[w] \in Worker BY DEF TypeOK
<1>2. /\ [work[w] EXCEPT !.pc = pc].cursor = work[w].cursor /\ [work[w] EXCEPT !.pc = pc].pc = pc
      /\ [work[w] EXCEPT !.pc = pc, !.err = err].cursor = work[w].cursor /\ [work[w] EXCEPT !.pc = pc, !.err = err].pc = pc
  BY <1>1 DEF Worker
<1>3. work[w].cursor <= row.cursor BY DEF PromiseInv, WorkersBehind
<1>4. QED BY <1>2, <1>3 DEF Sound, Ready

\* The two ways out of executeRule, the second with an error.
LEMMA LeaveSound ==
    ASSUME TypeOK, PromiseInv, NEW w \in Workers, NEW err
    PROVE  Sound(Ended(work[w], err)) /\ (err # "none" => Sound(Failing(work[w], err)))
<1>1. work[w] \in Worker /\ work[w].cursor <= row.cursor BY DEF TypeOK, PromiseInv, WorkersBehind
<1>2. Sound(Ended(work[w], err)) BY IdleSound, PointSound DEF Ended
<1>3. ASSUME NEW pc, NEW e, e # "none" PROVE Sound([work[w] EXCEPT !.pc = pc, !.err = e]) \/ pc = "count"
  <2>1. [work[w] EXCEPT !.pc = pc, !.err = e].cursor = work[w].cursor /\ [work[w] EXCEPT !.pc = pc, !.err = e].pc = pc
        /\ [work[w] EXCEPT !.pc = pc, !.err = e].err = e
    BY <1>1 DEF Worker
  <2>2. QED BY <1>1, <1>3, <2>1 DEF Sound, Ready
<1>4. ASSUME err # "none" PROVE Sound(Failing(work[w], err))
  <2>1. PICK pc \in {"finish", "partial"}, e \in {"plain", err} : Failing(work[w], err) = [work[w] EXCEPT !.pc = pc, !.err = e]
    <3>1. CASE work[w].kind = "manual" BY <3>1 DEF Failing
    <3>2. CASE work[w].kind # "manual" BY <3>2 DEF Failing
    <3>3. QED BY <3>1, <3>2
  <2>2. e # "none" /\ pc # "count" BY <1>4
  <2>3. Sound([work[w] EXCEPT !.pc = pc, !.err = e]) BY <1>3, <2>2
  <2>4. QED BY <2>1, <2>3
<1>5. QED BY <1>2, <1>4

\* The moves of the quiet steps.
LEMMA TameMoves ==
    ASSUME TypeOK, PromiseInv, NEW w \in Workers, NEW pc, pc \notin {"count", "finish"}, NEW err, NEW e, e # "none",
           \/ Become(w, Idle) \/ Become(w, Ended(work[w], err)) \/ Become(w, Failing(work[w], e))
           \/ Become(w, [work[w] EXCEPT !.pc = pc]) \/ Become(w, [work[w] EXCEPT !.pc = pc, !.err = err])
    PROVE  \A v \in Workers : work'[v] = work[v] \/ Sound(work'[v])
<1>1. CASE Become(w, Idle) BY <1>1, IdleSound, TameMove
<1>2. CASE Become(w, Ended(work[w], err)) BY <1>2, LeaveSound, TameMove
<1>3. CASE Become(w, Failing(work[w], e)) BY <1>3, LeaveSound, TameMove
<1>4. CASE Become(w, [work[w] EXCEPT !.pc = pc]) BY <1>4, PointSound, TameMove
<1>5. CASE Become(w, [work[w] EXCEPT !.pc = pc, !.err = err]) BY <1>5, PointSound, TameMove
<1>6. QED BY <1>1, <1>2, <1>3, <1>4, <1>5

\* Where a worker comes from the outside.
LEMMA EnterTame ==
    ASSUME TypeOK, AbsentIsNew, PromiseInv, NEW w \in Workers,
           StartRun(w, "event") \/ StartRun(w, "manual") \/ RecoveryScan(w) \/ ClaimTask(w)
    PROVE  Tame
<1>1. Quiet
  <2>1. "event" \in Kinds /\ "manual" \in Kinds BY DEF Kinds
  <2>2. QED BY <2>1, StartRunQuiet, RecoveryScanQuiet, ClaimTaskQuiet
<1>2. passed' = passed BY DEF StartRun, RecoveryScan, ClaimTask, Rest, History
<1>3. PICK s : Become(w, s) /\ s.cursor = 1 /\ s.pc \in {"load", "recover", "replay"}
  <2>1. CASE StartRun(w, "event") \/ StartRun(w, "manual")
    <3>1. PICK kind : Become(w, [Idle EXCEPT !.pc = "load", !.kind = kind]) BY <2>1 DEF StartRun
    <3>2. [Idle EXCEPT !.pc = "load", !.kind = kind].cursor = 1 /\ [Idle EXCEPT !.pc = "load", !.kind = kind].pc = "load" BY DEF Idle
    <3>3. QED BY <3>1, <3>2
  <2>2. CASE RecoveryScan(w)
    <3> DEFINE s == [Idle EXCEPT !.pc = "recover", !.kind = "recovery", !.attempt = row.attempt, !.seen = row.started]
    <3>1. Become(w, s) BY <2>2 DEF RecoveryScan
    <3>2. s.cursor = 1 /\ s.pc = "recover" BY DEF Idle
    <3> HIDE DEF s
    <3>3. QED BY <3>1, <3>2
  <2>3. CASE ClaimTask(w)
    <3> DEFINE s == [Idle EXCEPT !.pc = "replay", !.kind = "replay", !.task = pend.id, !.claim = pend.claims + 1,
                                 !.seen = pend.run, !.delayAt = pend.delayAt]
    <3>1. Become(w, s) BY <2>3 DEF ClaimTask
    <3>2. s.cursor = 1 /\ s.pc = "replay" BY DEF Idle
    <3> HIDE DEF s
    <3>3. QED BY <3>1, <3>2
  <2>4. QED BY <2>1, <2>2, <2>3
<1>4. Sound(s) BY <1>3, IdleSound DEF Sound, Ready
<1>5. QED BY <1>1, <1>2, <1>3, <1>4, TameMove DEF Tame

LEMMA RecoverTame ==
    ASSUME TypeOK, AbsentIsNew, PromiseInv, NEW w \in Workers,
           RecoveryCheck(w) \/ RecoveryQuarantine(w) \/ RecoveryPostpone(w) \/ RecoveryClaim(w)
    PROVE  Tame
<1>1. Quiet BY RecoveryCheckQuiet, RecoveryQuarantineQuiet, RecoveryPostponeQuiet, RecoveryClaimQuiet
<1>2. passed' = passed BY DEF RecoveryCheck, RecoveryQuarantine, RecoveryPostpone, RecoveryClaim, Rest, History
<1>3. Become(w, Idle) \/ \E pc \in {"gone", "claim", "load"} : Become(w, [work[w] EXCEPT !.pc = pc])
  BY DEF RecoveryCheck, RecoveryQuarantine, RecoveryPostpone, RecoveryClaim
<1>4. \A pc \in {"gone", "claim", "load"} : pc \notin {"count", "finish"} OBVIOUS
<1>5. QED BY <1>1, <1>2, <1>3, <1>4, TameMoves DEF Tame

LEMMA ReplayTame ==
    ASSUME TypeOK, AbsentIsNew, PromiseInv, NEW w \in Workers,
           ReplayPaused(w) \/ ReplayRefused(w) \/ ReplayProceed(w) \/ SettleTask(w)
    PROVE  Tame
<1>1. Quiet BY ReplayPausedQuiet, ReplayRefusedQuiet, ReplayProceedQuiet, SettleTaskQuiet
<1>2. passed' = passed BY DEF ReplayPaused, ReplayRefused, ReplayProceed, SettleTask, Rest, History
<1>3. Become(w, Idle) \/ \E pc \in {"settle", "load"} : \E err : Become(w, [work[w] EXCEPT !.pc = pc, !.err = err])
  BY DEF ReplayPaused, ReplayRefused, ReplayProceed, SettleTask
<1>4. \A pc \in {"settle", "load"} : pc \notin {"count", "finish"} OBVIOUS
<1>5. QED BY <1>1, <1>2, <1>3, <1>4, TameMoves DEF Tame

LEMMA LoadTame == ASSUME TypeOK, PromiseInv, NEW w \in Workers, Load(w) PROVE Tame
<1>1. Quiet /\ passed' = passed BY LoadQuiet DEF Load, Rest, History
<1>2. CASE Become(w, Ended(work[w], "none"))
  <2>1. Sound(Ended(work[w], "none")) BY LeaveSound
  <2>2. QED BY <1>1, <1>2, <2>1, TameMove DEF Tame
<1>3. CASE Become(w, [work[w] EXCEPT !.pc = "loop", !.attempt = row.attempt, !.cursor = row.cursor,
                                     !.sent = row.sent, !.proof = row.proof])
  <2> DEFINE s == [work[w] EXCEPT !.pc = "loop", !.attempt = row.attempt, !.cursor = row.cursor,
                                  !.sent = row.sent, !.proof = row.proof]
  <2>1. s.cursor = row.cursor /\ s.pc = "loop" BY DEF TypeOK, Worker
  <2>2. row.cursor \in Nat BY DEF TypeOK, Row
  <2> HIDE DEF s
  <2>3. Sound(s) BY <2>1, <2>2 DEF Sound, Ready
  <2>4. Become(w, s) BY <1>3 DEF s
  <2>5. QED BY <1>1, <2>3, <2>4, TameMove DEF Tame
<1>4. QED BY <1>2, <1>3 DEF Load

\* To the end of the plan, and from counting the reminder to the report.
LEMMA PlanDoneTame == ASSUME TypeOK, PromiseInv, NEW w \in Workers, PlanDone(w) \/ CountReminder(w) PROVE Tame
<1>1. Quiet /\ passed' = passed BY PlanDoneQuiet, CountReminderQuiet DEF PlanDone, CountReminder, Rest, History
<1>2. work[w] \in Worker /\ work[w].cursor <= row.cursor BY DEF TypeOK, PromiseInv, WorkersBehind
<1>3. work[w].cursor > Len(Plan) BY DEF PlanDone, AtEnd, CountReminder, PromiseInv, ReadyAtEnd, Ready
<1>4. PICK s : Become(w, s) /\ s.cursor = work[w].cursor
  <2>1. CASE PlanDone(w)
    <3>1. PICK pc : Become(w, [work[w] EXCEPT !.pc = pc, !.err = "none"]) BY <2>1 DEF PlanDone
    <3>2. [work[w] EXCEPT !.pc = pc, !.err = "none"].cursor = work[w].cursor BY <1>2 DEF Worker
    <3>3. QED BY <3>1, <3>2
  <2>2. CASE CountReminder(w) BY <1>2, <2>2 DEF CountReminder, Worker
  <2>3. QED BY <2>1, <2>2
<1>5. Sound(s) BY <1>2, <1>3, <1>4 DEF Sound
<1>6. QED BY <1>1, <1>4, <1>5, TameMove DEF Tame

LEMMA DelayTame == ASSUME TypeOK, PromiseInv, NEW w \in Workers, DelayAction(w) \/ Defer(w) PROVE Tame
<1>1. Quiet /\ passed' = passed BY DelayActionQuiet, DeferQuiet DEF DelayAction, Defer, Rest, History
<1>2. Become(w, Idle) \/ Become(w, Failing(work[w], "plain")) \/ Become(w, [work[w] EXCEPT !.pc = "defer"])
  BY DEF DelayAction, Defer
<1>3. "defer" \notin {"count", "finish"} /\ "plain" # "none" OBVIOUS
<1>4. \A v \in Workers : work'[v] = work[v] \/ Sound(work'[v]) BY <1>2, <1>3, TameMoves
<1>5. QED BY <1>1, <1>4 DEF Tame

LEMMA EndTame ==
    ASSUME TypeOK, ActsInPlan, PromiseInv, NEW w \in Workers,
           QuarantineUncertain(w) \/ QuarantineStuck(w) \/ QuarantineResult(w) \/ Finish(w)
    PROVE  Tame
<1>1. Quiet BY QuarantineUncertainQuiet, QuarantineStuckQuiet, QuarantineResultQuiet, FinishQuiet
<1>2. passed' = passed BY DEF QuarantineUncertain, QuarantineStuck, QuarantineResult, Finish, Rest, History
<1>3. (\E err : Become(w, Ended(work[w], err))) \/ Become(w, [work[w] EXCEPT !.pc = "finishq"])
  BY DEF QuarantineUncertain, QuarantineStuck, QuarantineResult, Finish
<1>4. "finishq" \notin {"count", "finish"} /\ "plain" # "none" OBVIOUS
<1>5. \A v \in Workers : work'[v] = work[v] \/ Sound(work'[v]) BY <1>3, <1>4, TameMoves
<1>6. QED BY <1>1, <1>2, <1>5 DEF Tame

LEMMA DisturbedTame == ASSUME TypeOK, PromiseInv, NEW w \in Workers, Crash(w) \/ StatementFails(w) PROVE Tame
<1>1. Quiet /\ passed' = passed BY CrashQuiet, StatementFailsQuiet DEF Crash, StatementFails, History
<1>2. \/ Become(w, Idle) \/ Become(w, Ended(work[w], "plain")) \/ Become(w, Failing(work[w], "plain"))
      \/ \E pc \in {"stuck", "partial", "finishq"} : Become(w, [work[w] EXCEPT !.pc = pc])
  BY DEF Crash, StatementFails, AfterFailure
<1>3. \A pc \in {"stuck", "partial", "finishq"} : pc \notin {"count", "finish"} OBVIOUS
<1>4. QED BY <1>1, <1>2, <1>3, TameMoves DEF Tame

LEMMA OutsideTame ==
    ASSUME TypeOK, \/ SwitchRule \/ DeleteRule \/ DeferEvent \/ LeaseExpires \/ RetryFallsDue \/ TaskLeaseExpires
                   \/ (\E o \in Operators : OpRead(o)) \/ UNCHANGED vars
    PROVE  Tame
<1>1. CASE UNCHANGED vars BY <1>1 DEF vars, Tame, Quiet, QuietRow, QuietWork, TypeOK
<1>2. CASE SwitchRule \/ DeleteRule \/ DeferEvent \/ LeaseExpires \/ RetryFallsDue \/ TaskLeaseExpires \/ \E o \in Operators : OpRead(o)
  <2>1. Quiet BY <1>2, RuleEditQuiet, DeferEventQuiet, TimeQuiet, OpReadQuiet
  <2>2. UNCHANGED <<passed, work>>
    BY <1>2 DEF SwitchRule, DeleteRule, DeferEvent, LeaseExpires, RetryFallsDue, TaskLeaseExpires, OpRead, Rest, History
  <2>3. QED BY <2>1, <2>2 DEF Tame
<1>3. QED BY <1>1, <1>2

\* Such a step keeps the invariant.
LEMMA TameKeeps == ASSUME CheckpointsBracketCalls, PromiseInv, Tame PROVE PromiseInv'
<1> USE DEF PromiseInv
<1>1. /\ row'.cursor = row.cursor /\ row'.started = row.started /\ (row.status = "canceled" => row'.status = "canceled")
      /\ effects' = effects /\ overridden' = overridden /\ passed' = passed /\ Protected' = Protected
  BY DEF Tame, Quiet, QuietRow, Protected
<1>2. \A w \in Workers : work'[w] = work[w] \/ Sound(work'[w]) BY DEF Tame
<1>3. \A w \in Workers : work'[w] = work[w] \/ work'[w].pc \notin InAction BY DEF Tame, Quiet, QuietWork
<1>4. \A w \in Workers, c \in Steps : Acting(w, c)' => Acting(w, c) BY <1>3 DEF Acting, InAction
<1>5. PassedBelow' /\ BegunBelow' /\ UnknownIsAllowed' BY <1>1 DEF PassedBelow, BegunBelow, UnknownIsAllowed
<1>6. WorkersBehind' /\ ReadyAtEnd' BY <1>1, <1>2 DEF WorkersBehind, ReadyAtEnd, Sound
<1>7. AbortHasReason' BY <1>3 DEF AbortHasReason, InAction
<1>8. RecordsAlone'
  <2> SUFFICES ASSUME NEW c \in Protected, NEW w \in Workers, work'[w].pc = "advance", work'[w].cursor = c
               PROVE  /\ \A v \in Workers : ~Acting(v, c)'
                      /\ row'.cursor = c /\ row'.status # "canceled" => row'.started
    BY <1>1 DEF RecordsAlone
  <2>1. work'[w] = work[w] /\ c \in Steps BY <1>3 DEF InAction, Protected
  <2>2. QED BY <1>1, <1>4, <2>1 DEF RecordsAlone
<1>9. ActingIsOpen' BY <1>1, <1>4 DEF ActingIsOpen, Protected
<1>10. QED BY <1>5, <1>6, <1>7, <1>8, <1>9

-----------------------------------------------------------------------------
(* The steps that are not quiet. *)

\* A checkpoint that finds the row taken over records nothing.
LEMMA RefusedTame ==
    ASSUME TypeOK, PromiseInv, NEW w \in Workers, row' = row, UNCHANGED <<pend, op, reminders, effects, passed, overridden, faults, decisions, Rule>>,
           Become(w, [work[w] EXCEPT !.pc = "stuck"]) \/ Become(w, Failing(work[w], "plain"))
    PROVE  Tame
<1>1. work' \in [Workers -> Worker] /\ QuietWork BY QuietMoves, Points1
<1>2. Quiet BY <1>1 DEF Quiet, QuietRow, TypeOK, Rule
<1>3. "stuck" \notin {"count", "finish"} /\ "plain" # "none" OBVIOUS
<1>4. \A v \in Workers : work'[v] = work[v] \/ Sound(work'[v]) BY <1>3, TameMoves
<1>5. QED BY <1>2, <1>4 DEF Tame

LEMMA StartActionPromise == ASSUME CheckpointsBracketCalls, PromiseInv, NEW w \in Workers, StartAction(w) PROVE PromiseInv'
<1> USE DEF PromiseInv
<1> DEFINE s == work[w]
           c0 == s.cursor
<1>1. row \in Row /\ s \in Worker /\ TypeOK BY DEF CheckpointsBracketCalls, TypeOK
<1>2. UNCHANGED <<pend, op, reminders, effects, passed, overridden, faults, decisions, Rule>> BY DEF StartAction, Rest, History
<1>3. CASE ~CanStartAction(row, s.attempt, c0)
  <2>1. row' = row /\ Become(w, Failing(s, "plain")) BY <1>3 DEF StartAction
  <2>2. QED BY <1>1, <1>2, <2>1, RefusedTame, TameKeeps
<1>4. CASE CanStartAction(row, s.attempt, c0)
  <2> DEFINE t == [s EXCEPT !.pc = "exec"]
  <2>1. row' = StartedAction(row) /\ Become(w, t) /\ row.cursor = c0 /\ ~row.started /\ row.status = "running"
    BY <1>4 DEF StartAction, CanStartAction, Owned
  <2>2. row'.cursor = c0 /\ row'.started BY <1>1, <2>1 DEF StartedAction, Row
  <2>3. t \in Worker /\ t.pc = "exec" /\ t.cursor = c0 BY <1>1 DEF Worker, Points
  <2> HIDE DEF t
  <2>4. /\ work'[w] = t /\ \A v \in Workers : v # w => work'[v] = work[v]
        /\ \A v \in Workers, c \in Steps : v # w => (Acting(v, c)' <=> Acting(v, c))
        /\ \A c \in Steps : Acting(w, c)' <=> (t.pc \in {"exec", "abort"} /\ t.cursor = c)
    BY <1>1, <2>1, <2>3, OneMoves
  <2>5. Protected' = Protected /\ Protected \subseteq Steps BY <1>2 DEF Protected
  <2>6. PassedBelow' /\ BegunBelow' /\ UnknownIsAllowed' BY <1>2, <2>1, <2>2 DEF PassedBelow, BegunBelow, UnknownIsAllowed
  <2>7. WorkersBehind' /\ ReadyAtEnd' /\ AbortHasReason'
    BY <1>1, <2>1, <2>2, <2>3, <2>4 DEF WorkersBehind, ReadyAtEnd, Ready, AbortHasReason
  <2>8. RecordsAlone'
    <3> SUFFICES ASSUME NEW c \in Protected, NEW u \in Workers, work'[u].pc = "advance", work'[u].cursor = c
                 PROVE  \A v \in Workers : ~Acting(v, c)'
      BY <2>2, <2>5 DEF RecordsAlone
    <3>1. work'[u] = work[u] /\ c \in Steps BY <2>3, <2>4, <2>5
    <3>2. c # c0 BY <2>1, <3>1 DEF RecordsAlone
    <3>3. QED BY <2>3, <2>4, <3>1, <3>2 DEF RecordsAlone
  <2>9. ActingIsOpen'
    <3> SUFFICES ASSUME NEW c \in Protected, NEW u \in Workers, Acting(u, c)'
                 PROVE  passed[c] \in {"open", "unknown"}
      BY <1>2, <2>5 DEF ActingIsOpen
    <3>1. c \in Steps BY <2>5
    <3>2. CASE u = w
      <4>1. c = row.cursor BY <2>1, <2>3, <2>4, <3>1, <3>2
      <4>2. c \in Nat BY <1>1, <4>1 DEF Row
      <4>3. QED BY <3>1, <4>1, <4>2 DEF PassedBelow
    <3>3. CASE u # w BY <2>4, <3>1, <3>3 DEF ActingIsOpen
    <3>4. QED BY <3>2, <3>3
  <2>10. QED BY <2>6, <2>7, <2>8, <2>9
<1>5. QED BY <1>3, <1>4

\* What Execute makes of its worker.
LEMMA ExecuteForm ==
    ASSUME TypeOK, ActsInPlan, NEW w \in Workers, Execute(w)
    PROVE  \E o \in Outcomes(work[w].cursor), t \in Worker :
              /\ work[w].cursor \in Steps /\ t.pc = o.to /\ t.err = o.err /\ t.cursor = work[w].cursor /\ Become(w, t)
              /\ effects' = [effects EXCEPT ![work[w].cursor] = effects[work[w].cursor] + o.effect]
              /\ o.effect \in {0, 1} /\ o.to \in {"advance", "abort", "uncertain"} /\ (o.to = "abort" => o.err # "none")
<1>1. work[w] \in Worker /\ work[w].cursor \in Steps BY DEF TypeOK, ActsInPlan, Execute
<1>2. PICK o \in Outcomes(work[w].cursor) :
          /\ effects' = [effects EXCEPT ![work[w].cursor] = effects[work[w].cursor] + o.effect]
          /\ Become(w, [work[w] EXCEPT !.pc = o.to, !.n = o.n, !.err = o.err])
  BY DEF Execute
<1>3. /\ o.effect \in {0, 1} /\ o.n \in {0, 1} /\ o.err \in Errors
      /\ o.to \in {"advance", "abort", "uncertain"}
  BY <1>1, <1>2, OutcomesType
<1>4. o.to = "abort" => o.err # "none" BY <1>2 DEF Outcomes
<1> DEFINE t == [work[w] EXCEPT !.pc = o.to, !.n = o.n, !.err = o.err]
<1>5. t \in Worker /\ t.pc = o.to /\ t.err = o.err /\ t.cursor = work[w].cursor
  <2>1. o.to \in Points BY <1>3 DEF Points
  <2>2. QED BY <1>1, <1>3, <2>1 DEF Worker
<1>6. Become(w, t) BY <1>2
<1> HIDE DEF t
<1>7. QED BY <1>1, <1>2, <1>3, <1>4, <1>5, <1>6

LEMMA ExecutePromise == ASSUME CheckpointsBracketCalls, PromiseInv, NEW w \in Workers, Execute(w) PROVE PromiseInv'
<1> USE DEF PromiseInv
<1> DEFINE c0 == work[w].cursor
<1>1. TypeOK /\ ActsInPlan /\ row \in Row /\ effects \in [Steps -> Nat] BY DEF CheckpointsBracketCalls, TypeOK
<1>2. PICK o \in Outcomes(c0), t \in Worker :
          /\ c0 \in Steps /\ t.pc = o.to /\ t.err = o.err /\ t.cursor = c0 /\ Become(w, t)
          /\ effects' = [effects EXCEPT ![c0] = effects[c0] + o.effect]
          /\ o.effect \in {0, 1} /\ o.to \in {"advance", "abort", "uncertain"} /\ (o.to = "abort" => o.err # "none")
  BY <1>1, ExecuteForm
<1>3. row' = row /\ passed' = passed /\ overridden' = overridden /\ Protected' = Protected /\ Protected \subseteq Steps
  BY DEF Execute, Protected
<1>4. /\ work'[w] = t /\ \A v \in Workers : v # w => work'[v] = work[v]
      /\ \A v \in Workers, c \in Steps : v # w => (Acting(v, c)' <=> Acting(v, c))
      /\ \A c \in Steps : Acting(w, c)' <=> (t.pc \in {"exec", "abort"} /\ t.cursor = c)
  BY <1>1, <1>2, OneMoves
<1>5. Acting(w, c0) BY DEF Acting, Execute
<1>6. c0 <= row.cursor BY DEF WorkersBehind
<1>7. PassedBelow' /\ UnknownIsAllowed' BY <1>3 DEF PassedBelow, UnknownIsAllowed
<1>8. BegunBelow' BY <1>1, <1>2, <1>3, <1>6 DEF BegunBelow
<1>9. WorkersBehind' /\ ReadyAtEnd' /\ AbortHasReason'
  BY <1>2, <1>3, <1>4, <1>6 DEF WorkersBehind, ReadyAtEnd, Ready, AbortHasReason
<1>10. \A v \in Workers, c \in Steps : Acting(v, c)' => Acting(v, c) BY <1>2, <1>4, <1>5
<1>11. RecordsAlone'
  <2> SUFFICES ASSUME NEW c \in Protected, NEW u \in Workers, work'[u].pc = "advance", work'[u].cursor = c
               PROVE  /\ \A v \in Workers : ~Acting(v, c)'
                      /\ row.cursor = c /\ row.status # "canceled" => row.started
    BY <1>3 DEF RecordsAlone
  <2>1. c \in Steps BY <1>3
  <2>2. CASE u # w BY <1>4, <1>10, <2>1, <2>2 DEF RecordsAlone
  <2>3. CASE u = w
    <3>1. c = c0 /\ t.pc = "advance" BY <1>2, <1>4, <2>3
    <3>2. \A v \in Workers : Acting(v, c) => v = w BY <1>5, <3>1 DEF CheckpointsBracketCalls, OneActor
    <3>3. row.cursor = c /\ row.status # "canceled" => row.started
      BY <1>5, <3>1 DEF CheckpointsBracketCalls, UnstartedIsUntouched, Untouched
    <3>4. QED BY <1>4, <1>10, <2>1, <3>1, <3>2, <3>3
  <2>4. QED BY <2>2, <2>3
<1>12. ActingIsOpen' BY <1>3, <1>10 DEF ActingIsOpen
<1>13. QED BY <1>7, <1>8, <1>9, <1>11, <1>12

\* What a recorded success makes of row, history and worker.
LEMMA AdvanceForm ==
    ASSUME TypeOK, ActsInPlan, NEW w \in Workers, Advance(w), CanAdvance(row, work[w].attempt, work[w].cursor)
    PROVE  /\ work[w].cursor \in Steps /\ row.cursor = work[w].cursor /\ row.status = "running" /\ row.started
           /\ row'.cursor = row.cursor + 1 /\ row'.status = "running"
           /\ passed' = [passed EXCEPT ![row.cursor] = "advanced"] /\ effects' = effects /\ overridden' = overridden
           /\ work'[w].pc = "loop" /\ work'[w].cursor = row.cursor + 1 /\ \A v \in Workers : v # w => work'[v] = work[v]
<1> DEFINE s == work[w]
           keeps == Plan[s.cursor] # "confirm_shipment" /\ ~(Delivers(s.cursor) /\ s.n > 0)
           proof == IF keeps THEN row.proof ELSE NextProof(s)
           t == [s EXCEPT !.pc = "loop", !.cursor = s.cursor + 1, !.sent = s.sent + s.n,
                          !.proof = NextProof(s), !.n = 0, !.delayAt = 0]
<1>1. row \in Row /\ s \in Worker /\ s.cursor \in Steps BY DEF TypeOK, Advance, ActsInPlan
<1>2. row.cursor = s.cursor /\ row.status = "running" /\ row.started BY DEF CanAdvance, Owned
<1>3. /\ row' = Advanced(row, s.n, proof) /\ Become(w, t) /\ effects' = effects /\ overridden' = overridden
      /\ passed' = [passed EXCEPT ![s.cursor] = "advanced"]
  BY DEF Advance
<1>4. t.pc = "loop" /\ t.cursor = s.cursor + 1 BY <1>1 DEF Worker
<1>5. row'.cursor = row.cursor + 1 /\ row'.status = row.status
  <2> HIDE DEF proof
  <2>1. QED BY <1>1, <1>3 DEF Advanced, Row
<1> HIDE DEF t
<1>6. work'[w] = t /\ \A v \in Workers : v # w => work'[v] = work[v] BY <1>3 DEF TypeOK, Become
<1>7. QED BY <1>1, <1>2, <1>3, <1>4, <1>5, <1>6

LEMMA AdvancePromise == ASSUME CheckpointsBracketCalls, PromiseInv, NEW w \in Workers, Advance(w) PROVE PromiseInv'
<1> USE DEF PromiseInv
<1> DEFINE c0 == row.cursor
<1>1. TypeOK /\ ActsInPlan /\ row \in Row /\ c0 \in Nat BY DEF CheckpointsBracketCalls, TypeOK, Row
<1>2. CASE ~CanAdvance(row, work[w].attempt, work[w].cursor)
  <2>1. row' = row /\ UNCHANGED <<pend, op, reminders, effects, passed, overridden, faults, decisions, Rule>>
        /\ Become(w, [work[w] EXCEPT !.pc = "stuck"])
    BY <1>2 DEF Advance
  <2>2. QED BY <1>1, <2>1, RefusedTame, TameKeeps
<1>3. CASE CanAdvance(row, work[w].attempt, work[w].cursor)
  <2>1. /\ c0 \in Steps /\ work[w].cursor = c0 /\ row'.cursor = c0 + 1
        /\ passed' = [passed EXCEPT ![c0] = "advanced"] /\ effects' = effects /\ overridden' = overridden
        /\ work'[w].pc = "loop" /\ work'[w].cursor = c0 + 1 /\ \A v \in Workers : v # w => work'[v] = work[v]
    BY <1>1, <1>3, AdvanceForm
  <2>2. \A c \in Steps : c \in Nat /\ passed'[c] = IF c = c0 THEN "advanced" ELSE passed[c]
    BY <1>1, <2>1 DEF TypeOK, Steps
  <2>3. PassedBelow' BY <1>1, <2>1, <2>2 DEF PassedBelow
  <2>4. BegunBelow' BY <1>1, <2>1, <2>2 DEF BegunBelow
  <2>5. UnknownIsAllowed' BY <2>1, <2>2 DEF UnknownIsAllowed
  <2>6. \A v \in Workers : work[v].cursor \in Nat BY <1>1 DEF TypeOK, Worker
  <2>7. WorkersBehind' BY <1>1, <2>1, <2>6 DEF WorkersBehind
  <2>8. ReadyAtEnd' /\ AbortHasReason' BY <2>1 DEF ReadyAtEnd, Ready, AbortHasReason
  <2>9. \A v \in Workers, c \in Steps : Acting(v, c)' => v # w /\ Acting(v, c) BY <2>1 DEF Acting
  <2>10. Protected' = Protected /\ Protected \subseteq Steps BY <2>1 DEF Protected
  <2>11. RecordsAlone'
    <3> SUFFICES ASSUME NEW c \in Protected, NEW u \in Workers, work'[u].pc = "advance", work'[u].cursor = c
                 PROVE  (\A v \in Workers : ~Acting(v, c)') /\ row'.cursor # c
      BY <2>10 DEF RecordsAlone
    <3>1. u # w /\ work'[u] = work[u] /\ c \in Steps BY <2>1, <2>10
    <3>2. c <= c0 BY <3>1 DEF WorkersBehind
    <3>3. row'.cursor # c BY <1>1, <2>1, <2>2, <3>1, <3>2
    <3>4. QED BY <2>9, <3>1, <3>3 DEF RecordsAlone
  <2>12. ActingIsOpen'
    <3> SUFFICES ASSUME NEW c \in Protected, NEW u \in Workers, Acting(u, c)'
                 PROVE  passed'[c] \in {"open", "unknown"}
      BY <2>10 DEF ActingIsOpen
    <3>1. Acting(u, c) /\ c \in Steps BY <2>9, <2>10
    <3>2. c # c0 BY <2>1, <3>1 DEF RecordsAlone, Advance
    <3>3. QED BY <2>2, <3>1, <3>2 DEF ActingIsOpen
  <2>13. QED BY <2>3, <2>4, <2>5, <2>7, <2>8, <2>11, <2>12
<1>4. QED BY <1>2, <1>3

LEMMA AbortPromise == ASSUME CheckpointsBracketCalls, PromiseInv, NEW w \in Workers, Abort(w) PROVE PromiseInv'
<1> USE DEF PromiseInv
<1> DEFINE s == work[w]
           c0 == s.cursor
<1>1. TypeOK /\ row \in Row /\ s \in Worker /\ s.pc = "abort" /\ s.err \in Errors
  BY DEF CheckpointsBracketCalls, TypeOK, Abort, Worker
<1>2. UNCHANGED <<pend, op, reminders, effects, passed, overridden, faults, decisions, Rule>> BY DEF Abort, Rest, History
<1>3. CASE ~CanAbortAction(row, s.attempt, c0)
  <2>1. row' = row /\ Become(w, [s EXCEPT !.pc = "stuck"]) BY <1>3 DEF Abort
  <2>2. QED BY <1>1, <1>2, <2>1, RefusedTame, TameKeeps
<1>4. CASE CanAbortAction(row, s.attempt, c0)
  <2> DEFINE t == Failing(s, s.err)
  <2>1. row' = AbortedAction(row) /\ Become(w, t) /\ row.cursor = c0 /\ row.status = "running"
    BY <1>4 DEF Abort, CanAbortAction, Owned
  <2>2. row'.cursor = row.cursor BY <1>1, <2>1 DEF AbortedAction, Row
  <2>3. s.err # "none" BY <1>1 DEF AbortHasReason
  <2>4. t \in Worker /\ t.pc \notin InAction /\ Sound(t) BY <1>1, <2>3, LeaveType, LeaveSound
  <2> HIDE DEF t
  <2>5. work'[w] = t /\ \A v \in Workers : v # w => work'[v] = work[v] BY <1>1, <2>1, <2>4, OneMoves
  <2>6. \A v \in Workers, c \in Steps : Acting(v, c)' => Acting(v, c) BY <2>4, <2>5 DEF Acting, InAction
  <2>7. Protected' = Protected /\ Protected \subseteq Steps BY <1>2 DEF Protected
  <2>8. PassedBelow' /\ BegunBelow' /\ UnknownIsAllowed' BY <1>2, <2>2 DEF PassedBelow, BegunBelow, UnknownIsAllowed
  <2>9. WorkersBehind' /\ ReadyAtEnd' /\ AbortHasReason'
    BY <2>2, <2>4, <2>5 DEF WorkersBehind, ReadyAtEnd, AbortHasReason, Sound, InAction
  <2>10. RecordsAlone'
    <3> SUFFICES ASSUME NEW c \in Protected, NEW u \in Workers, work'[u].pc = "advance", work'[u].cursor = c
                 PROVE  (\A v \in Workers : ~Acting(v, c)') /\ row'.cursor # c
      BY <2>7 DEF RecordsAlone
    <3>1. work'[u] = work[u] /\ c \in Steps BY <2>4, <2>5, <2>7 DEF InAction
    <3>2. \A v \in Workers : ~Acting(v, c) BY <3>1 DEF RecordsAlone
    <3>3. c # c0 BY <1>1, <3>2 DEF Acting
    <3>4. QED BY <2>1, <2>2, <2>6, <3>1, <3>2, <3>3
  <2>11. ActingIsOpen' BY <1>2, <2>6, <2>7 DEF ActingIsOpen
  <2>12. QED BY <2>8, <2>9, <2>10, <2>11
<1>5. QED BY <1>3, <1>4

\* What a decision makes of row and history.
LEMMA OpApplyForm ==
    ASSUME TypeOK, NEW o \in Operators, OpApply(o), CanResolve(row)
    PROVE  /\ row.status = "needs_review" /\ work' = work /\ effects' = effects
           /\ overridden' = overridden \/ (row.cursor \in Steps /\ overridden' = overridden \cup {row.cursor})
           /\ \/ /\ row'.cursor = row.cursor + 1 /\ row'.status = "running"
                 /\ IF row.cursor \in Steps
                    THEN passed' = [passed EXCEPT ![row.cursor] = IF row.started THEN "unknown" ELSE "skipped"]
                    ELSE passed' = passed
                 /\ row.started /\ row.cursor \in Steps => UnknownCanContinue(row.cursor) \/ row.cursor \in overridden'
              \/ /\ row'.cursor = row.cursor /\ row'.status = "running" /\ passed' = passed
                 /\ row.started /\ row.cursor \in Steps => row.cursor \in overridden'
              \/ row'.cursor = row.cursor /\ row'.status = "canceled" /\ passed' = passed /\ overridden' = overridden
<1> DEFINE r == op[o].resolution
<1>1. row \in Row /\ row.status = "needs_review" /\ r \in {"continue", "retry", "cancel"} BY DEF TypeOK, CanResolve
<1>2. /\ row' = Resolved(row, r) /\ work' = work /\ effects' = effects
      /\ passed' = IF r = "continue" /\ row.cursor \in Steps
                   THEN [passed EXCEPT ![row.cursor] = IF row.started THEN "unknown" ELSE "skipped"] ELSE passed
      /\ overridden' = IF r \in Resolutions(row, TRUE) THEN overridden ELSE overridden \cup ({row.cursor} \cap Steps)
  BY DEF OpApply
<1> HIDE DEF r
<1>3. overridden' = overridden \/ (row.cursor \in Steps /\ overridden' = overridden \cup {row.cursor}) BY <1>2
<1>4. CASE r = "continue"
  <2>1. row'.cursor = row.cursor + 1 /\ row'.status = "running" BY <1>1, <1>2, <1>4 DEF Resolved, Row
  <2>2. row.started /\ ~UnknownCanContinue(row.cursor) => "continue" \notin Resolutions(row, TRUE) BY DEF Resolutions
  <2>3. QED BY <1>1, <1>2, <1>3, <1>4, <2>1, <2>2
<1>5. CASE r = "retry"
  <2>1. row'.cursor = row.cursor /\ row'.status = "running" BY <1>1, <1>2, <1>5 DEF Resolved, Row
  <2>2. row.started => "retry" \notin Resolutions(row, TRUE) BY <1>1 DEF Resolutions, Row
  <2>3. QED BY <1>1, <1>2, <1>3, <1>5, <2>1, <2>2
<1>6. CASE r = "cancel"
  <2>1. row'.cursor = row.cursor /\ row'.status = "canceled" BY <1>1, <1>2, <1>6 DEF Resolved, Row
  <2>2. "cancel" \in Resolutions(row, TRUE) BY <1>1 DEF Resolutions, Row
  <2>3. QED BY <1>1, <1>2, <1>3, <1>6, <2>1, <2>2
<1>7. QED BY <1>1, <1>4, <1>5, <1>6

LEMMA OpApplyPromise == ASSUME CheckpointsBracketCalls, PromiseInv, NEW o \in Operators, OpApply(o) PROVE PromiseInv'
<1> USE DEF PromiseInv
<1> DEFINE c0 == row.cursor
<1>1. TypeOK /\ row \in Row /\ c0 \in Nat /\ passed \in [Steps -> {"open", "advanced", "skipped", "unknown"}]
  BY DEF CheckpointsBracketCalls, TypeOK, Row
<1>2. CASE ~CanResolve(row)
  <2>1. UNCHANGED <<row, passed, overridden, work, effects>> BY <1>2 DEF OpApply
  <2>2. TypeOK' BY OpApplyStep DEF CheckpointsBracketCalls
  <2>3. Tame BY <2>1, <2>2 DEF Tame, Quiet, QuietRow, QuietWork
  <2>4. QED BY <2>3, TameKeeps
<1>3. CASE CanResolve(row)
  <2>1. /\ row.status = "needs_review" /\ work' = work /\ effects' = effects
        /\ overridden' = overridden \/ (c0 \in Steps /\ overridden' = overridden \cup {c0})
        /\ \/ /\ row'.cursor = c0 + 1 /\ row'.status = "running"
              /\ IF c0 \in Steps
                 THEN passed' = [passed EXCEPT ![c0] = IF row.started THEN "unknown" ELSE "skipped"]
                 ELSE passed' = passed
              /\ row.started /\ c0 \in Steps => UnknownCanContinue(c0) \/ c0 \in overridden'
           \/ /\ row'.cursor = c0 /\ row'.status = "running" /\ passed' = passed
              /\ row.started /\ c0 \in Steps => c0 \in overridden'
           \/ row'.cursor = c0 /\ row'.status = "canceled" /\ passed' = passed /\ overridden' = overridden
    BY <1>1, <1>3, OpApplyForm
  <2>2. \A c \in Steps : c \in Nat BY DEF Steps
  <2>3. \A c \in Steps : passed'[c] = IF c = c0 /\ row'.cursor = c0 + 1
                                      THEN IF row.started THEN "unknown" ELSE "skipped" ELSE passed[c]
    <3>1. CASE row'.cursor = c0 + 1
      <4>1. row'.cursor # c0 BY <1>1, <3>1
      <4>2. IF c0 \in Steps THEN passed' = [passed EXCEPT ![c0] = IF row.started THEN "unknown" ELSE "skipped"]
                            ELSE passed' = passed
        BY <2>1, <4>1
      <4>3. QED BY <1>1, <3>1, <4>2
    <3>2. CASE row'.cursor # c0 + 1 BY <2>1, <3>2
    <3>3. QED BY <3>1, <3>2
  <2>4. row'.cursor \in {c0, c0 + 1} /\ c0 <= row'.cursor /\ c0 # c0 + 1 BY <1>1, <2>1
  <2>5. PassedBelow' BY <1>1, <2>2, <2>3, <2>4 DEF PassedBelow
  <2>6. BegunBelow' BY <1>1, <2>1, <2>2, <2>4 DEF BegunBelow
  <2>7. UnknownIsAllowed'
    <3> SUFFICES ASSUME NEW c \in Steps, passed'[c] = "unknown" PROVE c \in overridden' \/ UnknownCanContinue(c)
      BY DEF UnknownIsAllowed
    <3>1. overridden \subseteq overridden' BY <2>1
    <3>2. CASE passed[c] = "unknown" BY <3>1, <3>2 DEF UnknownIsAllowed
    <3>3. CASE passed[c] # "unknown"
      <4>1. c = c0 /\ row'.cursor = c0 + 1 /\ row.started BY <2>3, <3>3
      <4>2. QED BY <2>1, <2>4, <4>1
    <3>4. QED BY <3>2, <3>3
  <2>8. \A v \in Workers : work[v].cursor \in Nat BY <1>1 DEF TypeOK, Worker
  <2>9. WorkersBehind' /\ ReadyAtEnd' /\ AbortHasReason'
    BY <1>1, <2>1, <2>4, <2>8 DEF WorkersBehind, ReadyAtEnd, Ready, AbortHasReason
  <2>10. Protected' \subseteq Protected /\ Protected \subseteq Steps /\ Protected' \cap overridden' = {}
    BY <2>1 DEF Protected
  <2>11. \A v \in Workers, c \in Steps : Acting(v, c)' <=> Acting(v, c) BY <2>1 DEF Acting
  <2>12. RecordsAlone'
    <3> SUFFICES ASSUME NEW c \in Protected', NEW u \in Workers, work[u].pc = "advance", work[u].cursor = c
                 PROVE  /\ \A v \in Workers : ~Acting(v, c)'
                        /\ row'.cursor = c /\ row'.status # "canceled" => row'.started
      BY <2>1 DEF RecordsAlone
    <3>1. c \in Protected /\ c \in Steps /\ c \notin overridden' BY <2>10
    <3>2. c <= c0 BY DEF WorkersBehind
    <3>3. row'.cursor = c => row'.status = "canceled"
      <4> SUFFICES ASSUME row'.cursor = c, row'.status # "canceled" PROVE FALSE OBVIOUS
      <4>1. c = c0 /\ row'.cursor = c0 BY <1>1, <2>2, <2>4, <3>1, <3>2
      <4>2. row.started BY <2>1, <3>1, <4>1 DEF RecordsAlone
      <4>3. QED BY <2>1, <2>4, <3>1, <4>1, <4>2
    <3>4. QED BY <2>11, <3>1, <3>3 DEF RecordsAlone
  <2>13. ActingIsOpen'
    <3> SUFFICES ASSUME NEW c \in Protected', NEW u \in Workers, Acting(u, c)
                 PROVE  passed'[c] \in {"open", "unknown"}
      BY <2>10, <2>11 DEF ActingIsOpen
    <3>1. c \in Protected /\ c \in Steps BY <2>10
    <3>2. c = c0 => row.started
      BY <2>1, <3>1 DEF CheckpointsBracketCalls, UnstartedIsUntouched, Untouched
    <3>3. QED BY <2>3, <3>1, <3>2 DEF ActingIsOpen
  <2>14. QED BY <2>5, <2>6, <2>7, <2>9, <2>12, <2>13
<1>4. QED BY <1>2, <1>3

-----------------------------------------------------------------------------
(* The invariant, and what the platform is told. *)

LEMMA InitPromise == Init => PromiseInv
<1> SUFFICES ASSUME Init PROVE PromiseInv OBVIOUS
<1>1. row.cursor = 1 /\ \A w \in Workers : work[w].pc = "idle" /\ work[w].cursor = 1 BY DEF Init, NoRow, Idle
<1>2. \A c \in Steps : effects[c] = 0 /\ passed[c] = "open" /\ c \in Nat /\ ~(c < 1) BY DEF Init, Steps
<1>3. PassedBelow /\ WorkersBehind /\ BegunBelow /\ UnknownIsAllowed
  BY <1>1, <1>2 DEF PassedBelow, WorkersBehind, BegunBelow, UnknownIsAllowed
<1>4. ReadyAtEnd /\ AbortHasReason /\ RecordsAlone /\ ActingIsOpen
  BY <1>1 DEF ReadyAtEnd, Ready, AbortHasReason, RecordsAlone, ActingIsOpen, Acting
<1>5. QED BY <1>3, <1>4 DEF PromiseInv

\* All steps but those of the fences, and decisions.
LEMMA TameSteps ==
    ASSUME CheckpointsBracketCalls, PromiseInv, [Next]_vars
    PROVE  \/ Tame
           \/ \E w \in Workers : StartAction(w) \/ Execute(w) \/ Advance(w) \/ Abort(w)
           \/ \E o \in Operators : OpApply(o)
<1>1. TypeOK /\ ActsInPlan /\ AbsentIsNew BY DEF CheckpointsBracketCalls
<1>2. ASSUME NEW w \in Workers, StartRun(w, "event") \/ StartRun(w, "manual") \/ RecoveryScan(w) \/ ClaimTask(w)
      PROVE  Tame
  BY <1>1, <1>2, EnterTame
<1>3. ASSUME NEW w \in Workers, Progress(w) PROVE Tame \/ StartAction(w) \/ Execute(w) \/ Advance(w) \/ Abort(w)
  <2>1. CASE RecoveryCheck(w) \/ RecoveryQuarantine(w) \/ RecoveryPostpone(w) \/ RecoveryClaim(w) BY <1>1, <2>1, RecoverTame
  <2>2. CASE ReplayProceed(w) \/ SettleTask(w) BY <1>1, <2>2, ReplayTame
  <2>3. CASE Load(w) BY <1>1, <2>3, LoadTame
  <2>4. CASE PlanDone(w) \/ CountReminder(w) BY <1>1, <2>4, PlanDoneTame
  <2>5. CASE DelayAction(w) \/ Defer(w) BY <1>1, <2>5, DelayTame
  <2>6. CASE QuarantineUncertain(w) \/ QuarantineStuck(w) \/ QuarantineResult(w) \/ Finish(w) BY <1>1, <2>6, EndTame
  <2>7. QED BY <1>3, <2>1, <2>2, <2>3, <2>4, <2>5, <2>6 DEF Progress
<1>4. ASSUME NEW w \in Workers, Disturbed(w) PROVE Tame
  BY <1>1, <1>4, DisturbedTame, ReplayTame DEF Disturbed
<1>5. CASE \/ SwitchRule \/ DeleteRule \/ DeferEvent \/ LeaseExpires \/ RetryFallsDue \/ TaskLeaseExpires
           \/ (\E o \in Operators : OpRead(o)) \/ UNCHANGED vars
  BY <1>1, <1>5, OutsideTame
<1>6. QED BY <1>2, <1>3, <1>4, <1>5 DEF Next

LEMMA PromiseKeeps == CheckpointsBracketCalls /\ PromiseInv /\ [Next]_vars => PromiseInv'
BY TameSteps, TameKeeps, StartActionPromise, ExecutePromise, AdvancePromise, AbortPromise, OpApplyPromise

\* At every reachable state what lies before the cursor was passed, nobody works beyond it, and
\* nothing was passed without knowing that a later confirm_shipment relies on.
THEOREM PromiseHolds == Spec => []PromiseInv
BY InitPromise, PromiseKeeps, CheckpointsHold, PTL DEF Spec

\* The platform is told "shipped" only after every earlier card was recorded as sent, or knowingly
\* skipped, or overruled by an operator (automationIssuePolicy), for every plan.
THEOREM ConfirmAfterDeliveryHolds == Spec => []ConfirmAfterDelivery
<1>1. ASSUME TypeOK, PromiseInv PROVE ConfirmAfterDelivery
  <2> SUFFICES ASSUME NEW c \in Steps, Plan[c] = "confirm_shipment", effects[c] > 0,
                      NEW d \in 1 .. c - 1, Delivers(d), d \notin overridden
               PROVE  passed[d] \in {"advanced", "skipped"}
    BY DEF ConfirmAfterDelivery
  <2>1. c \in Nat /\ d \in Steps /\ d < c /\ d \in Nat BY PlanAssumption DEF Steps
  <2>2. c <= row.cursor /\ row.cursor \in Nat BY <1>1 DEF PromiseInv, BegunBelow, TypeOK, Row
  <2>3. passed[d] # "open" BY <1>1, <2>1, <2>2 DEF PromiseInv, PassedBelow
  <2>4. passed[d] # "unknown"
    <3>1. ~UnknownCanContinue(d) BY <2>1 DEF UnknownCanContinue
    <3>2. QED BY <1>1, <2>1, <3>1 DEF PromiseInv, UnknownIsAllowed
  <2>5. QED BY <1>1, <2>1, <2>3, <2>4 DEF TypeOK
<1>2. QED BY <1>1, PromiseHolds, TypeCorrect, PTL

-----------------------------------------------------------------------------
(* ProofIsWhatWasSent.  The proof travels with the cursor: the invariant   *)
(* says what the row's proof and the workers' copies of it may name.       *)

\* What the workers' copies of the proof are made of: what they were, or what the row holds.
Carried(w) == \/ work'[w].proof = {}
              \/ work'[w].proof = work[w].proof /\ work'[w].cursor = work[w].cursor
              \/ work'[w].proof = row.proof /\ work'[w].cursor = row.cursor /\ row' = row /\ work'[w].pc \notin InAction

LEMMA MoveCarried ==
    ASSUME TypeOK, NEW w \in Workers, NEW s, Become(w, s),
           \/ s.proof = {}
           \/ s.proof = work[w].proof /\ s.cursor = work[w].cursor
           \/ s.proof = row.proof /\ s.cursor = row.cursor /\ row' = row /\ s.pc \notin InAction
    PROVE  \A v \in Workers : Carried(v)
BY DEF TypeOK, Become, Carried

LEMMA MovesCarried ==
    ASSUME TypeOK, NEW w \in Workers, NEW pc, NEW err, NEW n,
           \/ Become(w, Idle) \/ Become(w, Ended(work[w], err)) \/ Become(w, Failing(work[w], err))
           \/ Become(w, [work[w] EXCEPT !.pc = pc]) \/ Become(w, [work[w] EXCEPT !.pc = pc, !.err = err])
           \/ Become(w, [work[w] EXCEPT !.pc = pc, !.n = n, !.err = err])
    PROVE  \A v \in Workers : Carried(v)
<1>1. work[w] \in Worker BY DEF TypeOK
<1>2. ASSUME NEW p, NEW e
      PROVE  /\ [work[w] EXCEPT !.pc = p].proof = work[w].proof /\ [work[w] EXCEPT !.pc = p].cursor = work[w].cursor
             /\ [work[w] EXCEPT !.pc = p, !.err = e].proof = work[w].proof
             /\ [work[w] EXCEPT !.pc = p, !.err = e].cursor = work[w].cursor
             /\ [work[w] EXCEPT !.pc = p, !.n = n, !.err = e].proof = work[w].proof
             /\ [work[w] EXCEPT !.pc = p, !.n = n, !.err = e].cursor = work[w].cursor
  BY <1>1 DEF Worker
<1>3. Idle.proof = {} BY DEF Idle
<1>4. CASE Become(w, Idle) BY <1>3, <1>4, MoveCarried
<1>5. CASE Become(w, Ended(work[w], err)) BY <1>2, <1>3, <1>5, MoveCarried DEF Ended
<1>6. CASE Become(w, Failing(work[w], err))
  <2>1. \E p, e : Failing(work[w], err) = [work[w] EXCEPT !.pc = p, !.err = e]
    <3>1. CASE work[w].kind = "manual" BY <3>1 DEF Failing
    <3>2. CASE work[w].kind # "manual" BY <3>2 DEF Failing
    <3>3. QED BY <3>1, <3>2
  <2>2. PICK p, e : Failing(work[w], err) = [work[w] EXCEPT !.pc = p, !.err = e] BY <2>1
  <2> DEFINE s == [work[w] EXCEPT !.pc = p, !.err = e]
  <2>3. s.proof = work[w].proof /\ s.cursor = work[w].cursor BY <1>2
  <2>4. Become(w, s) BY <1>6, <2>2
  <2> HIDE DEF s
  <2>5. QED BY <2>3, <2>4, MoveCarried
<1>7. CASE Become(w, [work[w] EXCEPT !.pc = pc]) BY <1>2, <1>7, MoveCarried
<1>8. CASE Become(w, [work[w] EXCEPT !.pc = pc, !.err = err]) BY <1>2, <1>8, MoveCarried
<1>9. CASE Become(w, [work[w] EXCEPT !.pc = pc, !.n = n, !.err = err]) BY <1>2, <1>9, MoveCarried
<1>10. QED BY <1>4, <1>5, <1>6, <1>7, <1>8, <1>9

\* Only AdvanceRunAction makes a worker's proof another one.
LEMMA WorkCarries ==
    ASSUME TypeOK, [Next]_vars
    PROVE  (\A v \in Workers : Carried(v)) \/ \E w \in Workers : Advance(w)
<1> DEFINE Goal == \A v \in Workers : Carried(v)
<1>1. ASSUME work' = work PROVE Goal BY <1>1 DEF Carried
<1>2. ASSUME NEW w \in Workers, StartRun(w, "event") \/ StartRun(w, "manual") \/ RecoveryScan(w) \/ ClaimTask(w)
      PROVE  Goal
  <2>1. PICK s : Become(w, s) /\ s.proof = {}
    <3>1. CASE StartRun(w, "event") \/ StartRun(w, "manual")
      <4>1. PICK kind : Become(w, [Idle EXCEPT !.pc = "load", !.kind = kind]) BY <3>1 DEF StartRun
      <4>2. [Idle EXCEPT !.pc = "load", !.kind = kind].proof = {} BY DEF Idle
      <4>3. QED BY <4>1, <4>2
    <3>2. CASE RecoveryScan(w)
      <4> DEFINE s == [Idle EXCEPT !.pc = "recover", !.kind = "recovery", !.attempt = row.attempt, !.seen = row.started]
      <4>1. Become(w, s) BY <3>2 DEF RecoveryScan
      <4>2. s.proof = {} BY DEF Idle
      <4> HIDE DEF s
      <4>3. QED BY <4>1, <4>2
    <3>3. CASE ClaimTask(w)
      <4> DEFINE s == [Idle EXCEPT !.pc = "replay", !.kind = "replay", !.task = pend.id, !.claim = pend.claims + 1,
                                   !.seen = pend.run, !.delayAt = pend.delayAt]
      <4>1. Become(w, s) BY <3>3 DEF ClaimTask
      <4>2. s.proof = {} BY DEF Idle
      <4> HIDE DEF s
      <4>3. QED BY <4>1, <4>2
    <3>4. QED BY <1>2, <3>1, <3>2, <3>3
  <2>2. QED BY <2>1, MoveCarried
<1>3. ASSUME NEW w \in Workers, Load(w) PROVE Goal
  <2>1. CASE Become(w, Ended(work[w], "none")) BY <2>1, MovesCarried
  <2>2. CASE Become(w, [work[w] EXCEPT !.pc = "loop", !.attempt = row.attempt, !.cursor = row.cursor,
                                       !.sent = row.sent, !.proof = row.proof])
    <3> DEFINE s == [work[w] EXCEPT !.pc = "loop", !.attempt = row.attempt, !.cursor = row.cursor,
                                    !.sent = row.sent, !.proof = row.proof]
    <3>1. s.proof = row.proof /\ s.cursor = row.cursor /\ s.pc = "loop" BY DEF TypeOK, Worker
    <3>2. Become(w, s) /\ row' = row BY <1>3, <2>2 DEF Load
    <3> HIDE DEF s
    <3>3. s.pc \notin InAction BY <3>1 DEF InAction
    <3>4. QED BY <3>1, <3>2, <3>3, MoveCarried
  <2>3. QED BY <1>3, <2>1, <2>2 DEF Load
<1>4. ASSUME NEW w \in Workers, Progress(w), ~Advance(w) PROVE Goal
  <2>1. CASE RecoveryCheck(w) \/ RecoveryQuarantine(w) \/ RecoveryPostpone(w) \/ RecoveryClaim(w)
    <3>1. Become(w, Idle) \/ \E pc : Become(w, [work[w] EXCEPT !.pc = pc])
      BY <2>1 DEF RecoveryCheck, RecoveryQuarantine, RecoveryPostpone, RecoveryClaim
    <3>2. QED BY <3>1, MovesCarried
  <2>2. CASE ReplayProceed(w) \/ SettleTask(w)
    <3>1. Become(w, Idle) \/ \E pc, err : Become(w, [work[w] EXCEPT !.pc = pc, !.err = err])
      BY <2>2 DEF ReplayProceed, SettleTask
    <3>2. QED BY <3>1, MovesCarried
  <2>3. CASE Load(w) BY <1>3, <2>3
  <2>4. CASE PlanDone(w) \/ CountReminder(w)
    <3>1. \E pc, err : Become(w, [work[w] EXCEPT !.pc = pc, !.err = err]) \/ Become(w, [work[w] EXCEPT !.pc = pc])
      BY <2>4 DEF PlanDone, CountReminder
    <3>2. QED BY <3>1, MovesCarried
  <2>5. CASE DelayAction(w) \/ Defer(w) \/ StartAction(w) \/ Abort(w)
    <3>1. Become(w, Idle) \/ (\E err : Become(w, Failing(work[w], err))) \/ \E pc : Become(w, [work[w] EXCEPT !.pc = pc])
      BY <2>5 DEF DelayAction, Defer, StartAction, Abort
    <3>2. QED BY <3>1, MovesCarried
  <2>6. CASE Execute(w)
    <3>1. \E pc, n, err : Become(w, [work[w] EXCEPT !.pc = pc, !.n = n, !.err = err]) BY <2>6 DEF Execute
    <3>2. QED BY <3>1, MovesCarried
  <2>7. CASE QuarantineUncertain(w) \/ QuarantineStuck(w) \/ QuarantineResult(w) \/ Finish(w)
    <3>1. (\E err : Become(w, Ended(work[w], err))) \/ \E pc : Become(w, [work[w] EXCEPT !.pc = pc])
      BY <2>7 DEF QuarantineUncertain, QuarantineStuck, QuarantineResult, Finish
    <3>2. QED BY <3>1, MovesCarried
  <2>8. QED BY <1>4, <2>1, <2>2, <2>3, <2>4, <2>5, <2>6, <2>7 DEF Progress
<1>5. ASSUME NEW w \in Workers, Disturbed(w) PROVE Goal
  <2>1. \/ Become(w, Idle) \/ Become(w, Ended(work[w], "plain")) \/ Become(w, Failing(work[w], "plain"))
        \/ (\E pc : Become(w, [work[w] EXCEPT !.pc = pc])) \/ \E pc, err : Become(w, [work[w] EXCEPT !.pc = pc, !.err = err])
    BY <1>5 DEF Disturbed, Crash, StatementFails, AfterFailure, ReplayPaused, ReplayRefused
  <2>2. QED BY <2>1, MovesCarried
<1>6. CASE \/ SwitchRule \/ DeleteRule \/ DeferEvent \/ LeaseExpires \/ RetryFallsDue \/ TaskLeaseExpires
           \/ (\E o \in Operators : OpRead(o) \/ OpApply(o)) \/ UNCHANGED vars
  <2>1. work' = work
    BY <1>6 DEF SwitchRule, DeleteRule, DeferEvent, LeaseExpires, RetryFallsDue, TaskLeaseExpires, OpRead, OpApply, vars
  <2>2. QED BY <1>1, <2>1
<1>7. QED BY <1>2, <1>4, <1>5, <1>6 DEF Next
\* Only AdvanceRunAction and QuarantineRunResultWithProof write another proof to the row.
RowCarried == row'.proof \in {row.proof, {}}

LEMMA RowFormsCarried ==
    ASSUME row \in Row
    PROVE  /\ InsertedRun.proof = {} /\ Reclaimed(row).proof = row.proof /\ StartedAction(row).proof = row.proof
           /\ AbortedAction(row).proof = row.proof /\ RenewedLease(row).proof = row.proof
           /\ Postponed(row).proof = row.proof
           /\ [row EXCEPT !.live = FALSE].proof = row.proof /\ [row EXCEPT !.due = TRUE].proof = row.proof
           /\ \A err : Quarantined(row, err).proof = row.proof
           /\ \A status, sent, err : Finished(row, status, sent, err).proof \in {row.proof, {}}
           /\ \A r \in {"continue", "retry", "cancel"} : Resolved(row, r).proof \in {row.proof, {}}
BY DEF InsertedRun, NoRow, Reclaimed, StartedAction, AbortedAction, RenewedLease, Postponed, Quarantined, Finished, Resolved, Row

LEMMA ResultForm ==
    ASSUME row \in Row, NEW sent, NEW proof
    PROVE  /\ QuarantinedResult(row, sent, proof).proof = IF proof = {} THEN row.proof ELSE proof
           /\ QuarantinedResult(row, sent, proof).status = "needs_review"
           /\ QuarantinedResult(row, sent, proof).cursor = row.cursor /\ QuarantinedResult(row, sent, proof).started = row.started
<1> DEFINE q == Quarantined(row, "plain")
<1>1. q.proof = row.proof /\ q.status = "needs_review" /\ q.cursor = row.cursor /\ q.started = row.started
  BY DEF Quarantined, Row
<1>2. {"proof", "status", "cursor", "started", "sent"} \subseteq DOMAIN q BY DEF Quarantined, Row
<1> HIDE DEF q
<1>3. QuarantinedResult(row, sent, proof) = [q EXCEPT !.sent = sent, !.proof = IF proof = {} THEN q.proof ELSE proof]
  BY <1>2 DEF QuarantinedResult, q
<1>4. QED BY <1>1, <1>2, <1>3

LEMMA RowCarries ==
    ASSUME TypeOK, [Next]_vars
    PROVE  RowCarried \/ (\E w \in Workers : Advance(w) \/ QuarantineUncertain(w))
<1>1. row \in Row BY DEF TypeOK
<1>2. ASSUME row' = row PROVE RowCarried BY <1>2 DEF RowCarried
<1>3. ASSUME row' = TryStarted(row) PROVE RowCarried BY <1>1, <1>3, RowFormsCarried DEF TryStarted, RowCarried
<1>4. ASSUME NEW w \in Workers, StartRun(w, "event") \/ StartRun(w, "manual") \/ RecoveryScan(w) \/ ClaimTask(w)
      PROVE  RowCarried
  BY <1>2, <1>3, <1>4 DEF StartRun, RecoveryScan, ClaimTask
<1>5. ASSUME NEW w \in Workers, Progress(w), ~Advance(w), ~QuarantineUncertain(w) PROVE RowCarried
  <2>1. CASE RecoveryCheck(w) \/ ReplayProceed(w) \/ SettleTask(w)
    BY <1>2, <1>3, <2>1 DEF RecoveryCheck, ReplayProceed, SettleTask
  <2>2. CASE RecoveryQuarantine(w) \/ QuarantineStuck(w)
    BY <1>1, <2>2, RowFormsCarried DEF RecoveryQuarantine, QuarantineStuck, RowCarried
  <2>3. CASE RecoveryPostpone(w) BY <1>1, <2>3, RowFormsCarried DEF RecoveryPostpone, RowCarried
  <2>4. CASE RecoveryClaim(w) BY <1>1, <2>4, RowFormsCarried DEF RecoveryClaim, RowCarried
  <2>5. CASE Load(w) \/ PlanDone(w) \/ CountReminder(w) \/ Execute(w)
    BY <1>2, <2>5 DEF Load, PlanDone, CountReminder, Execute, Rest
  <2>6. CASE DelayAction(w) \/ Defer(w) BY <1>1, <2>6, RowFormsCarried DEF DelayAction, Defer, RowCarried
  <2>7. CASE StartAction(w) \/ Abort(w) BY <1>1, <2>7, RowFormsCarried DEF StartAction, Abort, RowCarried
  <2>8. CASE QuarantineResult(w)
    <3>1. row' = row \/ row' = QuarantinedResult(row, work[w].sent, {}) BY <2>8 DEF QuarantineResult
    <3>2. QuarantinedResult(row, work[w].sent, {}).proof = row.proof BY <1>1, ResultForm
    <3>3. QED BY <3>1, <3>2 DEF RowCarried
  <2>9. CASE Finish(w) BY <1>1, <2>9, RowFormsCarried DEF Finish, RowCarried
  <2>10. QED BY <1>5, <2>1, <2>2, <2>3, <2>4, <2>5, <2>6, <2>7, <2>8, <2>9 DEF Progress
<1>6. ASSUME NEW w \in Workers, Disturbed(w) PROVE RowCarried
  BY <1>2, <1>6 DEF Disturbed, Crash, StatementFails, ReplayPaused, ReplayRefused
<1>7. ASSUME NEW o \in Operators, OpRead(o) \/ OpApply(o) PROVE RowCarried
  <2>1. op[o].resolution \in {"continue", "retry", "cancel"} BY DEF TypeOK
  <2>2. QED BY <1>1, <1>7, <2>1, RowFormsCarried DEF OpRead, OpApply, RowCarried
<1>8. CASE LeaseExpires \/ RetryFallsDue BY <1>1, <1>8, RowFormsCarried DEF LeaseExpires, RetryFallsDue, RowCarried
<1>9. CASE SwitchRule \/ DeleteRule \/ DeferEvent \/ TaskLeaseExpires \/ UNCHANGED vars
  BY <1>2, <1>9 DEF SwitchRule, DeleteRule, DeferEvent, TaskLeaseExpires, vars
<1>10. QED BY <1>4, <1>5, <1>6, <1>7, <1>8, <1>9 DEF Next

\* A step records nothing, or is a checkpoint that finds the row as it expects it, a call, or a decision.
LEMMA FencedSteps ==
    ASSUME CheckpointsBracketCalls, PromiseInv, [Next]_vars
    PROVE  \/ Tame
           \/ \E w \in Workers : \/ StartAction(w) /\ CanStartAction(row, work[w].attempt, work[w].cursor)
                                 \/ Execute(w)
                                 \/ Advance(w) /\ CanAdvance(row, work[w].attempt, work[w].cursor)
                                 \/ Abort(w) /\ CanAbortAction(row, work[w].attempt, work[w].cursor)
           \/ \E o \in Operators : OpApply(o) /\ CanResolve(row)
<1>1. TypeOK BY DEF CheckpointsBracketCalls
<1>2. ASSUME NEW w \in Workers, StartAction(w), ~CanStartAction(row, work[w].attempt, work[w].cursor) PROVE Tame
  <2>1. row' = row /\ Become(w, Failing(work[w], "plain")) BY <1>2 DEF StartAction
  <2>2. UNCHANGED <<pend, op, reminders, effects, passed, overridden, faults, decisions, Rule>> BY <1>2 DEF StartAction, Rest, History
  <2>3. QED BY <1>1, <2>1, <2>2, RefusedTame
<1>3. ASSUME NEW w \in Workers, Advance(w), ~CanAdvance(row, work[w].attempt, work[w].cursor) PROVE Tame
  <2>1. row' = row /\ Become(w, [work[w] EXCEPT !.pc = "stuck"]) BY <1>3 DEF Advance
  <2>2. UNCHANGED <<pend, op, reminders, effects, passed, overridden, faults, decisions, Rule>> BY <1>3 DEF Advance
  <2>3. QED BY <1>1, <2>1, <2>2, RefusedTame
<1>4. ASSUME NEW w \in Workers, Abort(w), ~CanAbortAction(row, work[w].attempt, work[w].cursor) PROVE Tame
  <2>1. row' = row /\ Become(w, [work[w] EXCEPT !.pc = "stuck"]) BY <1>4 DEF Abort
  <2>2. UNCHANGED <<pend, op, reminders, effects, passed, overridden, faults, decisions, Rule>> BY <1>4 DEF Abort, Rest, History
  <2>3. QED BY <1>1, <2>1, <2>2, RefusedTame
<1>5. ASSUME NEW o \in Operators, OpApply(o), ~CanResolve(row) PROVE Tame
  <2>1. UNCHANGED <<row, passed, overridden, work, effects>> BY <1>5 DEF OpApply
  <2>2. TypeOK' BY <1>5, OpApplyStep DEF CheckpointsBracketCalls
  <2>3. QED BY <2>1, <2>2 DEF Tame, Quiet, QuietRow, QuietWork
<1>6. QED BY <1>2, <1>3, <1>4, <1>5, TameSteps

LEMMA StartForm ==
    ASSUME TypeOK, NEW w \in Workers, StartAction(w), CanStartAction(row, work[w].attempt, work[w].cursor)
    PROVE  /\ row.cursor = work[w].cursor /\ row.status = "running" /\ ~row.started
           /\ row'.cursor = row.cursor /\ row'.status = "running" /\ row'.started
           /\ work'[w].pc = "exec" /\ work'[w].cursor = work[w].cursor /\ \A v \in Workers : v # w => work'[v] = work[v]
           /\ effects' = effects /\ passed' = passed /\ overridden' = overridden
<1> DEFINE t == [work[w] EXCEPT !.pc = "exec"]
<1>1. row \in Row /\ work[w] \in Worker BY DEF TypeOK
<1>2. row' = StartedAction(row) /\ Become(w, t) BY DEF StartAction
<1>3. row.cursor = work[w].cursor /\ row.status = "running" /\ ~row.started BY DEF CanStartAction, Owned
<1>4. row'.cursor = row.cursor /\ row'.status = row.status /\ row'.started BY <1>1, <1>2 DEF StartedAction, Row
<1>5. t.pc = "exec" /\ t.cursor = work[w].cursor BY <1>1 DEF Worker
<1> HIDE DEF t
<1>6. work'[w] = t /\ \A v \in Workers : v # w => work'[v] = work[v] BY <1>2 DEF TypeOK, Become
<1>7. QED BY <1>3, <1>4, <1>5, <1>6 DEF StartAction, Rest, History

LEMMA AbortForm ==
    ASSUME TypeOK, NEW w \in Workers, Abort(w), CanAbortAction(row, work[w].attempt, work[w].cursor)
    PROVE  /\ row.cursor = work[w].cursor /\ row.status = "running"
           /\ row'.cursor = row.cursor /\ row'.status = "running"
           /\ work'[w].pc \notin InAction /\ \A v \in Workers : v # w => work'[v] = work[v]
           /\ effects' = effects /\ passed' = passed /\ overridden' = overridden
<1> DEFINE t == Failing(work[w], work[w].err)
<1>1. row \in Row /\ work[w] \in Worker /\ work[w].err \in Errors BY DEF TypeOK, Worker
<1>2. row' = AbortedAction(row) /\ Become(w, t) BY DEF Abort
<1>3. row.cursor = work[w].cursor /\ row.status = "running" BY DEF CanAbortAction, Owned
<1>4. row'.cursor = row.cursor /\ row'.status = row.status BY <1>1, <1>2 DEF AbortedAction, Row
<1>5. t.pc \notin InAction BY <1>1, LeaveType
<1> HIDE DEF t
<1>6. work'[w] = t /\ \A v \in Workers : v # w => work'[v] = work[v] BY <1>2 DEF TypeOK, Become
<1>7. QED BY <1>3, <1>4, <1>5, <1>6 DEF Abort, Rest, History

-----------------------------------------------------------------------------
(* Whoever is inside an action is there alone. *)

Inside(w, c) == work[w].pc \in InAction /\ work[w].cursor = c

\* From StartRunAction to the checkpoint after the call, whatever its outcome, the action has one
\* worker, is marked as started as long as the run stands at it, and is not recorded or skipped.
InsideAlone ==
    \A c \in Steps \ overridden : \A w \in Workers : Inside(w, c) =>
        /\ \A v \in Workers : Inside(v, c) => v = w
        /\ row.cursor = c /\ row.status # "canceled" => row.started
        /\ passed[c] \in {"open", "unknown"}

LEMMA InsideKeeps ==
    ASSUME CheckpointsBracketCalls, PromiseInv, InsideAlone, [Next]_vars
    PROVE  InsideAlone'
<1>1. TypeOK /\ ActsInPlan /\ row \in Row /\ row.cursor \in Nat BY DEF CheckpointsBracketCalls, TypeOK, Row
<1>2. \A c \in Steps : c \in Nat BY DEF Steps
<1>3. \A w \in Workers : work[w].cursor <= row.cursor /\ work[w].cursor \in Nat BY <1>1 DEF PromiseInv, WorkersBehind, TypeOK, Worker
<1>4. CASE Tame
  <2>1. /\ row'.cursor = row.cursor /\ row'.started = row.started /\ (row.status = "canceled" => row'.status = "canceled")
        /\ overridden' = overridden /\ passed' = passed
        /\ \A w \in Workers : work'[w] = work[w] \/ work'[w].pc \notin InAction
    BY <1>4 DEF Tame, Quiet, QuietRow, QuietWork
  <2>2. \A w \in Workers, c \in Steps : Inside(w, c)' => Inside(w, c) BY <2>1 DEF Inside
  <2>3. QED BY <2>1, <2>2 DEF InsideAlone
<1>5. ASSUME NEW w \in Workers, StartAction(w), CanStartAction(row, work[w].attempt, work[w].cursor) PROVE InsideAlone'
  <2>1. /\ row.cursor = work[w].cursor /\ row.status = "running" /\ ~row.started
        /\ row'.cursor = row.cursor /\ row'.status = "running" /\ row'.started
        /\ work'[w].pc = "exec" /\ work'[w].cursor = work[w].cursor /\ \A v \in Workers : v # w => work'[v] = work[v]
        /\ passed' = passed /\ overridden' = overridden
    BY <1>1, <1>5, StartForm
  <2>2. \A c \in Steps : \A v \in Workers : Inside(v, c)' => Inside(v, c) \/ (v = w /\ c = row.cursor) BY <2>1 DEF Inside
  <2>3. \A c \in Steps \ overridden : c = row.cursor => \A v \in Workers : ~Inside(v, c) BY <2>1 DEF InsideAlone
  <2>4. \A c \in Steps : c = row.cursor => passed[c] = "open"
    BY <1>1 DEF PromiseInv, PassedBelow
  <2>5. QED BY <2>1, <2>2, <2>3, <2>4 DEF InsideAlone
<1>6. ASSUME NEW w \in Workers, Execute(w) PROVE InsideAlone'
  <2>1. PICK t \in Worker : t.cursor = work[w].cursor /\ Become(w, t) BY <1>1, <1>6, ExecuteForm
  <2>2. row' = row /\ passed' = passed /\ overridden' = overridden BY <1>6 DEF Execute
  <2>3. work'[w] = t /\ \A v \in Workers : v # w => work'[v] = work[v] BY <1>1, <2>1, OneMoves
  <2>4. work[w].pc \in InAction BY <1>6 DEF Execute, InAction
  <2>5. \A v \in Workers, c \in Steps : Inside(v, c)' => Inside(v, c) BY <2>1, <2>3, <2>4 DEF Inside
  <2>6. QED BY <2>2, <2>5 DEF InsideAlone
<1>7. ASSUME NEW w \in Workers, Advance(w), CanAdvance(row, work[w].attempt, work[w].cursor) PROVE InsideAlone'
  <2>1. /\ row.cursor = work[w].cursor /\ work[w].cursor \in Steps /\ row'.cursor = row.cursor + 1
        /\ passed' = [passed EXCEPT ![row.cursor] = "advanced"] /\ overridden' = overridden
        /\ work'[w].pc = "loop" /\ \A v \in Workers : v # w => work'[v] = work[v]
    BY <1>1, <1>7, AdvanceForm
  <2>2. \A v \in Workers, c \in Steps : Inside(v, c)' => Inside(v, c) /\ v # w BY <2>1 DEF Inside, InAction
  <2>3. Inside(w, row.cursor) BY <1>7, <2>1 DEF Inside, InAction, Advance
  <2>4. \A c \in Steps \ overridden : \A v \in Workers : Inside(v, c)' => c # row.cursor /\ c # row'.cursor
    <3> SUFFICES ASSUME NEW c \in Steps \ overridden, NEW v \in Workers, Inside(v, c)' PROVE c # row.cursor /\ c # row'.cursor OBVIOUS
    <3>1. Inside(v, c) /\ v # w BY <2>2
    <3>2. c # row.cursor BY <2>3, <3>1 DEF InsideAlone
    <3>3. c <= row.cursor BY <1>3, <3>1 DEF Inside
    <3>4. QED BY <1>1, <2>1, <3>2, <3>3
  <2>5. \A c \in Steps : c # row.cursor => passed'[c] = passed[c] BY <1>1, <2>1 DEF TypeOK
  <2>6. QED BY <2>1, <2>2, <2>4, <2>5 DEF InsideAlone
<1>8. ASSUME NEW w \in Workers, Abort(w), CanAbortAction(row, work[w].attempt, work[w].cursor) PROVE InsideAlone'
  <2>1. /\ row.cursor = work[w].cursor /\ row'.cursor = row.cursor
        /\ work'[w].pc \notin InAction /\ \A v \in Workers : v # w => work'[v] = work[v]
        /\ passed' = passed /\ overridden' = overridden
    BY <1>1, <1>8, AbortForm
  <2>2. \A v \in Workers, c \in Steps : Inside(v, c)' => Inside(v, c) /\ v # w BY <2>1 DEF Inside
  <2>3. Inside(w, row.cursor) BY <1>8, <2>1 DEF Inside, InAction, Abort
  <2>4. \A c \in Steps \ overridden : \A v \in Workers : Inside(v, c)' => c # row.cursor
    BY <2>2, <2>3 DEF InsideAlone
  <2>5. QED BY <2>1, <2>2, <2>4 DEF InsideAlone
<1>9. ASSUME NEW o \in Operators, OpApply(o), CanResolve(row) PROVE InsideAlone'
  <2> DEFINE c0 == row.cursor
  <2>1. /\ row.status = "needs_review" /\ work' = work
        /\ overridden' = overridden \/ (c0 \in Steps /\ overridden' = overridden \cup {c0})
        /\ \/ /\ row'.cursor = c0 + 1 /\ row'.status = "running"
              /\ IF c0 \in Steps
                 THEN passed' = [passed EXCEPT ![c0] = IF row.started THEN "unknown" ELSE "skipped"]
                 ELSE passed' = passed
           \/ /\ row'.cursor = c0 /\ row'.status = "running" /\ passed' = passed
              /\ row.started /\ c0 \in Steps => c0 \in overridden'
           \/ row'.cursor = c0 /\ row'.status = "canceled" /\ passed' = passed /\ overridden' = overridden
    BY <1>1, <1>9, OpApplyForm
  <2>2. SUFFICES ASSUME NEW c \in Steps \ overridden', NEW w \in Workers, Inside(w, c)'
                 PROVE  /\ \A v \in Workers : Inside(v, c)' => v = w
                        /\ row'.cursor = c /\ row'.status # "canceled" => row'.started
                        /\ passed'[c] \in {"open", "unknown"}
    BY DEF InsideAlone
  <2>3. c \in Steps \ overridden /\ Inside(w, c) /\ c \in Nat /\ c <= c0 BY <1>2, <1>3, <2>1, <2>2 DEF Inside
  <2>4. c = c0 => row.started BY <2>1, <2>3 DEF InsideAlone
  <2>5. \A v \in Workers : Inside(v, c)' => v = w BY <2>1, <2>3 DEF InsideAlone, Inside
  <2>6. row'.cursor = c => row'.status = "canceled"
    <3> SUFFICES ASSUME row'.cursor = c PROVE row'.status = "canceled" OBVIOUS
    <3>1. row'.cursor = c0 /\ c = c0 BY <1>1, <2>1, <2>3
    <3>2. row'.cursor # c0 + 1 BY <1>1, <3>1
    <3>3. QED BY <2>1, <2>2, <2>4, <3>1, <3>2
  <2>7. passed'[c] \in {"open", "unknown"}
    <3>1. passed[c] \in {"open", "unknown"} BY <2>3 DEF InsideAlone
    <3>2. passed \in [Steps -> {"open", "advanced", "skipped", "unknown"}] BY <1>1 DEF TypeOK
    <3>3. CASE passed' = passed BY <3>1, <3>3
    <3>4. CASE c0 \in Steps /\ passed' = [passed EXCEPT ![c0] = IF row.started THEN "unknown" ELSE "skipped"]
      <4>1. CASE c = c0 BY <2>4, <3>2, <3>4, <4>1
      <4>2. CASE c # c0 BY <3>1, <3>2, <3>4, <4>2
      <4>3. QED BY <4>1, <4>2
    <3>5. QED BY <2>1, <3>3, <3>4
  <2>8. QED BY <2>5, <2>6, <2>7
<1>10. QED BY <1>4, <1>5, <1>6, <1>7, <1>8, <1>9, FencedSteps

-----------------------------------------------------------------------------
(* Where the proof of delivery comes from. *)

\* A result an executor counts was performed.
CountedWasSent == \A w \in Workers : work[w].pc \in {"advance", "uncertain"} /\ work[w].n > 0 => effects[work[w].cursor] > 0

LEMMA CountedKeeps ==
    ASSUME CheckpointsBracketCalls, PromiseInv, CountedWasSent, [Next]_vars
    PROVE  CountedWasSent'
<1>1. TypeOK /\ ActsInPlan /\ effects \in [Steps -> Nat] BY DEF CheckpointsBracketCalls, TypeOK
<1>2. \A pc \in {"advance", "uncertain"} : pc \in InAction /\ pc # "exec" BY DEF InAction
<1>3. ASSUME \A w \in Workers : work'[w] = work[w] \/ work'[w].pc \notin {"advance", "uncertain"}, effects' = effects
      PROVE  CountedWasSent'
  BY <1>3 DEF CountedWasSent
<1>4. CASE Tame BY <1>2, <1>3, <1>4 DEF Tame, Quiet, QuietWork
<1>5. ASSUME NEW w \in Workers, StartAction(w), CanStartAction(row, work[w].attempt, work[w].cursor) PROVE CountedWasSent'
  <2>1. work'[w].pc = "exec" /\ effects' = effects /\ \A v \in Workers : v # w => work'[v] = work[v] BY <1>1, <1>5, StartForm
  <2>2. QED BY <1>3, <2>1
<1>6. ASSUME NEW w \in Workers, Execute(w) PROVE CountedWasSent'
  <2> DEFINE c0 == work[w].cursor
  <2>1. c0 \in Steps /\ work[w] \in Worker BY <1>1, <1>6 DEF TypeOK, ActsInPlan, Execute
  <2>2. PICK o \in Outcomes(c0) : /\ effects' = [effects EXCEPT ![c0] = effects[c0] + o.effect]
                                  /\ Become(w, [work[w] EXCEPT !.pc = o.to, !.n = o.n, !.err = o.err])
    BY <1>6 DEF Execute
  <2>3. o.effect \in {0, 1} /\ o.n \in {0, 1} BY <2>1, <2>2, OutcomesType
  <2>4. o.n = 1 => o.effect = 1 BY <2>2 DEF Outcomes
  <2> DEFINE t == [work[w] EXCEPT !.pc = o.to, !.n = o.n, !.err = o.err]
  <2>5. t.cursor = c0 /\ t.n = o.n BY <2>1 DEF Worker
  <2>6. Become(w, t) BY <2>2
  <2> HIDE DEF t
  <2>7. work'[w] = t /\ \A v \in Workers : v # w => work'[v] = work[v] BY <1>1, <2>6 DEF TypeOK, Become
  <2>8. \A c \in Steps : effects[c] <= effects'[c] BY <1>1, <2>1, <2>2, <2>3
  <2>9. SUFFICES ASSUME NEW v \in Workers, work'[v].pc \in {"advance", "uncertain"}, work'[v].n > 0
                 PROVE  effects'[work'[v].cursor] > 0
    BY DEF CountedWasSent
  <2>10. CASE v = w
    <3>1. o.effect = 1 BY <2>3, <2>4, <2>5, <2>7, <2>9, <2>10
    <3>2. effects'[c0] = effects[c0] + 1 /\ effects[c0] \in Nat BY <1>1, <2>1, <2>2, <3>1
    <3>3. effects'[c0] > 0 BY <3>2
    <3>4. QED BY <2>5, <2>7, <2>10, <3>3
  <2>11. CASE v # w
    <3>1. work'[v] = work[v] BY <2>7, <2>11
    <3>2. effects[work[v].cursor] > 0 BY <2>9, <3>1 DEF CountedWasSent
    <3>3. work[v].cursor \in Steps BY <1>1, <2>9, <3>1 DEF ActsInPlan
    <3>4. effects'[work[v].cursor] \in Nat /\ effects[work[v].cursor] \in Nat BY <1>1, <2>1, <2>2, <2>3, <3>3
    <3>5. QED BY <2>8, <3>1, <3>2, <3>3, <3>4
  <2>12. QED BY <2>10, <2>11
<1>7. ASSUME NEW w \in Workers, Advance(w), CanAdvance(row, work[w].attempt, work[w].cursor) PROVE CountedWasSent'
  <2>1. work'[w].pc = "loop" /\ effects' = effects /\ \A v \in Workers : v # w => work'[v] = work[v] BY <1>1, <1>7, AdvanceForm
  <2>2. QED BY <1>3, <2>1
<1>8. ASSUME NEW w \in Workers, Abort(w), CanAbortAction(row, work[w].attempt, work[w].cursor) PROVE CountedWasSent'
  <2>1. work'[w].pc \notin InAction /\ effects' = effects /\ \A v \in Workers : v # w => work'[v] = work[v] BY <1>1, <1>8, AbortForm
  <2>2. QED BY <1>2, <1>3, <2>1
<1>9. ASSUME NEW o \in Operators, OpApply(o), CanResolve(row) PROVE CountedWasSent'
  <2>1. work' = work /\ effects' = effects BY <1>1, <1>9, OpApplyForm
  <2>2. QED BY <1>3, <2>1
<1>10. QED BY <1>4, <1>5, <1>6, <1>7, <1>8, <1>9, FencedSteps

\* A step takes nothing back.
Grows == /\ row.cursor <= row'.cursor /\ overridden \subseteq overridden'
         /\ \A c \in Steps : effects[c] <= effects'[c] /\ (passed[c] = "advanced" => passed'[c] = "advanced")

LEMMA StepGrows == ASSUME CheckpointsBracketCalls, PromiseInv, [Next]_vars PROVE Grows
<1> USE DEF Grows
<1>1. /\ TypeOK /\ ActsInPlan /\ row.cursor \in Nat /\ effects \in [Steps -> Nat]
      /\ passed \in [Steps -> {"open", "advanced", "skipped", "unknown"}]
  BY DEF CheckpointsBracketCalls, TypeOK, Row
<1>2. row.cursor <= row.cursor /\ row.cursor <= row.cursor + 1 /\ \A c \in Steps : effects[c] <= effects[c] BY <1>1
<1>3. CASE Tame BY <1>2, <1>3 DEF Tame, Quiet, QuietRow
<1>4. ASSUME NEW w \in Workers, StartAction(w), CanStartAction(row, work[w].attempt, work[w].cursor) PROVE Grows
  <2>1. row'.cursor = row.cursor /\ effects' = effects /\ passed' = passed /\ overridden' = overridden BY <1>1, <1>4, StartForm
  <2>2. QED BY <1>2, <2>1
<1>5. ASSUME NEW w \in Workers, Execute(w) PROVE Grows
  <2>1. PICK o \in Outcomes(work[w].cursor) : /\ effects' = [effects EXCEPT ![work[w].cursor] = effects[work[w].cursor] + o.effect]
                                              /\ work[w].cursor \in Steps /\ o.effect \in {0, 1}
    BY <1>1, <1>5, ExecuteForm
  <2>2. row' = row /\ passed' = passed /\ overridden' = overridden BY <1>5 DEF Execute
  <2>3. \A c \in Steps : effects[c] <= effects'[c] BY <1>1, <2>1
  <2>4. QED BY <1>2, <2>2, <2>3
<1>6. ASSUME NEW w \in Workers, Advance(w), CanAdvance(row, work[w].attempt, work[w].cursor) PROVE Grows
  <2>1. /\ row'.cursor = row.cursor + 1 /\ effects' = effects /\ overridden' = overridden
        /\ passed' = [passed EXCEPT ![row.cursor] = "advanced"]
    BY <1>1, <1>6, AdvanceForm
  <2>2. \A c \in Steps : passed[c] = "advanced" => passed'[c] = "advanced" BY <1>1, <2>1
  <2>3. QED BY <1>2, <2>1, <2>2
<1>7. ASSUME NEW w \in Workers, Abort(w), CanAbortAction(row, work[w].attempt, work[w].cursor) PROVE Grows
  <2>1. row'.cursor = row.cursor /\ effects' = effects /\ passed' = passed /\ overridden' = overridden BY <1>1, <1>7, AbortForm
  <2>2. QED BY <1>2, <2>1
<1>8. ASSUME NEW o \in Operators, OpApply(o), CanResolve(row) PROVE Grows
  <2>1. /\ effects' = effects /\ row'.cursor \in {row.cursor, row.cursor + 1} /\ overridden \subseteq overridden'
        /\ passed' = passed \/ (row.cursor \in Steps /\ \E x : passed' = [passed EXCEPT ![row.cursor] = x])
    BY <1>1, <1>8, OpApplyForm
  <2>2. \A c \in Steps : c = row.cursor => passed[c] = "open" BY <1>1 DEF PromiseInv, PassedBelow
  <2>3. \A c \in Steps : c # row.cursor => passed'[c] = passed[c] BY <1>1, <2>1
  <2>4. QED BY <1>2, <2>1, <2>2, <2>3
<1>9. QED BY <1>3, <1>4, <1>5, <1>6, <1>7, <1>8, FencedSteps

\* A position a proof may name: recorded as sent, or overruled, or nothing relies on it.
Fine(d) == \/ d \in overridden
           \/ passed[d] = "advanced" /\ effects[d] > 0
           \/ \A c \in Steps : c > d => Plan[c] # "confirm_shipment"

\* The row's proof may name the action whose outcome is not known as long as the run is in review
\* for it (QuarantineRunResultWithProof).
RowProof == \A d \in row.proof : /\ Delivers(d) /\ d <= row.cursor
                                 /\ Fine(d) \/ (d = row.cursor /\ row.started /\ row.status = "needs_review")

\* A worker may read that proof, but the run does not go on with the action.
Halted(d) == d < row.cursor \/ row.status = "canceled" \/ (row.started /\ row.status = "needs_review")

WorkProof == \A w \in Workers : \A d \in work[w].proof :
                /\ Delivers(d) /\ d <= work[w].cursor
                /\ Fine(d) \/ (d = work[w].cursor /\ work[w].pc \notin InAction /\ Halted(d))

ProofInv == InsideAlone /\ CountedWasSent /\ RowProof /\ WorkProof

LEMMA FineStays == ASSUME CheckpointsBracketCalls, TypeOK', Grows, NEW d \in Steps, Fine(d) PROVE Fine(d)'
<1>1. effects \in [Steps -> Nat] /\ effects' \in [Steps -> Nat] BY DEF CheckpointsBracketCalls, TypeOK
<1>2. effects[d] \in Nat /\ effects'[d] \in Nat /\ effects[d] <= effects'[d] BY <1>1 DEF Grows
<1>3. effects[d] > 0 => effects'[d] > 0 BY <1>2
<1>4. QED BY <1>3 DEF Fine, Grows

\* What a decision on a run in review leaves of its action.
LEMMA DecisionForm ==
    ASSUME CheckpointsBracketCalls, NEW o \in Operators, OpApply(o), row' # row
    PROVE  /\ row.status = "needs_review"
           /\ \/ row'.cursor = row.cursor + 1
              \/ row'.cursor = row.cursor /\ row'.status = "canceled" /\ row'.proof = {}
              \/ row'.cursor = row.cursor /\ row'.status = "running"
           /\ \A d \in Steps : d = row.cursor /\ row.started /\ Delivers(d) /\ row'.status # "canceled" => Fine(d)'
<1>1. TypeOK /\ row \in Row BY DEF CheckpointsBracketCalls, TypeOK
<1>2. CanResolve(row) BY DEF OpApply
<1>3. /\ row.status = "needs_review"
      /\ \/ /\ row'.cursor = row.cursor + 1
            /\ row.started /\ row.cursor \in Steps => UnknownCanContinue(row.cursor) \/ row.cursor \in overridden'
         \/ /\ row'.cursor = row.cursor /\ row'.status = "running"
            /\ row.started /\ row.cursor \in Steps => row.cursor \in overridden'
         \/ row'.cursor = row.cursor /\ row'.status = "canceled"
  BY <1>1, <1>2, OpApplyForm
<1>4. row'.status = "canceled" => row'.proof = {}
  <2>1. op[o].resolution \in {"continue", "retry", "cancel"} /\ row' = Resolved(row, op[o].resolution) BY <1>1, <1>2 DEF TypeOK, OpApply
  <2>2. Resolved(row, "continue").status = "running" /\ Resolved(row, "retry").status = "running" /\ Resolved(row, "cancel").proof = {}
    BY <1>1 DEF Resolved, Row
  <2>3. QED BY <2>1, <2>2
<1>5. \A d \in Steps : UnknownCanContinue(d) /\ Delivers(d) => Fine(d)' BY DEF UnknownCanContinue, Fine
<1>6. \A d \in Steps : d \in overridden' => Fine(d)' BY DEF Fine
<1>7. QED BY <1>3, <1>4, <1>5, <1>6

LEMMA HaltedStays ==
    ASSUME CheckpointsBracketCalls, PromiseInv, [Next]_vars, Grows, NEW d \in Steps, d <= row.cursor, Delivers(d), Halted(d)
    PROVE  Halted(d)' \/ Fine(d)'
<1>1. row.cursor \in Nat /\ row'.cursor \in Nat /\ d \in Nat
  <2>1. CheckpointsBracketCalls' BY NextKeeps
  <2>2. QED BY <2>1 DEF CheckpointsBracketCalls, TypeOK, Row, Steps
<1>2. CASE d < row.cursor
  <2>1. d < row'.cursor BY <1>1, <1>2 DEF Grows
  <2>2. QED BY <2>1 DEF Halted
<1>3. CASE row' = row BY <1>3 DEF Halted
<1>4. CASE d = row.cursor /\ row' # row
  <2>1. row.status \in {"canceled", "needs_review"} BY <1>1, <1>4 DEF Halted
  <2>2. row.started /\ \E o \in Operators : OpApply(o) BY <1>1, <1>4, <2>1, StepLeavesOutcomes DEF Halted, vars
  <2>3. CASE row'.status = "canceled" BY <2>3 DEF Halted
  <2>4. CASE row'.status # "canceled" BY <1>4, <2>2, <2>4, DecisionForm
  <2>5. QED BY <2>3, <2>4
<1>5. QED BY <1>1, <1>2, <1>3, <1>4

\* The row keeps its proof, or forgets it.
LEMMA RowProofCarried ==
    ASSUME CheckpointsBracketCalls, PromiseInv, RowProof, [Next]_vars, Grows, RowCarried
    PROVE  RowProof'
<1>1. TypeOK' /\ row.proof \subseteq Steps /\ row.cursor \in Nat /\ row'.cursor \in Nat
  BY NextKeeps DEF CheckpointsBracketCalls, TypeOK, Row
<1>2. SUFFICES ASSUME NEW d \in row'.proof
               PROVE  /\ Delivers(d) /\ d <= row'.cursor
                      /\ Fine(d)' \/ (d = row'.cursor /\ row'.started /\ row'.status = "needs_review")
  BY DEF RowProof, Delivers
<1>3. d \in row.proof /\ d \in Steps /\ d \in Nat BY <1>1, <1>2 DEF RowCarried, Steps
<1>4. Delivers(d) /\ d <= row.cursor BY <1>3 DEF RowProof
<1>5. d <= row'.cursor BY <1>1, <1>3, <1>4 DEF Grows
<1>6. CASE Fine(d) BY <1>1, <1>3, <1>4, <1>5, <1>6, FineStays
<1>7. CASE d = row.cursor /\ row.started /\ row.status = "needs_review"
  <2>1. CASE row' = row BY <1>4, <1>5, <1>7, <2>1
  <2>2. CASE row' # row
    <3>1. PICK o \in Operators : OpApply(o) BY <1>7, <2>2, StepLeavesOutcomes DEF vars
    <3>2. row'.status # "canceled" => Fine(d)' BY <1>3, <1>4, <1>7, <2>2, <3>1, DecisionForm
    <3>3. row'.status # "canceled"
      <4>1. Resolved(row, "continue").status = "running" /\ Resolved(row, "retry").status = "running" /\ Resolved(row, "cancel").proof = {}
        BY DEF Resolved, CheckpointsBracketCalls, TypeOK, Row
      <4>2. op[o].resolution \in {"continue", "retry", "cancel"} /\ row' = Resolved(row, op[o].resolution)
        BY <2>2, <3>1 DEF CheckpointsBracketCalls, TypeOK, OpApply
      <4>3. QED BY <1>2, <4>1, <4>2
    <3>4. QED BY <1>4, <1>5, <3>2, <3>3
  <2>3. QED BY <2>1, <2>2
<1>8. QED BY <1>3, <1>6, <1>7 DEF RowProof

\* AdvanceRunAction stores the proof together with the cursor.
LEMMA AdvanceProof ==
    ASSUME TypeOK, ActsInPlan, NEW w \in Workers, Advance(w), CanAdvance(row, work[w].attempt, work[w].cursor)
    PROVE  /\ row'.proof \in {row.proof, NextProof(work[w])} /\ work'[w].proof = NextProof(work[w])
           /\ \A d \in NextProof(work[w]) : d \in work[w].proof \/ (d = work[w].cursor /\ Delivers(d) /\ work[w].n > 0)
<1> DEFINE s == work[w]
           keeps == Plan[s.cursor] # "confirm_shipment" /\ ~(Delivers(s.cursor) /\ s.n > 0)
           proof == IF keeps THEN row.proof ELSE NextProof(s)
           t == [s EXCEPT !.pc = "loop", !.cursor = s.cursor + 1, !.sent = s.sent + s.n,
                          !.proof = NextProof(s), !.n = 0, !.delayAt = 0]
<1>1. row \in Row /\ s \in Worker BY DEF TypeOK
<1>2. row' = Advanced(row, s.n, proof) /\ Become(w, t) BY DEF Advance
<1>3. proof \in {row.proof, NextProof(s)} OBVIOUS
<1>4. t.proof = NextProof(s) BY <1>1 DEF Worker
<1> HIDE DEF proof, t
<1>5. row'.proof = proof BY <1>1, <1>2 DEF Advanced, Row
<1>6. work'[w] = t BY <1>2 DEF TypeOK, Become
<1>7. \A d \in NextProof(s) : d \in s.proof \/ (d = s.cursor /\ Delivers(d) /\ s.n > 0) BY DEF NextProof
<1>8. QED BY <1>3, <1>4, <1>5, <1>6, <1>7

LEMMA AdvanceKeepsProof ==
    ASSUME CheckpointsBracketCalls, PromiseInv, ProofInv, [Next]_vars, Grows, NEW w \in Workers, Advance(w),
           CanAdvance(row, work[w].attempt, work[w].cursor)
    PROVE  RowProof' /\ WorkProof'
<1>1. TypeOK /\ ActsInPlan /\ TypeOK' BY NextKeeps DEF CheckpointsBracketCalls
<1>2. /\ work[w].cursor \in Steps /\ row.cursor = work[w].cursor /\ row.status = "running"
      /\ row'.cursor = row.cursor + 1 /\ passed' = [passed EXCEPT ![row.cursor] = "advanced"] /\ effects' = effects
      /\ work'[w].cursor = row.cursor + 1 /\ \A v \in Workers : v # w => work'[v] = work[v]
  BY <1>1, AdvanceForm
<1>3. /\ row'.proof \in {row.proof, NextProof(work[w])} /\ work'[w].proof = NextProof(work[w])
      /\ \A d \in NextProof(work[w]) : d \in work[w].proof \/ (d = work[w].cursor /\ Delivers(d) /\ work[w].n > 0)
  BY <1>1, AdvanceProof
<1>4. row.cursor \in Nat /\ row.cursor <= row.cursor + 1 BY <1>1 DEF TypeOK, Row
<1>5. \A d \in Steps : d \in Nat BY DEF Steps
<1>6. row.proof \subseteq Steps /\ \A v \in Workers : work[v].proof \subseteq Steps /\ work[v].cursor \in Nat
  BY <1>1 DEF TypeOK, Row, Worker
<1>7. \A d \in Steps : d <= row.cursor => d <= row'.cursor BY <1>2, <1>4, <1>5
<1>8. \A d \in Steps : Fine(d) => Fine(d)' BY <1>1, FineStays
<1>9. \A d \in NextProof(work[w]) : Delivers(d) /\ d <= row'.cursor /\ Fine(d)'
  <2> TAKE d \in NextProof(work[w])
  <2>1. CASE d \in work[w].proof
    <3>1. Delivers(d) /\ d <= work[w].cursor /\ Fine(d)
      BY <2>1 DEF ProofInv, WorkProof, Advance, InAction
    <3>2. QED BY <1>2, <1>6, <1>7, <1>8, <2>1, <3>1
  <2>2. CASE d = work[w].cursor /\ Delivers(d) /\ work[w].n > 0
    <3>1. effects[d] > 0 BY <2>2 DEF ProofInv, CountedWasSent, Advance
    <3>2. passed'[d] = "advanced" BY <1>1, <1>2, <2>2 DEF TypeOK
    <3>3. Fine(d)' BY <1>2, <3>1, <3>2 DEF Fine
    <3>4. QED BY <1>2, <1>4, <2>2, <3>3
  <2>3. QED BY <1>3, <2>1, <2>2
<1>10. RowProof'
  <2>1. \A d \in row.proof : Delivers(d) /\ d <= row'.cursor /\ Fine(d)'
    <3> TAKE d \in row.proof
    <3>1. d \in Steps /\ Delivers(d) /\ d <= row.cursor /\ Fine(d) BY <1>2, <1>6 DEF ProofInv, RowProof
    <3>2. QED BY <1>7, <1>8, <3>1
  <2>2. \A d \in row'.proof : Delivers(d) /\ d <= row'.cursor /\ Fine(d)' BY <1>3, <1>9, <2>1
  <2>3. QED BY <2>2 DEF RowProof, Delivers
<1>11. WorkProof'
  <2> SUFFICES ASSUME NEW v \in Workers, NEW d \in work'[v].proof
               PROVE  /\ Delivers(d) /\ d <= work'[v].cursor
                      /\ Fine(d)' \/ (d = work'[v].cursor /\ work'[v].pc \notin InAction /\ Halted(d)')
    BY DEF WorkProof, Delivers
  <2>1. CASE v = w BY <1>2, <1>3, <1>9, <2>1
  <2>2. CASE v # w
    <3>1. work'[v] = work[v] /\ d \in Steps BY <1>2, <1>6, <2>2
    <3>2. /\ Delivers(d) /\ d <= work[v].cursor
          /\ Fine(d) \/ (d = work[v].cursor /\ work[v].pc \notin InAction /\ Halted(d))
      BY <3>1 DEF ProofInv, WorkProof
    <3>3. d <= row.cursor
      <4>1. work[v].cursor <= row.cursor BY DEF PromiseInv, WorkersBehind
      <4>2. QED BY <1>4, <1>5, <1>6, <3>1, <3>2, <4>1
    <3>4. Halted(d) => Halted(d)' \/ Fine(d)' BY <3>1, <3>2, <3>3, HaltedStays
    <3>5. QED BY <1>8, <3>1, <3>2, <3>4
  <2>3. QED BY <2>1, <2>2
<1>12. QED BY <1>10, <1>11

\* The workers' copies stay what they were, or become what the row holds.
LEMMA WorkProofCarried ==
    ASSUME CheckpointsBracketCalls, PromiseInv, ProofInv, [Next]_vars, Grows, \A v \in Workers : Carried(v)
    PROVE  WorkProof'
<1>1. TypeOK /\ TypeOK' BY NextKeeps DEF CheckpointsBracketCalls
<1>2. row.cursor \in Nat /\ row.proof \subseteq Steps BY <1>1 DEF TypeOK, Row
<1>3. \A d \in Steps : d \in Nat BY DEF Steps
<1>4. \A d \in Steps : Fine(d) => Fine(d)' BY <1>1, FineStays
<1>5. SUFFICES ASSUME NEW v \in Workers, NEW d \in work'[v].proof
               PROVE  /\ Delivers(d) /\ d <= work'[v].cursor
                      /\ Fine(d)' \/ (d = work'[v].cursor /\ work'[v].pc \notin InAction /\ Halted(d)')
  BY DEF WorkProof, Delivers
<1>6. work[v] \in Worker /\ d \in Steps BY <1>1, <1>5 DEF TypeOK, Worker
<1>7. Halted(d) /\ d <= row.cursor /\ Delivers(d) => Halted(d)' \/ Fine(d)' BY <1>6, HaltedStays
<1>8. CASE work'[v].proof = work[v].proof /\ work'[v].cursor = work[v].cursor
  <2>1. /\ Delivers(d) /\ d <= work[v].cursor
        /\ Fine(d) \/ (d = work[v].cursor /\ work[v].pc \notin InAction /\ Halted(d))
    BY <1>5, <1>8 DEF ProofInv, WorkProof
  <2>2. d <= row.cursor
    <3>1. work[v].cursor <= row.cursor BY DEF PromiseInv, WorkersBehind
    <3>2. work[v].cursor \in Nat BY <1>6 DEF Worker
    <3>3. QED BY <1>2, <1>3, <1>6, <2>1, <3>1, <3>2
  <2>3. CASE Fine(d) BY <1>4, <1>6, <1>8, <2>1, <2>3
  <2>4. CASE d = work[v].cursor /\ work[v].pc \notin InAction /\ Halted(d)
    <3>1. CASE work'[v].pc \notin InAction BY <1>7, <1>8, <2>1, <2>2, <2>4, <3>1
    <3>2. CASE work'[v].pc \in InAction
      <4>1. ~Tame BY <2>4, <3>2 DEF Tame, Quiet, QuietWork
      <4>2. /\ \A u \in Workers : StartAction(u) /\ CanStartAction(row, work[u].attempt, work[u].cursor) /\ u # v => work'[v] = work[v]
            /\ \A u \in Workers : Execute(u) => u # v /\ (u # v => work'[v] = work[v])
            /\ \A u \in Workers : Advance(u) /\ CanAdvance(row, work[u].attempt, work[u].cursor) => u # v /\ (u # v => work'[v] = work[v])
            /\ \A u \in Workers : Abort(u) /\ CanAbortAction(row, work[u].attempt, work[u].cursor) => u # v /\ (u # v => work'[v] = work[v])
            /\ \A o \in Operators : OpApply(o) => work'[v] = work[v]
        <5>1. ASSUME NEW u \in Workers, StartAction(u), CanStartAction(row, work[u].attempt, work[u].cursor), u # v PROVE work'[v] = work[v]
          BY <1>1, <5>1, StartForm
        <5>2. ASSUME NEW u \in Workers, Execute(u) PROVE u # v /\ (u # v => work'[v] = work[v])
          <6>1. u # v BY <2>4, <5>2 DEF Execute, InAction
          <6>2. \E t : Become(u, t) BY <5>2 DEF Execute
          <6>3. QED BY <1>1, <6>1, <6>2 DEF TypeOK, Become
        <5>3. ASSUME NEW u \in Workers, Advance(u), CanAdvance(row, work[u].attempt, work[u].cursor)
              PROVE  u # v /\ (u # v => work'[v] = work[v])
          <6>1. u # v BY <2>4, <5>3 DEF Advance, InAction
          <6>2. ActsInPlan BY DEF CheckpointsBracketCalls
          <6>3. QED BY <1>1, <5>3, <6>1, <6>2, AdvanceForm
        <5>4. ASSUME NEW u \in Workers, Abort(u), CanAbortAction(row, work[u].attempt, work[u].cursor)
              PROVE  u # v /\ (u # v => work'[v] = work[v])
          <6>1. u # v BY <2>4, <5>4 DEF Abort, InAction
          <6>2. QED BY <1>1, <5>4, <6>1, AbortForm
        <5>5. ASSUME NEW o \in Operators, OpApply(o) PROVE work'[v] = work[v] BY <5>5 DEF OpApply
        <5>6. QED BY <5>1, <5>2, <5>3, <5>4, <5>5
      <4>3. work'[v] # work[v] BY <2>4, <3>2
      <4>4. StartAction(v) /\ CanStartAction(row, work[v].attempt, work[v].cursor) BY <4>1, <4>2, <4>3, FencedSteps
      <4>5. row.cursor = work[v].cursor /\ row.status = "running" BY <1>1, <4>4, StartForm
      <4>6. ~Halted(d) BY <1>3, <1>6, <2>4, <4>5 DEF Halted
      <4>7. QED BY <2>4, <4>6
    <3>3. QED BY <3>1, <3>2
  <2>5. QED BY <2>1, <2>3, <2>4
<1>9. CASE work'[v].proof = row.proof /\ work'[v].cursor = row.cursor /\ row' = row /\ work'[v].pc \notin InAction
  <2>1. /\ Delivers(d) /\ d <= row.cursor
        /\ Fine(d) \/ (d = row.cursor /\ row.started /\ row.status = "needs_review")
    BY <1>5, <1>9 DEF ProofInv, RowProof
  <2>2. CASE Fine(d) BY <1>4, <1>6, <1>9, <2>1, <2>2
  <2>3. CASE d = row.cursor /\ row.started /\ row.status = "needs_review"
    <3>1. Halted(d) BY <2>3 DEF Halted
    <3>2. QED BY <1>7, <1>9, <2>1, <2>3, <3>1
  <2>4. QED BY <2>1, <2>2, <2>3
<1>10. QED BY <1>5, <1>8, <1>9 DEF Carried

\* QuarantineRunResultWithProof: what is added is the action under way, for which the run now
\* waits in review; or the run went on without knowing, where nothing relies on it.
LEMMA UncertainKeepsProof ==
    ASSUME CheckpointsBracketCalls, PromiseInv, ProofInv, [Next]_vars, Grows, NEW w \in Workers, QuarantineUncertain(w), ~RowCarried
    PROVE  RowProof'
<1> DEFINE s == work[w]
           review == IF Plan[s.cursor] = "send_template" THEN {s.cursor} ELSE {}
           known  == IF Delivers(s.cursor) /\ s.n > 0 THEN {s.cursor} ELSE {}
           proof  == s.proof \cup known \cup review
<1>1. /\ TypeOK /\ TypeOK' /\ ActsInPlan /\ row \in Row /\ row.cursor \in Nat /\ s \in Worker
      /\ passed \in [Steps -> {"open", "advanced", "skipped", "unknown"}]
  BY NextKeeps DEF CheckpointsBracketCalls, TypeOK, Row
<1>2. s.pc = "uncertain" /\ s.cursor \in Steps /\ s.cursor \in Nat BY <1>1 DEF QuarantineUncertain, ActsInPlan, Steps
<1>3. row' = QuarantinedResult(row, s.sent + s.n, proof) /\ CanQuarantine(row, s.attempt)
  BY DEF QuarantineUncertain, RowCarried
<1>4. /\ row'.proof = IF proof = {} THEN row.proof ELSE proof
      /\ row'.status = "needs_review" /\ row'.cursor = row.cursor /\ row'.started = row.started
  BY <1>1, <1>3, ResultForm
<1>5. row'.proof = proof BY <1>4 DEF RowCarried
<1>6. overridden' = overridden /\ passed' = passed /\ effects' = effects BY DEF QuarantineUncertain, Rest, History
<1>7. s.cursor <= row.cursor BY DEF PromiseInv, WorkersBehind
<1>8. SUFFICES ASSUME NEW d \in proof
               PROVE  /\ Delivers(d) /\ d <= row'.cursor
                      /\ Fine(d) \/ (d = row'.cursor /\ row'.started /\ row'.status = "needs_review")
  BY <1>5, <1>6 DEF RowProof, Delivers, Fine
<1>9. CASE d \in s.proof
  <2>1. Delivers(d) /\ d <= s.cursor /\ Fine(d) BY <1>2, <1>9 DEF ProofInv, WorkProof, InAction
  <2>2. d \in Nat BY <1>1, <1>9 DEF Worker, Steps
  <2>3. QED BY <1>1, <1>2, <1>4, <1>7, <2>1, <2>2
<1>10. CASE d = s.cursor /\ Delivers(d)
  <2>1. CASE d \in overridden BY <1>4, <1>7, <1>10, <2>1 DEF Fine
  <2>2. CASE d \notin overridden
    <3>1. Inside(w, d) /\ d \in Steps \ overridden BY <1>2, <1>10, <2>2 DEF Inside, InAction
    <3>2. (row.cursor = d /\ row.status # "canceled" => row.started) /\ passed[d] \in {"open", "unknown"}
      BY <3>1 DEF ProofInv, InsideAlone
    <3>3. row.status # "canceled" BY <1>3 DEF CanQuarantine
    <3>4. CASE d = row.cursor BY <1>4, <1>7, <1>10, <3>2, <3>3, <3>4
    <3>5. CASE d # row.cursor
      <4>1. d < row.cursor BY <1>1, <1>2, <1>7, <1>10, <3>5
      <4>2. passed[d] # "open" BY <3>1, <4>1 DEF PromiseInv, PassedBelow
      <4>3. UnknownCanContinue(d) BY <2>2, <3>1, <3>2, <4>2 DEF PromiseInv, UnknownIsAllowed
      <4>4. Fine(d) BY <1>10, <4>3 DEF UnknownCanContinue, Fine
      <4>5. QED BY <1>4, <1>7, <1>10, <4>4
    <3>6. QED BY <3>4, <3>5
  <2>3. QED BY <2>1, <2>2
<1>11. d \in s.proof \/ (d = s.cursor /\ Delivers(d)) BY DEF Delivers
<1>12. QED BY <1>9, <1>10, <1>11

LEMMA ProofKeeps == CheckpointsBracketCalls /\ PromiseInv /\ ProofInv /\ [Next]_vars => ProofInv'
<1> SUFFICES ASSUME CheckpointsBracketCalls, PromiseInv, ProofInv, [Next]_vars PROVE ProofInv' OBVIOUS
<1>1. TypeOK /\ Grows BY StepGrows DEF CheckpointsBracketCalls
<1>2. InsideAlone' /\ CountedWasSent' BY InsideKeeps, CountedKeeps DEF ProofInv
<1>3. RowProof' /\ WorkProof'
  <2>1. CASE \E w \in Workers : Advance(w) /\ CanAdvance(row, work[w].attempt, work[w].cursor)
    BY <1>1, <2>1, AdvanceKeepsProof
  <2>2. CASE \E w \in Workers : Advance(w) /\ ~CanAdvance(row, work[w].attempt, work[w].cursor)
    <3>1. PICK w \in Workers : row' = row /\ Become(w, [work[w] EXCEPT !.pc = "stuck"]) BY <2>2 DEF Advance
    <3>2. \A v \in Workers : Carried(v) BY <1>1, <3>1, MovesCarried
    <3>3. RowCarried BY <3>1 DEF RowCarried
    <3>4. QED BY <1>1, <3>2, <3>3, RowProofCarried, WorkProofCarried DEF ProofInv
  <2>3. CASE ~\E w \in Workers : Advance(w)
    <3>1. \A v \in Workers : Carried(v) BY <1>1, <2>3, WorkCarries
    <3>2. WorkProof' BY <1>1, <3>1, WorkProofCarried
    <3>3. RowProof' BY <1>1, <2>3, RowCarries, RowProofCarried, UncertainKeepsProof DEF ProofInv
    <3>4. QED BY <3>2, <3>3
  <2>4. QED BY <2>1, <2>2, <2>3
<1>4. QED BY <1>2, <1>3 DEF ProofInv

LEMMA InitProof == Init => ProofInv
<1> SUFFICES ASSUME Init PROVE ProofInv OBVIOUS
<1>1. row.proof = {} /\ \A w \in Workers : work[w].pc = "idle" /\ work[w].proof = {} BY DEF Init, NoRow, Idle
<1>2. QED BY <1>1 DEF ProofInv, InsideAlone, Inside, InAction, CountedWasSent, RowProof, WorkProof

\* At every reachable state the proofs of the row and of the workers name only cards that went out
\* as recorded, positions an operator overruled, positions no later confirm_shipment relies on, and
\* the action the run waits for in review.
THEOREM ProofHolds == Spec => []ProofInv
BY InitProof, ProofKeeps, CheckpointsHold, PromiseHolds, PTL DEF Spec

\* What confirm_shipment tells the platform names nothing but earlier cards that went out as
\* recorded, or positions an operator overruled, for every plan and any number of workers.
THEOREM ProofIsWhatWasSentHolds == Spec => ProofIsWhatWasSent
<1> DEFINE Honest == \A w \in Workers : \A c \in Steps : Confirms(w, c) => work[w].proof \subseteq Delivered(c) \cup overridden
<1>1. ASSUME TypeOK, ProofInv PROVE Honest
  <2> SUFFICES ASSUME NEW w \in Workers, NEW c \in Steps, Confirms(w, c), NEW d \in work[w].proof, d \notin overridden
               PROVE  d \in Delivered(c)
    OBVIOUS
  <2>1. work[w].cursor = c /\ work[w].pc \in InAction /\ Plan[c] = "confirm_shipment" BY DEF Confirms, Execute, InAction
  <2>2. Delivers(d) /\ d <= c /\ Fine(d) BY <1>1, <2>1 DEF ProofInv, WorkProof
  <2>3. d \in Steps /\ d \in Nat /\ c \in Nat BY <1>1 DEF TypeOK, Worker, Steps
  <2>4. d # c BY <2>1, <2>2 DEF Delivers
  <2>5. c > d /\ d \in 1 .. c - 1 BY <2>2, <2>3, <2>4 DEF Steps
  <2>6. passed[d] = "advanced" /\ effects[d] > 0 BY <2>1, <2>2, <2>5 DEF Fine
  <2>7. QED BY <2>2, <2>5, <2>6 DEF Delivered
<1>2. TypeOK /\ ProofInv /\ [Next]_vars => [Honest]_vars BY <1>1
<1>3. QED BY <1>2, TypeCorrect, ProofHolds, PTL DEF Spec, ProofIsWhatWasSent

-----------------------------------------------------------------------------
(* The refinement. *)

Done    == {"success", "canceled"}
Outcome == IF row.status \in Done THEN row.status ELSE "open"

\* What keeps a run open: everything but the report at the end of the plan and a decision.
StaysOpen == row' = row \/ row'.status \notin Done

LEMMA RowStaysOpen ==
    ASSUME row \in Row
    PROVE  /\ InsertedRun.status = "running" /\ Reclaimed(row).status = "running" /\ StartedAction(row).status = row.status
           /\ AbortedAction(row).status = row.status /\ RenewedLease(row).status = row.status
           /\ Postponed(row).status = row.status
           /\ [row EXCEPT !.live = FALSE].status = row.status /\ [row EXCEPT !.due = TRUE].status = row.status
           /\ \A err : Quarantined(row, err).status = "needs_review"
           /\ \A n, proof : Advanced(row, n, proof).status = row.status
           /\ \A status, sent, err : Finished(row, status, sent, err).status = status
BY DEF InsertedRun, NoRow, Reclaimed, StartedAction, AbortedAction, RenewedLease, Postponed, Quarantined, Advanced, Finished, Row

LEMMA ReviewStaysOpen == ASSUME row \in Row, NEW sent \in Nat, NEW proof PROVE QuarantinedResult(row, sent, proof).status = "needs_review"
<1>1. DOMAIN Quarantined(row, "plain") = DOMAIN row BY DEF Quarantined
<1>2. Quarantined(row, "plain").status = "needs_review" /\ "status" \in DOMAIN row BY RowStaysOpen DEF Row
<1>3. QED BY <1>1, <1>2 DEF QuarantinedResult

\* Only Finish and OpApply may conclude.
LEMMA OpenSteps ==
    ASSUME TypeOK, Next
    PROVE  StaysOpen \/ (\E w \in Workers : Finish(w)) \/ (\E o \in Operators : OpApply(o))
<1> USE DEF StaysOpen, Done
<1>1. row \in Row BY DEF TypeOK
<1>2. ASSUME row' = TryStarted(row) PROVE row'.status = "running" BY <1>1, <1>2, RowStaysOpen DEF TryStarted
<1>3. ASSUME NEW w \in Workers, StartRun(w, "event") \/ StartRun(w, "manual") \/ RecoveryScan(w) \/ ClaimTask(w)
      PROVE  StaysOpen
  BY <1>2, <1>3 DEF StartRun, RecoveryScan, ClaimTask
<1>4. ASSUME NEW w \in Workers, Progress(w) PROVE StaysOpen \/ Finish(w)
  <2>1. CASE RecoveryCheck(w) \/ ReplayProceed(w) \/ SettleTask(w) BY <1>2, <2>1 DEF RecoveryCheck, ReplayProceed, SettleTask
  <2>2. CASE RecoveryQuarantine(w) \/ QuarantineStuck(w) BY <1>1, <2>2, RowStaysOpen DEF RecoveryQuarantine, QuarantineStuck
  <2>3. CASE RecoveryPostpone(w) BY <1>1, <2>3, RowStaysOpen DEF RecoveryPostpone, CanPostpone
  <2>4. CASE RecoveryClaim(w) BY <1>1, <2>4, RowStaysOpen DEF RecoveryClaim
  <2>5. CASE Load(w) \/ PlanDone(w) \/ CountReminder(w) \/ Execute(w) BY <2>5 DEF Load, PlanDone, CountReminder, Execute, Rest
  <2>6. CASE DelayAction(w) \/ Defer(w) BY <1>1, <2>6, RowStaysOpen DEF DelayAction, Defer, Owned
  <2>7. CASE StartAction(w) \/ Abort(w)
    BY <1>1, <2>7, RowStaysOpen DEF StartAction, Abort, CanStartAction, CanAbortAction, Owned
  <2>8. CASE Advance(w) BY <1>1, <2>8, RowStaysOpen DEF Advance, CanAdvance, Owned
  <2>9. CASE QuarantineUncertain(w) \/ QuarantineResult(w)
    <3>1. work[w].sent \in Nat /\ work[w].n \in Nat BY DEF TypeOK, Worker
    <3>2. \E sent \in Nat : \E proof : row' = row \/ row' = QuarantinedResult(row, sent, proof)
      BY <2>9, <3>1 DEF QuarantineUncertain, QuarantineResult
    <3>3. PICK sent \in Nat : \E proof : row' = row \/ row' = QuarantinedResult(row, sent, proof) BY <3>2
    <3>4. PICK proof : row' = row \/ row' = QuarantinedResult(row, sent, proof) BY <3>3
    <3>5. QED BY <1>1, <3>4, ReviewStaysOpen
  <2>10. QED BY <1>4, <2>1, <2>2, <2>3, <2>4, <2>5, <2>6, <2>7, <2>8, <2>9 DEF Progress
<1>5. ASSUME NEW w \in Workers, Disturbed(w) PROVE StaysOpen
  BY <1>5 DEF Disturbed, Crash, StatementFails, ReplayPaused, ReplayRefused
<1>6. CASE \E o \in Operators : OpRead(o) BY <1>6 DEF OpRead
<1>7. CASE LeaseExpires \/ RetryFallsDue BY <1>1, <1>7, RowStaysOpen DEF LeaseExpires, RetryFallsDue
<1>8. CASE SwitchRule \/ DeleteRule \/ DeferEvent \/ TaskLeaseExpires
  BY <1>8 DEF SwitchRule, DeleteRule, DeferEvent, TaskLeaseExpires
<1>9. QED BY <1>3, <1>4, <1>5, <1>6, <1>7, <1>8 DEF Next

LEMMA OutcomeKept == ASSUME [Next]_vars, StaysOpen, ~\E o \in Operators : OpApply(o) PROVE Outcome' = Outcome
BY StepLeavesOutcomes DEF StaysOpen, Outcome, Done, vars

\* The actions of the promise, in the names of this specification.
LEMMA PromiseDefs ==
    /\ \A c : Promise!Bound(c) <=> c \notin overridden \cup {d \in Steps : Plan[d] = "send_template"}
    /\ \A c : Promise!Reached(c) <=> \A d \in 1 .. c - 1 : passed[d] # "open"
BY DEF Promise!Bound, Promise!Reached

LEMMA Stutter == UNCHANGED <<effects, passed, overridden>> /\ Outcome' = Outcome => UNCHANGED Promise!pvars
BY DEF Promise!pvars, Outcome, Done

\* Performing an action performs it in the promise.
LEMMA ExecuteMaps ==
    ASSUME CheckpointsBracketCalls, PromiseInv, NEW w \in Workers, Execute(w)
    PROVE  [Promise!PNext]_Promise!pvars
<1> DEFINE c0 == work[w].cursor
<1>1. TypeOK /\ ActsInPlan BY DEF CheckpointsBracketCalls
<1>2. PICK o \in Outcomes(c0) : /\ c0 \in Steps /\ o.effect \in {0, 1}
                                /\ effects' = [effects EXCEPT ![c0] = effects[c0] + o.effect]
  BY <1>1, ExecuteForm
<1>3. row' = row /\ passed' = passed /\ overridden' = overridden /\ Outcome' = Outcome BY DEF Execute, Outcome
<1>4. CASE o.effect = 0
  <2>1. effects' = effects BY <1>1, <1>2, <1>4 DEF TypeOK
  <2>2. QED BY <1>3, <2>1, Stutter
<1>5. CASE o.effect = 1
  <2>1. Acting(w, c0) BY DEF Acting, Execute
  <2>2. c0 <= row.cursor /\ row.cursor \in Nat /\ c0 \in Nat
    BY <1>1, <1>2 DEF PromiseInv, WorkersBehind, TypeOK, Row, Worker
  <2>3. Promise!Reached(c0)
    <3> SUFFICES ASSUME NEW d \in 1 .. c0 - 1 PROVE passed[d] # "open" BY PromiseDefs
    <3>1. d \in Steps /\ d < row.cursor BY <1>2, <2>2, PlanAssumption DEF Steps
    <3>2. QED BY <3>1 DEF PromiseInv, PassedBelow
  <2>4. Promise!Bound(c0) => effects[c0] = 0 /\ passed[c0] \in {"open", "unknown"}
    <3> SUFFICES ASSUME Promise!Bound(c0) PROVE effects[c0] = 0 /\ passed[c0] \in {"open", "unknown"} OBVIOUS
    <3>1. c0 \in Protected BY <1>2, PromiseDefs DEF Protected
    <3>2. QED BY <2>1, <3>1 DEF CheckpointsBracketCalls, OneActor, PromiseInv, ActingIsOpen
  <2>5. Promise!Perform(c0) BY <1>2, <1>3, <1>5, <2>3, <2>4 DEF Promise!Perform, Outcome, Done
  <2>6. QED BY <1>2, <2>5 DEF Promise!PNext, Steps
<1>6. QED BY <1>2, <1>4, <1>5

\* Recording a success passes the action.
LEMMA AdvanceMaps ==
    ASSUME CheckpointsBracketCalls, PromiseInv, NEW w \in Workers, Advance(w)
    PROVE  [Promise!PNext]_Promise!pvars
<1> DEFINE c0 == row.cursor
<1>1. TypeOK /\ ActsInPlan /\ c0 \in Nat BY DEF CheckpointsBracketCalls, TypeOK, Row
<1>2. CASE ~CanAdvance(row, work[w].attempt, work[w].cursor)
  <2>1. UNCHANGED <<row, effects, passed, overridden>> BY <1>2 DEF Advance
  <2>2. QED BY <2>1, Stutter DEF Outcome
<1>3. CASE CanAdvance(row, work[w].attempt, work[w].cursor)
  <2>1. /\ c0 \in Steps /\ row.status = "running" /\ row'.status = "running"
        /\ passed' = [passed EXCEPT ![c0] = "advanced"] /\ effects' = effects /\ overridden' = overridden
    BY <1>1, <1>3, AdvanceForm
  <2>2. Promise!Reached(c0) /\ passed[c0] = "open"
    <3>1. passed[c0] = "open" BY <1>1, <2>1 DEF PromiseInv, PassedBelow
    <3>2. ASSUME NEW d \in 1 .. c0 - 1 PROVE passed[d] # "open"
      <4>1. d \in Steps /\ d < c0 BY <1>1, <2>1, PlanAssumption DEF Steps
      <4>2. QED BY <4>1 DEF PromiseInv, PassedBelow
    <3>3. QED BY <3>1, <3>2, PromiseDefs
  <2>3. Promise!Pass(c0, "advanced") BY <2>1, <2>2 DEF Promise!Pass
  <2>4. QED BY <2>1, <2>3 DEF Promise!PNext, Steps
<1>4. QED BY <1>2, <1>3

\* A decision passes the action, overrules the promise, or concludes.
LEMMA OpApplyMaps ==
    ASSUME CheckpointsBracketCalls, PromiseInv, NEW o \in Operators, OpApply(o)
    PROVE  [Promise!PNext]_Promise!pvars
<1> DEFINE c0 == row.cursor
<1>1. TypeOK /\ c0 \in Nat BY DEF CheckpointsBracketCalls, TypeOK, Row
<1>2. CASE ~CanResolve(row)
  <2>1. UNCHANGED <<row, effects, passed, overridden>> BY <1>2 DEF OpApply
  <2>2. QED BY <2>1, Stutter DEF Outcome
<1>3. CASE CanResolve(row)
  <2>1. /\ row.status = "needs_review" /\ effects' = effects
        /\ overridden' = overridden \/ (c0 \in Steps /\ overridden' = overridden \cup {c0})
        /\ \/ /\ row'.cursor = c0 + 1 /\ row'.status = "running"
              /\ IF c0 \in Steps
                 THEN passed' = [passed EXCEPT ![c0] = IF row.started THEN "unknown" ELSE "skipped"]
                 ELSE passed' = passed
              /\ row.started /\ c0 \in Steps => UnknownCanContinue(c0) \/ c0 \in overridden'
           \/ row'.status = "running" /\ passed' = passed
           \/ row'.status = "canceled" /\ passed' = passed /\ overridden' = overridden
    BY <1>1, <1>3, OpApplyForm
  <2>2. CASE passed' = passed /\ row'.status = "running"
    <3>1. CASE overridden' = overridden BY <2>1, <2>2, <3>1, Stutter DEF Outcome, Done
    <3>2. CASE c0 \in Steps /\ overridden' = overridden \cup {c0}
      <4>1. Promise!Overrule(c0) BY <2>1, <2>2, <3>2 DEF Promise!Overrule
      <4>2. QED BY <3>2, <4>1 DEF Promise!PNext, Steps
    <3>3. QED BY <2>1, <3>1, <3>2
  <2>3. CASE passed' = passed /\ row'.status = "canceled" /\ overridden' = overridden
    <3>1. Promise!Conclude("canceled") BY <2>1, <2>3 DEF Promise!Conclude
    <3>2. QED BY <3>1 DEF Promise!PNext
  <2>4. CASE /\ c0 \in Steps /\ row'.status = "running"
             /\ passed' = [passed EXCEPT ![c0] = IF row.started THEN "unknown" ELSE "skipped"]
             /\ row.started => UnknownCanContinue(c0) \/ c0 \in overridden'
    <3>1. Promise!Reached(c0) /\ passed[c0] = "open"
      <4>1. passed[c0] = "open" BY <1>1, <2>4 DEF PromiseInv, PassedBelow
      <4>2. ASSUME NEW d \in 1 .. c0 - 1 PROVE passed[d] # "open"
        <5>1. d \in Steps /\ d < c0 BY <1>1, <2>4, PlanAssumption DEF Steps
        <5>2. QED BY <5>1 DEF PromiseInv, PassedBelow
      <4>3. QED BY <4>1, <4>2, PromiseDefs
    <3>2. overridden' \in {overridden, overridden \cup {c0}} BY <2>1
    <3>3. CASE row.started
      <4>1. Promise!Pass(c0, "unknown") BY <2>1, <2>4, <3>1, <3>2, <3>3 DEF Promise!Pass
      <4>2. QED BY <2>4, <4>1 DEF Promise!PNext, Steps
    <3>4. CASE ~row.started
      <4>1. Promise!Bound(c0) => effects[c0] = 0
        <5> SUFFICES ASSUME Promise!Bound(c0) PROVE effects[c0] = 0 OBVIOUS
        <5>1. c0 \in Protected BY <2>4, PromiseDefs DEF Protected
        <5>2. QED BY <2>1, <3>4, <5>1 DEF CheckpointsBracketCalls, UnstartedIsUntouched, Untouched
      <4>2. Promise!Pass(c0, "skipped") BY <2>1, <2>4, <3>1, <3>2, <3>4, <4>1 DEF Promise!Pass
      <4>3. QED BY <2>4, <4>2 DEF Promise!PNext, Steps
    <3>5. QED BY <3>3, <3>4
  <2>5. QED BY <2>1, <2>2, <2>3, <2>4
<1>4. QED BY <1>2, <1>3

\* The report at the end of the plan concludes.
LEMMA FinishMaps ==
    ASSUME CheckpointsBracketCalls, PromiseInv, NEW w \in Workers, Finish(w)
    PROVE  [Promise!PNext]_Promise!pvars
<1> DEFINE s == work[w]
<1>1. TypeOK /\ row \in Row BY DEF CheckpointsBracketCalls, TypeOK
<1>2. UNCHANGED <<effects, passed, overridden>> BY DEF Finish, Rest, History
<1>3. CASE row' = row BY <1>2, <1>3, Stutter DEF Outcome
<1>4. CASE row' # row
  <2>1. row.status = "running" /\ row'.status = IF s.err = "none" THEN "success" ELSE "failed"
    BY <1>1, <1>4, RowStaysOpen DEF Finish, Owned
  <2>2. CASE s.err # "none"
    <3>1. Outcome' = Outcome BY <2>1, <2>2 DEF Outcome, Done
    <3>2. QED BY <1>2, <3>1, Stutter
  <2>3. CASE s.err = "none"
    <3>1. s.cursor > Len(Plan) BY <2>3 DEF PromiseInv, ReadyAtEnd, Ready, Finish
    <3>2. s.cursor <= row.cursor /\ s.cursor \in Nat /\ row.cursor \in Nat /\ Len(Plan) \in Nat
      BY <1>1, PlanAssumption DEF PromiseInv, WorkersBehind, TypeOK, Worker, Row
    <3>3. \A c \in 1 .. Len(Plan) : passed[c] # "open"
      BY <3>1, <3>2 DEF PromiseInv, PassedBelow, Steps
    <3>4. Promise!Conclude("success") BY <1>2, <2>1, <2>3, <3>3 DEF Promise!Conclude
    <3>5. QED BY <3>4 DEF Promise!PNext
  <2>4. QED BY <2>2, <2>3
<1>5. QED BY <1>3, <1>4

LEMMA StepMaps == CheckpointsBracketCalls /\ PromiseInv /\ [Next]_vars => [Promise!PNext]_Promise!pvars
<1> SUFFICES ASSUME CheckpointsBracketCalls, PromiseInv, [Next]_vars PROVE [Promise!PNext]_Promise!pvars OBVIOUS
<1>1. TypeOK BY DEF CheckpointsBracketCalls
<1>2. CASE \E o \in Operators : OpApply(o) BY <1>2, OpApplyMaps
<1>3. CASE \E w \in Workers : Finish(w) \/ Execute(w) \/ Advance(w) BY <1>3, FinishMaps, ExecuteMaps, AdvanceMaps
<1>4. CASE /\ ~\E o \in Operators : OpApply(o)
           /\ ~\E w \in Workers : Finish(w) \/ Execute(w) \/ Advance(w)
  <2>1. Tame \/ \E w \in Workers : StartAction(w) \/ Abort(w) BY <1>4, TameSteps
  <2>2. UNCHANGED <<effects, passed, overridden>>
    BY <2>1 DEF Tame, Quiet, StartAction, Abort, Rest, History
  <2>3. StaysOpen
    <3>1. CASE Next BY <1>1, <1>4, <3>1, OpenSteps
    <3>2. CASE UNCHANGED vars BY <3>2 DEF vars, StaysOpen
    <3>3. QED BY <3>1, <3>2
  <2>4. Outcome' = Outcome BY <1>4, <2>3, OutcomeKept
  <2>5. QED BY <2>2, <2>4, Stutter
<1>5. QED BY <1>2, <1>3, <1>4

LEMMA InitMaps == Init => Promise!PInit
BY DEF Init, NoRow, Promise!PInit, Steps

\* The run keeps the promise of DeliveryPromise: actions in plan order, each at most once, none
\* after it was knowingly skipped, success only through the whole plan, whatever crashes, lost
\* leases, failing statements, replays, retries and operators interleave.
THEOREM KeepsPromiseHolds == Spec => KeepsPromise
<1>1. CheckpointsBracketCalls /\ PromiseInv /\ [Next]_vars => [Promise!PNext]_Promise!pvars BY StepMaps
<1>2. QED BY <1>1, InitMaps, CheckpointsHold, PromiseHolds, PTL DEF Spec, KeepsPromise, Promise!Promise
-----------------------------------------------------------------------------
(* ReminderIsCounted: whoever is about to report a success has counted the *)
(* reminder, unless the run was started by hand, which reminders never are. *)

\* A worker that will not report a success next.
Unready(s) == s.kind # "manual" /\ ~(s.pc = "finish" /\ s.err = "none")

CountInv == CountsReview => /\ \A w \in Workers : Unready(work[w]) \/ (work[w].kind # "manual" /\ reminders > 0)
                            /\ row.status = "success" => reminders > 0

LEMMA UnreadyMove ==
    ASSUME TypeOK, NEW w \in Workers, NEW s, Become(w, s), Unready(s)
    PROVE  \A v \in Workers : work'[v] = work[v] \/ Unready(work'[v])
BY DEF TypeOK, Become

LEMMA IdleUnready == Unready(Idle) BY DEF Unready, Idle

LEMMA PointUnready ==
    ASSUME TypeOK, NEW w \in Workers, work[w].kind # "manual", NEW pc, NEW err, pc # "finish" \/ err # "none"
    PROVE  /\ Unready([work[w] EXCEPT !.pc = pc, !.err = err])
           /\ pc # "finish" => Unready([work[w] EXCEPT !.pc = pc])
<1>1. work[w] \in Worker BY DEF TypeOK
<1>2. /\ [work[w] EXCEPT !.pc = pc, !.err = err].kind = work[w].kind /\ [work[w] EXCEPT !.pc = pc].kind = work[w].kind
      /\ [work[w] EXCEPT !.pc = pc, !.err = err].pc = pc /\ [work[w] EXCEPT !.pc = pc].pc = pc
      /\ [work[w] EXCEPT !.pc = pc, !.err = err].err = err
  BY <1>1 DEF Worker
<1>3. QED BY <1>2 DEF Unready

LEMMA LeaveUnready ==
    ASSUME TypeOK, NEW w \in Workers, work[w].kind # "manual", NEW err
    PROVE  Unready(Ended(work[w], err)) /\ (err # "none" => Unready(Failing(work[w], err)))
<1>1. Unready(Ended(work[w], err)) BY IdleUnready, PointUnready DEF Ended
<1>2. ASSUME err # "none" PROVE Unready(Failing(work[w], err))
  <2> DEFINE pc == IF work[w].sent > 0 /\ err # "safe_retry" THEN "partial" ELSE "finish"
  <2>1. Failing(work[w], err) = [work[w] EXCEPT !.pc = pc, !.err = err] BY DEF Failing
  <2> HIDE DEF pc
  <2>2. Unready([work[w] EXCEPT !.pc = pc, !.err = err]) BY <1>2, PointUnready
  <2>3. QED BY <2>1, <2>2
<1>3. QED BY <1>1, <1>2

\* The usual moves.
LEMMA UnreadyMoves ==
    ASSUME TypeOK, NEW w \in Workers, work[w].kind # "manual", NEW pc, pc # "finish", NEW err, NEW e, e # "none",
           \/ Become(w, Idle) \/ Become(w, Ended(work[w], err)) \/ Become(w, Failing(work[w], e))
           \/ Become(w, [work[w] EXCEPT !.pc = pc]) \/ Become(w, [work[w] EXCEPT !.pc = pc, !.err = err])
    PROVE  \A v \in Workers : work'[v] = work[v] \/ Unready(work'[v])
<1>1. CASE Become(w, Idle) BY <1>1, IdleUnready, UnreadyMove
<1>2. CASE Become(w, Ended(work[w], err)) BY <1>2, LeaveUnready, UnreadyMove
<1>3. CASE Become(w, Failing(work[w], e)) BY <1>3, LeaveUnready, UnreadyMove
<1>4. CASE Become(w, [work[w] EXCEPT !.pc = pc]) BY <1>4, PointUnready, UnreadyMove
<1>5. CASE Become(w, [work[w] EXCEPT !.pc = pc, !.err = err]) BY <1>5, PointUnready, UnreadyMove
<1>6. QED BY <1>1, <1>2, <1>3, <1>4, <1>5

\* Every step of a worker but PlanDone and CountReminder.
LEMMA WorkersUnready ==
    ASSUME TypeOK, PromiseInv, CountInv, CountsReview, NEW w \in Workers,
           \/ StartRun(w, "event") \/ StartRun(w, "manual") \/ RecoveryScan(w) \/ ClaimTask(w)
           \/ Progress(w) \/ Disturbed(w), ~PlanDone(w), ~CountReminder(w)
    PROVE  reminders' = reminders /\ \A v \in Workers : work'[v] = work[v] \/ Unready(work'[v])
<1> DEFINE Goal == reminders' = reminders /\ \A v \in Workers : work'[v] = work[v] \/ Unready(work'[v])
<1>1. work[w] \in Worker BY DEF TypeOK
<1>2. work[w].kind # "manual" BY DEF CountInv, Unready
<1>3. CASE StartRun(w, "event") \/ StartRun(w, "manual") \/ RecoveryScan(w) \/ ClaimTask(w)
  <2>1. reminders' = reminders BY <1>3 DEF StartRun, RecoveryScan, ClaimTask, Rest, History
  <2>2. ~StartRun(w, "manual") BY DEF StartRun, PaidOrder
  <2>3. PICK s : Become(w, s) /\ s.kind \in {"event", "recovery", "replay"} /\ s.pc \in {"load", "recover", "replay"}
    <3>1. CASE StartRun(w, "event")
      <4>1. [Idle EXCEPT !.pc = "load", !.kind = "event"].kind = "event" /\ [Idle EXCEPT !.pc = "load", !.kind = "event"].pc = "load"
        BY DEF Idle
      <4>2. QED BY <3>1, <4>1 DEF StartRun
    <3>2. CASE RecoveryScan(w)
      <4> DEFINE s == [Idle EXCEPT !.pc = "recover", !.kind = "recovery", !.attempt = row.attempt, !.seen = row.started]
      <4>1. Become(w, s) BY <3>2 DEF RecoveryScan
      <4>2. s.kind = "recovery" /\ s.pc = "recover" BY DEF Idle
      <4> HIDE DEF s
      <4>3. QED BY <4>1, <4>2
    <3>3. CASE ClaimTask(w)
      <4> DEFINE s == [Idle EXCEPT !.pc = "replay", !.kind = "replay", !.task = pend.id, !.claim = pend.claims + 1,
                                   !.seen = pend.run, !.delayAt = pend.delayAt]
      <4>1. Become(w, s) BY <3>3 DEF ClaimTask
      <4>2. s.kind = "replay" /\ s.pc = "replay" BY DEF Idle
      <4> HIDE DEF s
      <4>3. QED BY <4>1, <4>2
    <3>4. QED BY <1>3, <2>2, <3>1, <3>2, <3>3
  <2>4. Unready(s) BY <2>3 DEF Unready
  <2>5. QED BY <2>1, <2>3, <2>4, UnreadyMove
<1>4. CASE Progress(w)
  <2>1. CASE RecoveryCheck(w) \/ RecoveryQuarantine(w) \/ RecoveryPostpone(w) \/ RecoveryClaim(w)
    <3>1. Become(w, Idle) \/ \E pc \in {"gone", "claim", "load"} : Become(w, [work[w] EXCEPT !.pc = pc])
      BY <2>1 DEF RecoveryCheck, RecoveryQuarantine, RecoveryPostpone, RecoveryClaim
    <3>2. reminders' = reminders BY <2>1 DEF RecoveryCheck, RecoveryQuarantine, RecoveryPostpone, RecoveryClaim, Rest, History
    <3>3. \A pc \in {"gone", "claim", "load"} : pc # "finish" OBVIOUS
    <3>4. QED BY <1>2, <3>1, <3>2, <3>3, UnreadyMoves
  <2>2. CASE ReplayProceed(w) \/ SettleTask(w)
    <3>1. Become(w, Idle) \/ \E pc \in {"settle", "load"} : \E err : Become(w, [work[w] EXCEPT !.pc = pc, !.err = err])
      BY <2>2 DEF ReplayProceed, SettleTask
    <3>2. reminders' = reminders BY <2>2 DEF ReplayProceed, SettleTask, Rest, History
    <3>3. \A pc \in {"settle", "load"} : pc # "finish" OBVIOUS
    <3>4. QED BY <1>2, <3>1, <3>2, <3>3, UnreadyMoves
  <2>3. CASE Load(w)
    <3> DEFINE s == [work[w] EXCEPT !.pc = "loop", !.attempt = row.attempt, !.cursor = row.cursor,
                                    !.sent = row.sent, !.proof = row.proof]
    <3>1. Become(w, Ended(work[w], "none")) \/ Become(w, s) BY <2>3 DEF Load
    <3>2. reminders' = reminders BY <2>3 DEF Load, Rest, History
    <3>3. s.kind = work[w].kind /\ s.pc = "loop" BY <1>1 DEF Worker
    <3> HIDE DEF s
    <3>4. Unready(s) BY <1>2, <3>3 DEF Unready
    <3>5. Unready(Ended(work[w], "none")) BY <1>2, LeaveUnready
    <3>6. QED BY <3>1, <3>2, <3>4, <3>5, UnreadyMove
  <2>4. CASE DelayAction(w) \/ Defer(w) \/ StartAction(w)
    <3>1. Become(w, Idle) \/ Become(w, Failing(work[w], "plain")) \/ \E pc \in {"defer", "exec"} : Become(w, [work[w] EXCEPT !.pc = pc])
      BY <2>4 DEF DelayAction, Defer, StartAction
    <3>2. reminders' = reminders BY <2>4 DEF DelayAction, Defer, StartAction, Rest, History
    <3>3. "plain" # "none" /\ \A pc \in {"defer", "exec"} : pc # "finish" OBVIOUS
    <3>4. QED BY <1>2, <3>1, <3>2, <3>3, UnreadyMoves
  <2>5. CASE Execute(w)
    <3>1. PICK o \in Outcomes(work[w].cursor) : Become(w, [work[w] EXCEPT !.pc = o.to, !.n = o.n, !.err = o.err])
      BY <2>5 DEF Execute
    <3>2. o.to \in {"advance", "abort", "uncertain"} BY DEF Outcomes
    <3> DEFINE s == [work[w] EXCEPT !.pc = o.to, !.n = o.n, !.err = o.err]
    <3>3. s.kind = work[w].kind /\ s.pc = o.to BY <1>1 DEF Worker
    <3>4. Become(w, s) BY <3>1
    <3> HIDE DEF s
    <3>5. Unready(s) BY <1>2, <3>2, <3>3 DEF Unready
    <3>6. reminders' = reminders BY <2>5 DEF Execute
    <3>7. QED BY <3>4, <3>5, <3>6, UnreadyMove
  <2>6. CASE Advance(w)
    <3> DEFINE s == [work[w] EXCEPT !.pc = "loop", !.cursor = @ + 1, !.sent = @ + work[w].n,
                                    !.proof = NextProof(work[w]), !.n = 0, !.delayAt = 0]
    <3>1. Become(w, s) \/ Become(w, [work[w] EXCEPT !.pc = "stuck"]) BY <2>6 DEF Advance
    <3>2. reminders' = reminders BY <2>6 DEF Advance
    <3>3. s.kind = work[w].kind /\ s.pc = "loop" BY <1>1 DEF Worker
    <3> HIDE DEF s
    <3>4. Unready(s) BY <1>2, <3>3 DEF Unready
    <3>5. Unready([work[w] EXCEPT !.pc = "stuck"]) BY <1>2, PointUnready
    <3>6. QED BY <3>1, <3>2, <3>4, <3>5, UnreadyMove
  <2>7. CASE Abort(w)
    <3>1. work[w].err # "none" BY <2>7 DEF Abort, PromiseInv, AbortHasReason
    <3>2. Become(w, Failing(work[w], work[w].err)) \/ Become(w, [work[w] EXCEPT !.pc = "stuck"]) BY <2>7 DEF Abort
    <3>3. reminders' = reminders BY <2>7 DEF Abort, Rest, History
    <3>4. QED BY <1>2, <3>1, <3>2, <3>3, UnreadyMoves
  <2>8. CASE QuarantineUncertain(w) \/ QuarantineStuck(w) \/ QuarantineResult(w) \/ Finish(w)
    <3>1. (\E err : Become(w, Ended(work[w], err))) \/ Become(w, [work[w] EXCEPT !.pc = "finishq"])
      BY <2>8 DEF QuarantineUncertain, QuarantineStuck, QuarantineResult, Finish
    <3>2. reminders' = reminders BY <2>8 DEF QuarantineUncertain, QuarantineStuck, QuarantineResult, Finish, Rest, History
    <3>3. "finishq" # "finish" /\ "plain" # "none" OBVIOUS
    <3>4. QED BY <1>2, <3>1, <3>2, <3>3, UnreadyMoves
  <2>9. QED BY <1>4, <2>1, <2>2, <2>3, <2>4, <2>5, <2>6, <2>7, <2>8 DEF Progress
<1>5. CASE Disturbed(w)
  <2>1. reminders' = reminders BY <1>5 DEF Disturbed, Crash, StatementFails, ReplayPaused, ReplayRefused, History
  <2>2. \/ Become(w, Idle) \/ Become(w, Ended(work[w], "plain")) \/ Become(w, Failing(work[w], "plain"))
        \/ \E pc \in {"stuck", "partial", "finishq"} : Become(w, [work[w] EXCEPT !.pc = pc])
        \/ \E err : Become(w, [work[w] EXCEPT !.pc = "settle", !.err = err])
    BY <1>5 DEF Disturbed, Crash, StatementFails, AfterFailure, ReplayPaused, ReplayRefused
  <2>3. "plain" # "none" /\ \A pc \in {"stuck", "partial", "finishq", "settle"} : pc # "finish" OBVIOUS
  <2>4. QED BY <1>2, <2>1, <2>2, <2>3, UnreadyMoves
<1>6. QED BY <1>3, <1>4, <1>5

LEMMA CountKeeps == TypeOK /\ PromiseInv /\ CountInv /\ [Next]_vars => CountInv'
<1> SUFFICES ASSUME TypeOK, PromiseInv, CountInv, [Next]_vars, CountsReview PROVE CountInv' BY DEF CountInv
<1>1. reminders \in Nat /\ row \in Row BY DEF TypeOK
<1>2. /\ \A w \in Workers : Unready(work[w]) \/ (work[w].kind # "manual" /\ reminders > 0)
      /\ row.status = "success" => reminders > 0
  BY DEF CountInv
<1>3. ASSUME reminders' = reminders, row'.status = "success" => reminders > 0,
             \A v \in Workers : work'[v] = work[v] \/ Unready(work'[v])
      PROVE  CountInv'
  BY <1>2, <1>3 DEF CountInv, Unready
<1>4. CASE UNCHANGED vars BY <1>2, <1>3, <1>4 DEF vars
<1>5. ASSUME NEW w \in Workers, PlanDone(w) PROVE CountInv'
  <2>1. work[w].kind # "manual" BY <1>2 DEF Unready
  <2>2. Become(w, [work[w] EXCEPT !.pc = "count", !.err = "none"]) BY <1>5, <2>1 DEF PlanDone
  <2>3. \A v \in Workers : work'[v] = work[v] \/ Unready(work'[v]) BY <2>1, <2>2, PointUnready, UnreadyMove
  <2>4. UNCHANGED <<row, reminders>> BY <1>5 DEF PlanDone, Rest, History
  <2>5. QED BY <1>2, <1>3, <2>3, <2>4
<1>6. ASSUME NEW w \in Workers, CountReminder(w) PROVE CountInv'
  <2>1. reminders' = reminders + 1 /\ row' = row BY <1>6 DEF CountReminder
  <2>2. \A v \in Workers : work'[v].kind = work[v].kind BY <1>6 DEF CountReminder, Become, TypeOK, Worker
  <2>3. reminders' > 0 BY <1>1, <2>1
  <2>4. QED BY <1>2, <2>1, <2>2, <2>3 DEF CountInv, Unready
<1>7. ASSUME NEW w \in Workers,
             \/ StartRun(w, "event") \/ StartRun(w, "manual") \/ RecoveryScan(w) \/ ClaimTask(w)
             \/ Progress(w) \/ Disturbed(w), ~PlanDone(w), ~CountReminder(w)
      PROVE  CountInv'
  <2>1. reminders' = reminders /\ \A v \in Workers : work'[v] = work[v] \/ Unready(work'[v]) BY <1>7, WorkersUnready
  <2>2. CASE StaysOpen
    <3>1. row'.status = "success" => reminders > 0 BY <1>2, <2>2 DEF StaysOpen, Done
    <3>2. QED BY <1>3, <2>1, <3>1
  <2>3. CASE \E o \in Operators : OpApply(o)
    <3>1. PICK o \in Operators : OpApply(o) BY <2>3
    <3>2. row'.status = "success" => row.status = "success"
      BY <1>1, <3>1 DEF OpApply, Resolved, CanResolve, Row, TypeOK
    <3>3. QED BY <1>2, <1>3, <2>1, <3>2
  <2>4. CASE \E v \in Workers : Finish(v)
    <3>1. PICK v \in Workers : Finish(v) BY <2>4
    <3>2. row' # row /\ row'.status = "success" => work[v].err = "none" BY <1>1, <3>1, RowStaysOpen DEF Finish
    <3>3. work[v].pc = "finish" BY <3>1 DEF Finish
    <3>4. row'.status = "success" => reminders > 0 BY <1>2, <3>2, <3>3 DEF Unready
    <3>5. QED BY <1>3, <2>1, <3>4
  <2>5. Next BY <1>7 DEF Next
  <2>6. QED BY <2>2, <2>3, <2>4, <2>5, OpenSteps
<1>8. CASE \E o \in Operators : OpRead(o) \/ OpApply(o)
  <2>1. UNCHANGED <<work, reminders>> BY <1>8 DEF OpRead, OpApply, History
  <2>2. PICK o \in Operators : OpRead(o) \/ OpApply(o) BY <1>8
  <2>3. row'.status = "success" => row.status = "success"
    BY <1>1, <2>2 DEF OpRead, OpApply, Resolved, CanResolve, Row, TypeOK
  <2>4. QED BY <1>2, <1>3, <2>1, <2>3
<1>9. CASE SwitchRule \/ DeleteRule \/ DeferEvent \/ LeaseExpires \/ RetryFallsDue \/ TaskLeaseExpires
  <2>1. UNCHANGED <<work, reminders>>
    BY <1>9 DEF SwitchRule, DeleteRule, DeferEvent, LeaseExpires, RetryFallsDue, TaskLeaseExpires, Rest, History
  <2>2. row'.status = row.status
    BY <1>1, <1>9, RowStaysOpen DEF SwitchRule, DeleteRule, DeferEvent, LeaseExpires, RetryFallsDue, TaskLeaseExpires
  <2>3. QED BY <1>2, <1>3, <2>1, <2>2
<1>10. QED BY <1>4, <1>5, <1>6, <1>7, <1>8, <1>9 DEF Next

\* Every reminder run that ended in success was counted on its order, though a crash, a failed statement or a
\* replay may come between the reminder, the count and the report.
THEOREM ReminderIsCountedHolds == Spec => []ReminderIsCounted
<1>1. Init => CountInv BY IdleUnready DEF Init, CountInv, NoRow
<1>2. CountInv => ReminderIsCounted BY DEF CountInv, ReminderIsCounted
<1>3. QED BY <1>1, <1>2, CountKeeps, TypeCorrect, PromiseHolds, PTL DEF Spec
=============================================================================
