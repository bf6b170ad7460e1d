--------------------------- MODULE AutomationRuns ---------------------------
(***************************************************************************)
(* One automation run (one rule, one trigger key) and everybody who        *)
(* touches it: workers that execute its plan (event handlers, the manual   *)
(* full delivery, the recovery scan, the replay of deferred tasks), the    *)
(* deferred task row of the same key, and operators who resolve runs that  *)
(* need review.  Sources: internal/automation/run_coordinator.go,          *)
(* scheduler.go, center.go; the SQL they use is in RunRow.                 *)
(*                                                                         *)
(* One action is one SQL statement, or one external call.  A worker keeps  *)
(* its snapshot of the run between statements, so every interleaving of    *)
(* statements of different workers is a behaviour.                         *)
(***************************************************************************)
EXTENDS RunRow, FiniteSets

CONSTANTS
    Workers,        \* goroutines that may execute the run at the same time
    Operators,      \* requests of the issue-resolution endpoint in flight
    Delayed,        \* plan positions with an effective delay
    CountsReview,   \* the trigger is review_missing_timeout: reminders are counted on the order
    MaxClaims,      \* a deferred task is dead-lettered at this attempt_count
    MaxFaults,      \* bound: crashes, failed statements, early lease expiries, account pauses
    MaxDecisions,   \* bound: decisions applied by operators
    MaxEdits        \* bound: changes of the rule

ASSUME DelayedAssumption == Delayed \subseteq Steps
ASSUME BoundsAssumption == /\ MaxFaults \in Nat /\ MaxDecisions \in Nat /\ MaxClaims \in Nat /\ MaxEdits \in Nat
                          /\ CountsReview \in BOOLEAN

VARIABLES
    row,        \* the automation_runs row
    rule,       \* the automation_rules row
    pend,       \* the automation_pending_tasks row with the run's task key
    work,       \* what each worker is doing, with its snapshot of the run
    op,         \* what each operator request has read
    reminders,  \* how often this run raised the order's review_request_count
    effects,    \* history: how often the external system performed each action
    passed,     \* history: how the cursor got past each action
    overridden, \* history: positions resolved against the policy for their actual state
    faults,     \* disturbances so far
    decisions,  \* operator decisions so far
    edits       \* changes of the rule so far

vars == <<row, rule, pend, work, op, reminders, effects, passed, overridden, faults, decisions, edits>>

-----------------------------------------------------------------------------
\* Workers.

Kinds == {"event", "manual", "recovery", "replay"}

\* Program points: each names the statement or call the worker executes next.
Points == {"idle", "recover", "gone", "claim", "replay", "load", "loop", "defer", "exec", "advance", "abort",
           "uncertain", "stuck", "count", "partial", "finish", "finishq", "settle"}

Worker == [pc : Points, kind : Kinds, attempt : Nat, cursor : Nat \ {0}, sent : Nat, proof : SUBSET Steps,
           n : {0, 1}, err : Errors, delayAt : Nat, task : Nat, claim : Nat, seen : BOOLEAN]

Idle == [pc |-> "idle", kind |-> "event", attempt |-> 0, cursor |-> 1, sent |-> 0, proof |-> {},
         n |-> 0, err |-> "none", delayAt |-> 0, task |-> 0, claim |-> 0, seen |-> FALSE]

Become(w, state) == work' = [work EXCEPT ![w] = state]

\* The end of executeRule for worker state s: a replay still settles its deferred task.
Ended(s, err) == IF s.kind = "replay" THEN [s EXCEPT !.pc = "settle", !.err = err] ELSE Idle

\* How an action error leaves executeRunActions: executeRule quarantines a run that already
\* delivered something unless the error is a definite non-execution; the manual path does not,
\* and drops the safe_retry classification.
Failing(s, err) ==
    IF s.kind = "manual"
    THEN [s EXCEPT !.pc = "finish", !.err = IF err = "safe_retry" THEN "plain" ELSE err]
    ELSE [s EXCEPT !.pc = IF s.sent > 0 /\ err # "safe_retry" THEN "partial" ELSE "finish", !.err = err]

Busy(w) == work[w].pc \notin {"idle", "recover", "gone", "claim", "replay", "settle"}

-----------------------------------------------------------------------------
\* The deferred task row.

PendStatuses == {"none", "pending", "running", "dead_letter"}
Pend == [id : Nat, status : PendStatuses, claims : Nat, live : BOOLEAN, run : BOOLEAN, delayAt : Nat]
NoPend == [id |-> 0, status |-> "none", claims |-> 0, live |-> FALSE, run |-> FALSE, delayAt |-> 0]

\* DeferTask upserts on task_key: whatever the row was, it is pending again with a fresh budget.
\* Only a row that had been deleted comes back under a new id.
DeferredTask(run, delayAt) ==
    [id |-> IF pend.status = "none" THEN pend.id + 1 ELSE pend.id,
     status |-> "pending", claims |-> 0, live |-> FALSE, run |-> run, delayAt |-> delayAt]

\* FinishDeferredTask is fenced by id, status and claim version.
HoldsTask(w) == pend.status = "running" /\ pend.id = work[w].task /\ pend.claims = work[w].claim

CanClaimTask == /\ pend.claims < MaxClaims
                /\ pend.status = "pending" \/ (pend.status = "running" /\ ~pend.live)

\* A replay of the run's own delayed action is on its way.
ReplayExpected == pend.run /\ (CanClaimTask \/ (pend.status = "running" /\ pend.live))

-----------------------------------------------------------------------------
Init == /\ row = NoRow
        /\ pend = NoPend
        /\ work = [w \in Workers |-> Idle]
        /\ op = [o \in Operators |-> [pc |-> "idle", resolution |-> "cancel"]]
        /\ reminders = 0
        /\ effects = [c \in Steps |-> 0]
        /\ passed = [c \in Steps |-> "open"]
        /\ overridden = {}
        /\ rule = "enabled"
        /\ faults = 0 /\ decisions = 0 /\ edits = 0

History == <<reminders, effects, passed, overridden>>
Rule    == <<rule, edits>>
Rest    == <<op, Rule, History, faults, decisions>>

-----------------------------------------------------------------------------
\* Entry points.

\* What actionPlanner leaves in the plan of trigger order_paid, the only one delivered manually.
PaidOrder == ~CountsReview /\ \A c \in Steps : Plan[c] \in {"send_card", "confirm_shipment"}

\* HandleTask for a fresh event, the review scan, or ManualFullDelivery: TryStartRun.
StartRun(w, kind) ==
    /\ work[w].pc = "idle"
    /\ kind = "manual" => PaidOrder
    /\ rule = "enabled"
    /\ CanTryStart(row)
    /\ row' = TryStarted(row)
    /\ Become(w, [Idle EXCEPT !.pc = "load", !.kind = kind])
    /\ UNCHANGED <<pend, Rest>>

\* An event that finds the account paused (or cannot be prepared) is stored under its task key;
\* it carries no run id, and replaces a delayed task of the same key.
DeferEvent ==
    /\ faults < MaxFaults
    /\ pend' = DeferredTask(FALSE, 0)
    /\ faults' = faults + 1
    /\ UNCHANGED <<row, work, op, History, decisions, Rule>>

\* DueRecoveryRuns: the scan reads the row; it is acted upon later.
RecoveryScan(w) ==
    /\ work[w].pc = "idle"
    /\ DueForRecovery(row)
    /\ Become(w, [Idle EXCEPT !.pc = "recover", !.kind = "recovery",
                              !.attempt = row.attempt, !.seen = row.started])
    /\ UNCHANGED <<row, pend, Rest>>

\* The account is paused or offline.
RecoveryPostpone(w) ==
    /\ work[w].pc \in {"recover", "claim"} /\ ~work[w].seen
    /\ row' = IF CanPostpone(row, work[w].attempt) THEN Postponed(row) ELSE row
    /\ Become(w, Idle)
    /\ UNCHANGED <<pend, Rest>>

\* A run that died inside an action goes to review; otherwise the rule is read.
RecoveryCheck(w) ==
    /\ work[w].pc = "recover"
    /\ Become(w, [work[w] EXCEPT !.pc = IF work[w].seen \/ rule # "enabled" THEN "gone" ELSE "claim"])
    /\ UNCHANGED <<row, pend, Rest>>

RecoveryQuarantine(w) ==
    /\ work[w].pc = "gone"
    /\ row' = IF CanQuarantine(row, work[w].attempt)
              THEN Quarantined(row, IF work[w].seen THEN "plain" ELSE "rule_gone") ELSE row
    /\ Become(w, Idle)
    /\ UNCHANGED <<pend, Rest>>

RecoveryClaim(w) ==
    /\ work[w].pc = "claim"
    /\ IF CanReclaim(row)
       THEN row' = Reclaimed(row) /\ Become(w, [work[w] EXCEPT !.pc = "load"])
       ELSE row' = row /\ Become(w, Idle)
    /\ UNCHANGED <<pend, Rest>>

\* ClaimDueDeferredTasks: pending and due, or running with an expired lease.
ClaimTask(w) ==
    /\ work[w].pc = "idle"
    /\ CanClaimTask
    /\ pend' = [pend EXCEPT !.status = "running", !.claims = @ + 1, !.live = TRUE]
    /\ Become(w, [Idle EXCEPT !.pc = "replay", !.kind = "replay", !.task = pend.id,
                              !.claim = pend.claims + 1, !.seen = pend.run, !.delayAt = pend.delayAt])
    /\ UNCHANGED <<row, Rest>>

\* The replayed task finds its account paused again and is deferred anew.
ReplayPaused(w) ==
    /\ work[w].pc = "replay"
    /\ faults < MaxFaults
    /\ pend' = DeferredTask(work[w].seen, work[w].delayAt)
    /\ Become(w, Idle)
    /\ faults' = faults + 1
    /\ UNCHANGED <<row, op, History, decisions, Rule>>

\* The account is disabled (the task is dropped), or preparing the task fails (it is retried).
ReplayRefused(w) ==
    /\ work[w].pc = "replay"
    /\ faults < MaxFaults
    /\ \E err \in {"none", "plain"} : Become(w, [work[w] EXCEPT !.pc = "settle", !.err = err])
    /\ faults' = faults + 1
    /\ UNCHANGED <<row, pend, op, History, decisions, Rule>>

\* With a run id the matcher demands a running run and an existing rule, and the worker joins the
\* run without claiming it; without one the task starts or reclaims the run like a fresh event.
ReplayProceed(w) ==
    /\ work[w].pc = "replay"
    /\ LET joins  == work[w].seen /\ row.status = "running" /\ rule # "deleted"
           starts == ~work[w].seen /\ rule = "enabled" /\ CanTryStart(row)
           err    == IF work[w].seen /\ row.status = "running" /\ rule = "deleted" THEN "plain" ELSE "none"
       IN  /\ row' = IF starts THEN TryStarted(row) ELSE row
           /\ Become(w, [work[w] EXCEPT !.pc = IF joins \/ starts THEN "load" ELSE "settle", !.err = err])
    /\ UNCHANGED <<pend, Rest>>

-----------------------------------------------------------------------------
\* executeRule and executeRunActions.

\* GetRun.  Whoever names the run by id goes on only while it is running.
Load(w) ==
    /\ work[w].pc = "load"
    /\ LET byId == work[w].kind = "recovery" \/ (work[w].kind = "replay" /\ work[w].seen)
       IN  Become(w, IF byId /\ row.status # "running"
                     THEN Ended(work[w], "none")
                     ELSE [work[w] EXCEPT !.pc = "loop", !.attempt = row.attempt, !.cursor = row.cursor,
                                          !.sent = row.sent, !.proof = row.proof])
    /\ UNCHANGED <<row, pend, Rest>>

\* Wrong: takes the last action for the end of the plan.
AtEndEarly(w) == work[w].cursor >= Len(Plan)

AtEnd(w)      == work[w].cursor > Len(Plan)
MustDelay(w)  == /\ work[w].kind # "manual"
                 /\ work[w].cursor \in Delayed
                 /\ work[w].delayAt # work[w].cursor

PlanDone(w) ==
    /\ work[w].pc = "loop" /\ AtEnd(w)
    /\ LET counts == CountsReview /\ work[w].kind # "manual"
       IN  Become(w, [work[w] EXCEPT !.pc = IF counts THEN "count" ELSE "finish", !.err = "none"])
    /\ UNCHANGED <<row, pend, Rest>>

\* IncrementReviewRequest once the reminder is out.
CountReminder(w) ==
    /\ work[w].pc = "count"
    /\ reminders' = reminders + 1
    /\ Become(w, [work[w] EXCEPT !.pc = "finish"])
    /\ UNCHANGED <<row, pend, op, effects, passed, overridden, faults, decisions, Rule>>

\* RenewRunLease to five minutes past the due time, then DeferTask.
DelayAction(w) ==
    /\ work[w].pc = "loop" /\ ~AtEnd(w) /\ MustDelay(w)
    /\ IF Owned(row, work[w].attempt)
       THEN row' = RenewedLease(row) /\ Become(w, [work[w] EXCEPT !.pc = "defer"])
       ELSE row' = row /\ Become(w, Failing(work[w], "plain"))
    /\ UNCHANGED <<pend, Rest>>

Defer(w) ==
    /\ work[w].pc = "defer"
    /\ pend' = DeferredTask(TRUE, work[w].cursor)
    /\ Become(w, Idle)
    /\ UNCHANGED <<row, Rest>>

StartAction(w) ==
    /\ work[w].pc = "loop" /\ ~AtEnd(w) /\ ~MustDelay(w)
    /\ IF CanStartAction(row, work[w].attempt, work[w].cursor)
       THEN row' = StartedAction(row) /\ Become(w, [work[w] EXCEPT !.pc = "exec"])
       ELSE row' = row /\ Become(w, Failing(work[w], "plain"))
    /\ UNCHANGED <<pend, Rest>>

\* Outcomes of executeActionNow: whether the external system acted, what the executor reports.
\*   n   results it counts (confirm_shipment counts none)
\*   to  "advance" success, "abort" definitely not performed, "uncertain" anything else
Outcomes(c) ==
    LET acts(a) == Plan[c] \in a
        counted == IF acts({"confirm_shipment"}) THEN 0 ELSE 1
    IN  {[effect |-> 1, n |-> counted, to |-> "advance", err |-> "none"]}
        \cup (IF acts({"adjust_price"}) THEN {}
              ELSE {[effect |-> 0, n |-> 0, to |-> "advance", err |-> "none"]})
        \cup [effect : {0}, n : {0}, to : {"abort"}, err : {"plain", "safe_retry"}]
        \cup (IF acts({"send_card", "send_template"})
              THEN {[effect |-> 0, n |-> 0, to |-> "abort", err |-> "no_retry"],
                    [effect |-> 1, n |-> 1, to |-> "uncertain", err |-> "plain"]} ELSE {})
        \cup [effect : {0, 1}, n : {0}, to : {"uncertain"}, err : {"plain"}]
        \* sendTemplate forgets messages already sent when a later one cannot be loaded
        \cup (IF acts({"send_template"})
              THEN [effect : {1}, n : {0}, to : {"abort"}, err : {"plain", "no_retry"}] ELSE {})

Execute(w) ==
    /\ work[w].pc = "exec"
    /\ \E o \in Outcomes(work[w].cursor) :
          /\ effects' = [effects EXCEPT ![work[w].cursor] = @ + o.effect]
          /\ Become(w, [work[w] EXCEPT !.pc = o.to, !.n = o.n, !.err = o.err])
    /\ UNCHANGED <<row, pend, op, reminders, passed, overridden, faults, decisions, Rule>>

\* Wrong: a card that sent nothing leaves proof.
ProofOfNothing(s) == IF Plan[s.cursor] = "confirm_shipment" THEN {} ELSE s.proof \cup {s.cursor}

\* Proof after the current action counted n results: cards add theirs, confirm_shipment clears it.
NextProof(s) == IF Plan[s.cursor] = "confirm_shipment" THEN {}
                ELSE IF Delivers(s.cursor) /\ s.n > 0 THEN s.proof \cup {s.cursor} ELSE s.proof

\* AdvanceRunAction writes a proof only when there is a new one or one to clear.
Advance(w) ==
    /\ work[w].pc = "advance"
    /\ LET s == work[w]
           keeps == Plan[s.cursor] # "confirm_shipment" /\ ~(Delivers(s.cursor) /\ s.n > 0)
           proof == IF keeps THEN row.proof ELSE NextProof(s)
       IN  IF CanAdvance(row, s.attempt, s.cursor)
           THEN /\ row' = Advanced(row, s.n, proof)
                /\ passed' = [passed EXCEPT ![s.cursor] = "advanced"]
                /\ Become(w, [s EXCEPT !.pc = "loop", !.cursor = @ + 1, !.sent = @ + s.n,
                                       !.proof = NextProof(s), !.n = 0, !.delayAt = 0])
           ELSE /\ UNCHANGED <<row, passed>>
                /\ Become(w, [s EXCEPT !.pc = "stuck"])
    /\ UNCHANGED <<pend, op, reminders, effects, overridden, faults, decisions, Rule>>

Abort(w) ==
    /\ work[w].pc = "abort"
    /\ IF CanAbortAction(row, work[w].attempt, work[w].cursor)
       THEN row' = AbortedAction(row) /\ Become(w, Failing(work[w], work[w].err))
       ELSE row' = row /\ Become(w, [work[w] EXCEPT !.pc = "stuck"])
    /\ UNCHANGED <<pend, Rest>>

\* QuarantineRunResultWithProof: an uncertain template action also records what it may have sent.
QuarantineUncertain(w) ==
    /\ work[w].pc = "uncertain"
    /\ LET s == work[w]
           review == IF Plan[s.cursor] = "send_template" THEN {s.cursor} ELSE {}
           known  == IF Delivers(s.cursor) /\ s.n > 0 THEN {s.cursor} ELSE {}
       IN  row' = IF CanQuarantine(row, s.attempt)
                  THEN QuarantinedResult(row, s.sent + s.n, s.proof \cup known \cup review)
                  ELSE row
    /\ Become(w, Ended(work[w], "plain"))
    /\ UNCHANGED <<pend, Rest>>

\* QuarantineRun after a checkpoint that could not be saved.
QuarantineStuck(w) ==
    /\ work[w].pc = "stuck"
    /\ row' = IF CanQuarantine(row, work[w].attempt) THEN Quarantined(row, "plain") ELSE row
    /\ Become(w, Ended(work[w], "plain"))
    /\ UNCHANGED <<pend, Rest>>

\* QuarantineRunResult: part of the plan was delivered, or the outcome could not be saved.
QuarantineResult(w) ==
    /\ work[w].pc \in {"partial", "finishq"}
    /\ row' = IF CanQuarantine(row, work[w].attempt)
              THEN QuarantinedResult(row, work[w].sent, {}) ELSE row
    /\ Become(w, Ended(work[w], "plain"))
    /\ UNCHANGED <<pend, Rest>>

Finish(w) ==
    /\ work[w].pc = "finish"
    /\ LET s == work[w]
           status == IF s.err = "none" THEN "success" ELSE "failed"
       IN  IF Owned(row, s.attempt)
           THEN row' = Finished(row, status, s.sent, s.err) /\ Become(w, Ended(s, s.err))
           ELSE row' = row /\ Become(w, [s EXCEPT !.pc = "finishq"])
    /\ UNCHANGED <<pend, Rest>>

\* FinishDeferredTask: the row is deleted, waits again, or is a dead letter.
SettleTask(w) ==
    /\ work[w].pc = "settle"
    /\ pend' = IF ~HoldsTask(w) THEN pend
               ELSE IF work[w].err = "none" THEN [NoPend EXCEPT !.id = pend.id]
               ELSE [pend EXCEPT !.live = FALSE,
                                 !.status = IF pend.claims >= MaxClaims
                                            THEN "dead_letter" ELSE "pending"]
    /\ Become(w, Idle)
    /\ UNCHANGED <<row, Rest>>

-----------------------------------------------------------------------------
\* Operators: ResolveRunIssue reads the row and decides, then updates it by id and status alone.

OpRead(o) ==
    /\ op[o].pc = "idle"
    /\ row.status = "needs_review" /\ rule # "deleted"
    /\ decisions < MaxDecisions
    /\ \E r \in Resolutions(row, rule = "enabled") :
          op' = [op EXCEPT ![o] = [pc |-> "decided", resolution |-> r]]
    /\ decisions' = decisions + 1
    /\ UNCHANGED <<row, pend, work, History, faults, Rule>>

OpApply(o) ==
    /\ op[o].pc = "decided"
    /\ LET r == op[o].resolution IN
       IF CanResolve(row)
       THEN /\ row' = Resolved(row, r)
            /\ passed' = IF r = "continue" /\ row.cursor \in Steps
                         THEN [passed EXCEPT ![row.cursor] = IF row.started THEN "unknown" ELSE "skipped"]
                         ELSE passed
            /\ overridden' = IF r \in Resolutions(row, TRUE) THEN overridden
                             ELSE overridden \cup ({row.cursor} \cap Steps)
       ELSE UNCHANGED <<row, passed, overridden>>
    /\ op' = [op EXCEPT ![o].pc = "idle"]
    /\ UNCHANGED <<pend, work, reminders, effects, faults, decisions, Rule>>

-----------------------------------------------------------------------------
\* The rule: AutomationRules.Update switches it, Delete refuses while it has runs to be done.

SwitchRule ==
    /\ rule # "deleted" /\ edits < MaxEdits
    /\ rule' = IF rule = "enabled" THEN "disabled" ELSE "enabled"
    /\ edits' = edits + 1
    /\ UNCHANGED <<row, pend, work, op, History, faults, decisions>>

BlocksDelete == \/ row.status \in {"running", "needs_review"}
                \/ row.status = "failed" /\ row.sent = 0 /\ row.attempt < MaxAttempts /\ row.err # "no_retry"

DeleteRule ==
    /\ rule # "deleted" /\ edits < MaxEdits
    /\ ~BlocksDelete
    /\ rule' = "deleted"
    /\ edits' = edits + 1
    /\ UNCHANGED <<row, pend, work, op, History, faults, decisions>>

-----------------------------------------------------------------------------
\* Time and failures.

\* Somebody still works on the run under its current attempt, or is about to join it.
Engaged == \E w \in Workers : \/ Busy(w) /\ (work[w].pc = "load" \/ work[w].attempt = row.attempt)
                              \/ work[w].pc = "replay" /\ work[w].seen

\* The five minutes run out.  While the run is being worked on, or its delayed action is still
\* to be replayed, that is a disturbance (a slow call, a late scheduler).
LeaseExpires ==
    /\ row.status = "running" /\ row.live
    /\ row' = [row EXCEPT !.live = FALSE]
    /\ IF Engaged \/ ReplayExpected THEN faults < MaxFaults /\ faults' = faults + 1
                                    ELSE faults' = faults
    /\ UNCHANGED <<pend, work, op, History, decisions, Rule>>

\* next_retry_at passes, or WakeCredentialBlocked clears it.
RetryFallsDue ==
    /\ row.status = "failed" /\ ~row.due
    /\ row' = [row EXCEPT !.due = TRUE]
    /\ UNCHANGED <<pend, work, Rest>>

TaskLeaseExpires ==
    /\ pend.status = "running" /\ pend.live
    /\ pend' = [pend EXCEPT !.live = FALSE]
    /\ IF \E w \in Workers : HoldsTask(w)
       THEN faults < MaxFaults /\ faults' = faults + 1
       ELSE faults' = faults
    /\ UNCHANGED <<row, work, op, History, decisions, Rule>>

\* A worker dies with its process; what it did to the database and outside remains.
Crash(w) ==
    /\ work[w].pc # "idle"
    /\ faults < MaxFaults
    /\ Become(w, Idle)
    /\ faults' = faults + 1
    /\ UNCHANGED <<row, pend, op, History, decisions, Rule>>

\* The statement the worker is about to execute fails without effect.
AfterFailure(s) ==
    CASE s.pc \in {"loop", "defer"}                      -> Failing(s, "plain")
      [] s.pc \in {"advance", "abort"}                   -> [s EXCEPT !.pc = "stuck"]
      [] s.pc = "count"                                  -> [s EXCEPT !.pc = "partial"]
      [] s.pc = "finish"                                 -> [s EXCEPT !.pc = "finishq"]
      [] s.pc \in {"recover", "gone", "claim", "settle"} -> Idle
      [] OTHER                                           -> Ended(s, "plain")

StatementFails(w) ==
    /\ work[w].pc \notin {"idle", "replay", "exec"}
    /\ ~(work[w].pc = "loop" /\ AtEnd(w))
    /\ faults < MaxFaults
    /\ Become(w, AfterFailure(work[w]))
    /\ faults' = faults + 1
    /\ UNCHANGED <<row, pend, op, History, decisions, Rule>>

-----------------------------------------------------------------------------
Progress(w) ==
    \/ RecoveryCheck(w) \/ RecoveryQuarantine(w) \/ RecoveryPostpone(w) \/ RecoveryClaim(w) \/ ReplayProceed(w)
    \/ Load(w) \/ PlanDone(w) \/ CountReminder(w) \/ DelayAction(w) \/ Defer(w) \/ StartAction(w) \/ Execute(w)
    \/ Advance(w) \/ Abort(w) \/ QuarantineUncertain(w) \/ QuarantineStuck(w)
    \/ QuarantineResult(w) \/ Finish(w) \/ SettleTask(w)

Disturbed(w) == Crash(w) \/ StatementFails(w) \/ ReplayPaused(w) \/ ReplayRefused(w)

Next ==
    \/ \E w \in Workers :
          \/ StartRun(w, "event") \/ StartRun(w, "manual")
          \/ RecoveryScan(w) \/ ClaimTask(w)
          \/ Progress(w) \/ Disturbed(w)
    \/ \E o \in Operators : OpRead(o) \/ OpApply(o)
    \/ SwitchRule \/ DeleteRule
    \/ DeferEvent \/ LeaseExpires \/ RetryFallsDue \/ TaskLeaseExpires

Spec == Init /\ [][Next]_vars

\* The recovery scan runs every minute and the deferred scan every second; handlers run to their
\* end; clocks advance.  An account is not forever unready: of the scans that find the run claimable,
\* not all postpone it.
Fairness == /\ \A w \in Workers : /\ WF_vars(Progress(w))
                                  /\ SF_vars(CanReclaim(row) /\ RecoveryCheck(w))
                                  /\ SF_vars(CanReclaim(row) /\ RecoveryClaim(w))
            /\ WF_vars(\E w \in Workers : RecoveryScan(w))
            /\ WF_vars(\E w \in Workers : ClaimTask(w))
            /\ WF_vars(LeaseExpires) /\ WF_vars(RetryFallsDue) /\ WF_vars(TaskLeaseExpires)

FairSpec == Spec /\ Fairness
-----------------------------------------------------------------------------
(* Properties. *)

\* Every variable keeps the shape the code's columns and locals have.
TypeOK ==
    /\ row \in Row
    /\ pend \in Pend
    /\ work \in [Workers -> Worker]
    /\ op \in [Operators -> [pc : {"idle", "decided"}, resolution : {"continue", "retry", "cancel"}]]
    /\ reminders \in Nat
    /\ effects \in [Steps -> Nat]
    /\ passed \in [Steps -> {"open", "advanced", "skipped", "unknown"}]
    /\ overridden \subseteq Steps
    /\ rule \in {"enabled", "disabled", "deleted"}
    /\ faults \in Nat /\ decisions \in Nat /\ edits \in Nat

\* No action of a run reaches the outside twice, whatever crashes, lease expiries, replays and
\* retries happen (run_coordinator.go: StartRunAction before, Advance/Abort/Quarantine after the
\* call).  Exempt: positions an operator resolved against the policy for their actual state (see
\* NoStaleDecision), and template actions, whose executor misreports (see NeverTwice).
AtMostOnce ==
    \A c \in Steps : c \notin overridden /\ Plan[c] # "send_template" => effects[c] <= 1

\* "an uncertain result must not be replayed or queued again" (docs/architecture/
\* lifecycle-inventory.md:47), for every action type.  sendTemplate breaks it: it reports a
\* plain failure with nothing sent when a later message of the template cannot be loaded.
NeverTwice == \A c \in Steps : c \notin overridden => effects[c] <= 1

\* "retry is forbidden while the result is unknown" (db/automation_recovery.go:174): no decision
\* is applied to a state it was not allowed for.  ResolveRunIssue reads the row, decides, and
\* updates by id and status alone, so a second request may apply its decision to a later review.
NoStaleDecision == overridden = {}

\* The platform is told "shipped" only after every earlier card of the plan went out as recorded
\* by its checkpoint, or an operator knowingly skipped a card that was definitely not sent
\* (automationIssuePolicy refuses to continue past an unknown card before confirm_shipment).
ConfirmAfterDelivery ==
    \A c \in Steps : Plan[c] = "confirm_shipment" /\ effects[c] > 0 =>
        \A d \in 1 .. c - 1 : Delivers(d) /\ d \notin overridden => passed[d] \in {"advanced", "skipped"}

Delivered(c) == {d \in 1 .. c - 1 : Delivers(d) /\ passed[d] = "advanced" /\ effects[d] > 0}

Confirms(w, c) == /\ Execute(w) /\ work[w].cursor = c
                  /\ Plan[c] = "confirm_shipment" /\ effects'[c] > effects[c]

\* The proof submitted with confirm_shipment names nothing but earlier cards that went out as
\* recorded, or positions an operator overruled, across delays, retries, reviews and changes of
\* worker (AdvanceRunAction stores it together with the cursor, QuarantineRunResultWithProof adds
\* an action whose outcome is not known).
ProofIsWhatWasSent ==
    [][\A w \in Workers : \A c \in Steps :
          Confirms(w, c) => work[w].proof \subseteq Delivered(c) \cup overridden]_vars

\* "nextProof ... keeps delays and restarts from losing what was sent" (run_coordinator.go:298):
\* the proof submitted with confirm_shipment is complete.  The code does not keep this: FinishRun
\* clears the proof of a failure that is not retried, and a recovery scan that read the run before
\* may still move that failure to review, from where an operator retries it.
ProofIsComplete ==
    [][\A w \in Workers : \A c \in Steps : Confirms(w, c) => work[w].proof = Delivered(c)]_vars

\* "the rule still has runs to be done" (ErrAutomationRunActive, db/automation.go:12): a deleted
\* rule has none.  Recovery would move such a run to review, where ListIssues and
\* ResolveRunIssue do not show runs of deleted rules.  Delete forgets runs that failed with
\* [safe_retry] after part of the plan was delivered.
DeletedRuleIsDone ==
    rule = "deleted" => row.status \notin {"running", "needs_review"} /\ ~RetryOpen(row)

\* A finished or canceled run is never revived, and review is left only by an operator's decision.
OutcomeIsFinal ==
    [][/\ row.status \in {"success", "canceled"} => row' = row
       /\ row.status = "needs_review" /\ row' # row => \E o \in Operators : OpApply(o)]_vars

\* The order's reminder counter knows about every reminder run that ended in success
\* (executeRule counts between the last action and FinishRun).
ReminderIsCounted == CountsReview /\ row.status = "success" => reminders > 0

\* Taken together, the run keeps the promise of DeliveryPromise: actions in plan order, each at
\* most once, nothing performed after it was skipped, success only at the end.
Promise == INSTANCE DeliveryPromise WITH
    Size      <- Len(Plan),
    Forgetful <- {c \in Steps : Plan[c] = "send_template"},
    Closing   <- {c \in Steps : ~UnknownCanContinue(c)},
    free      <- overridden,
    outcome   <- IF row.status \in {"success", "canceled"} THEN row.status ELSE "open"

KeepsPromise == Promise!Promise

Open == row.status = "running" \/ RetryOpen(row)

\* A run that can still be worked on reaches an outcome: success, canceled, needs_review, or a
\* failure that is not retried (scheduler.go: the recovery scan).
Settles == Open ~> ~Open
-----------------------------------------------------------------------------
(* The inductive invariant behind AtMostOnce. *)

\* Between StartRunAction and the checkpoint after the call, as far as the call may still be made
\* or the checkpoint may still allow another one.
Acting(w, c)  == work[w].pc \in {"exec", "abort"} /\ work[w].cursor = c
Untouched(c)  == effects[c] = 0 /\ \A w \in Workers : ~Acting(w, c)
Protected     == {c \in Steps : c \notin overridden /\ Plan[c] # "send_template"}

ActsInPlan == \A w \in Workers : work[w].pc \in {"exec", "advance", "abort", "uncertain"}
                                    => work[w].cursor \in Steps
AbsentIsNew == row.status = "absent" => row = NoRow
\* Nobody has begun what lies beyond the cursor ...
AheadIsUntouched == \A c \in Protected : c > row.cursor => Untouched(c)
\* ... nor, unless the run is canceled, the action at the cursor while action_started_at is 0.
UnstartedIsUntouched ==
    ~row.started /\ row.status # "canceled" /\ row.cursor \in Protected => Untouched(row.cursor)
\* Of the workers that share an attempt, one is inside the action, which is not yet performed.
OneActor == \A c \in Protected : \A v, w \in Workers :
                Acting(v, c) => effects[c] = 0 /\ (Acting(w, c) => v = w)

\* The checkpoints bracket every call: what makes AtMostOnce hold after any step of anybody.
CheckpointsBracketCalls ==
    /\ TypeOK /\ ActsInPlan /\ AbsentIsNew
    /\ AheadIsUntouched /\ UnstartedIsUntouched /\ OneActor /\ AtMostOnce
=============================================================================
