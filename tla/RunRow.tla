------------------------------- MODULE RunRow -------------------------------
(***************************************************************************)
(* One row of table automation_runs and the conditional UPDATEs of         *)
(* internal/db/automation.go, automation_delivery_proof.go and             *)
(* automation_recovery.go that read and write it.  Every statement is a    *)
(* pair of operators on the row: the WHERE clause (CanX) and the SET list  *)
(* (what the row becomes).  A statement whose CanX is FALSE affects no     *)
(* row, which the code reports as ErrAutomationRunLeaseLost or "not mine". *)
(*                                                                         *)
(* Clock readings are abstracted to what the WHERE clauses compare:        *)
(*   live   lease_expires_at is in the future (0 and the past are FALSE)   *)
(*   due    next_retry_at is not in the future                             *)
(* error_message is abstracted to the classes the code tells apart by      *)
(* prefix or content; delivery_proof to the set of plan positions whose    *)
(* content it holds.  Cursors count from 1 (action_cursor + 1).            *)
(***************************************************************************)
EXTENDS Naturals, Sequences

CONSTANTS
    Plan,         \* ActionPlan frozen in raw_event_json: a sequence of action types
    MaxAttempts   \* a failed run is taken up again while attempt_count is below it

ActionTypes == {"send_card", "send_template", "send_text", "adjust_price", "confirm_shipment"}

ASSUME PlanAssumption == Plan \in Seq(ActionTypes)
ASSUME MaxAttemptsAssumption == MaxAttempts \in Nat

Steps == 1 .. Len(Plan)

\* Actions whose content becomes delivery proof for a later confirm_shipment.
Delivers(c) == Plan[c] \in {"send_card", "send_template"}

Statuses == {"absent", "running", "failed", "success", "needs_review", "canceled"}
Errors   == {"none", "plain", "safe_retry", "no_retry", "rule_gone"}

Row == [status : Statuses, attempt : Nat, cursor : Nat \ {0}, started : BOOLEAN, live : BOOLEAN,
        due : BOOLEAN, sent : Nat, err : Errors, proof : SUBSET Steps]

NoRow == [status |-> "absent", attempt |-> 0, cursor |-> 1, started |-> FALSE, live |-> FALSE,
          due |-> TRUE, sent |-> 0, err |-> "none", proof |-> {}]

-----------------------------------------------------------------------------
\* Creation and claiming.

InsertedRun == [NoRow EXCEPT !.status = "running", !.attempt = 1, !.live = TRUE]

\* The error classes after which the recorded failure may be taken up again.
RetriableFailure(sent, err) == err = "safe_retry" \/ (sent = 0 /\ err # "no_retry")

RetryOpen(r) == /\ r.status = "failed" /\ ~r.started
                /\ r.attempt < MaxAttempts
                /\ RetriableFailure(r.sent, r.err)

CanReclaim(r) == /\ ~r.started
                 /\ \/ r.status = "running" /\ ~r.live
                    \/ RetryOpen(r) /\ r.due

Reclaimed(r) == [r EXCEPT !.status = "running", !.err = "none", !.live = TRUE,
                          !.due = TRUE, !.attempt = @ + 1]

\* TryStartRun: INSERT OR IGNORE on (rule_id, trigger_key), then reclaimRun.
CanTryStart(r) == r.status = "absent" \/ CanReclaim(r)
TryStarted(r)  == IF r.status = "absent" THEN InsertedRun ELSE Reclaimed(r)

\* Wrong: forgets the runs that died inside an action.
RecoversUnstarted(r) == CanReclaim(r)

\* The recovery scan also returns running rows that died inside an action.
DueForRecovery(r) == \/ r.status = "running" /\ ~r.live
                     \/ RetryOpen(r) /\ r.due

CanPostpone(r, a) == /\ r.attempt = a /\ ~r.started
                     /\ r.status \in {"running", "failed"}
Postponed(r) == IF r.status = "running" THEN [r EXCEPT !.live = TRUE]
                                        ELSE [r EXCEPT !.due = FALSE]

-----------------------------------------------------------------------------
\* Checkpoints around one action, fenced by (attempt, cursor).

Owned(r, a) == r.status = "running" /\ r.attempt = a

CanStartAction(r, a, c) == Owned(r, a) /\ r.cursor = c /\ ~r.started
\* Wrong: does not record that the action was started.
StartedUnmarked(r) == [r EXCEPT !.live = TRUE]

StartedAction(r) == [r EXCEPT !.started = TRUE, !.live = TRUE]

CanAbortAction(r, a, c) == Owned(r, a) /\ r.cursor = c
AbortedAction(r) == [r EXCEPT !.started = FALSE]

CanAdvance(r, a, c) == Owned(r, a) /\ r.cursor = c /\ r.started
Advanced(r, n, proof) == [r EXCEPT !.cursor = @ + 1, !.started = FALSE,
                                   !.sent = @ + n, !.proof = proof]

RenewedLease(r) == [r EXCEPT !.live = TRUE]

-----------------------------------------------------------------------------
\* Outcomes.

CanQuarantine(r, a) == r.attempt = a /\ r.status \in {"running", "failed"}
Quarantined(r, err) == [r EXCEPT !.status = "needs_review", !.err = err,
                                 !.live = FALSE, !.due = TRUE]
\* Proof {} is the nil proof, which keeps what the row holds.
QuarantinedResult(r, sent, proof) ==
    [Quarantined(r, "plain") EXCEPT !.sent = sent, !.proof = IF proof = {} THEN @ ELSE proof]

Finished(r, status, sent, err) ==
    LET retry == status = "failed" /\ RetriableFailure(sent, err)
    IN  [r EXCEPT !.status = status, !.sent = sent, !.err = err, !.live = FALSE,
                  !.due = ~retry, !.proof = IF retry THEN @ ELSE {}]

-----------------------------------------------------------------------------
\* Manual resolution of a run that needs review (automationIssuePolicy, ResolveRunIssue).

\* Wrong: an unknown card may be skipped before confirm_shipment.
AnyCanContinue(c) == c \in Steps

\* A result nobody knows may be skipped unless a later confirm_shipment relies on it.
UnknownCanContinue(c) ==
    /\ c \in Steps
    /\ Delivers(c) => \A d \in Steps : d > c => Plan[d] # "confirm_shipment"

Resolutions(r, ruleEnabled) ==
    CASE r.started /\ UnknownCanContinue(r.cursor)  -> {"continue", "cancel"}
      [] r.started /\ ~UnknownCanContinue(r.cursor) -> {"cancel"}
      [] ~r.started /\ r.err = "rule_gone" -> IF ruleEnabled THEN {"retry", "cancel"} ELSE {"cancel"}
      [] ~r.started /\ r.err # "rule_gone" -> IF r.sent > 0 THEN {"continue", "retry", "cancel"}
                                                             ELSE {"retry", "cancel"}

\* Wrong: trusts what the request read before.
CanResolveById(r) == r.status # "absent"

\* The UPDATE names the row by id and looks at the status again.
CanResolve(r) == r.status = "needs_review"

Resolved(r, resolution) ==
    CASE resolution = "continue" -> [r EXCEPT !.status = "running", !.cursor = @ + 1, !.started = FALSE,
                                              !.live = FALSE, !.due = TRUE, !.err = "none"]
      [] resolution = "retry"    -> [r EXCEPT !.status = "running", !.started = FALSE,
                                              !.live = FALSE, !.due = TRUE, !.err = "none"]
      [] resolution = "cancel"   -> [r EXCEPT !.status = "canceled", !.started = FALSE,
                                              !.live = FALSE, !.due = TRUE, !.proof = {}]
=============================================================================
