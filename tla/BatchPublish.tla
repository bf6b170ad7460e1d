----------------------------- MODULE BatchPublish -----------------------------
(***************************************************************************)
(* One batch of items to publish and everybody who works on it: the        *)
(* requests that start, retry, cancel or delete it, the worker goroutines, *)
(* the recovery loop, and a process that stops, dies and comes back.       *)
(* Sources: internal/db/item_publish_batches*.go, application/items/       *)
(* batch_*.go and adapter/item_batch_*.go.                                 *)
(*                                                                         *)
(* A worker is named by the token of its claim, drawn from a counter.      *)
(* Time is LeaseLapses (5 minutes), Disturbed (the two hours of a worker)  *)
(* and the publish interval, a wait that a fair step ends.                 *)
(***************************************************************************)
EXTENDS Naturals, FiniteSets, FiniteSetsExt

CONSTANTS
    NRows,      \* rows of the batch
    MaxActs,    \* bound: starts, retries and cancellations of the user
    MaxFaults   \* bound: failed statements, timeouts, expired sessions, lost leases, stops, crashes

ASSUME BatchAssumption == NRows \in Nat \ {0} /\ MaxActs \in Nat /\ MaxFaults \in Nat

Rows      == 1 .. NRows
\* A claim is asked for by the user or follows a fault; a request that slept past its lease costs
\* two: its rows are taken over, and when it wakes up it displaces the worker that did so.
MaxClaims == MaxActs + 2 * MaxFaults
Tokens    == 1 .. MaxClaims
NoToken   == 0
Callers   == {"start", "retry", "scan"}

VARIABLES
    batch,     \* the row of item_publish_batches: status, worker_token, lease_expires_at > now
    rows,      \* item_publish_batch_rows: status, failure_kind, worker_token, item_id present
    caller,    \* StartBatch, RetryFailedBatch and recoverWithStarter: program point and token
    cancel,    \* CancelBatch: program point and the token it signals
    workers,   \* BatchRunner.Run per token: program point, Context not done, rows to do, row, error kind
    registry,  \* coordinator.workers[batchID]
    phase,     \* the process: up, stopped, down
    wanted,    \* history: the user's last word was a start or a retry, not a cancellation
    sent,      \* history: how often each row was published on the platform
    issued, acts, faults

vars == <<batch, rows, caller, cancel, workers, registry, phase, wanted, sent, issued, acts, faults>>

Idle   == [pc |-> "idle", token |-> NoToken]
Nobody == [pc |-> "none", live |-> FALSE, todo |-> {}, kept |-> {}, row |-> 0, kind |-> ""]
Fresh  == [status |-> "pending", kind |-> "", token |-> NoToken, item |-> FALSE]

Init == /\ batch = [status |-> "preview", token |-> NoToken, live |-> FALSE]
        /\ rows = [r \in Rows |-> Fresh]
        /\ caller = [c \in Callers |-> Idle] /\ cancel = Idle
        /\ workers = [t \in Tokens |-> Nobody]
        /\ registry = NoToken /\ phase = "up"
        /\ wanted = FALSE /\ sent = [r \in Rows |-> 0]
        /\ issued = 0 /\ acts = 0 /\ faults = 0

Fault == faults < MaxFaults /\ faults' = faults + 1
Act   == acts < MaxActs /\ acts' = acts + 1

-----------------------------------------------------------------------------
\* The statements of item_publish_batches.go and item_publish_batches_worker.go.

Open        == {"running", "canceling"}
Owned(t)    == batch.status = "running" /\ batch.token = t

Shut(s)     == [status |-> s, token |-> NoToken, live |-> FALSE]
Lapsed      == batch.status \in Open /\ ~batch.live

Claimable == \/ batch.status \in {"preview", "failed", "partially_failed", "completed", "canceled"}
             \/ batch.status = "running" /\ ~batch.live

\* A running row whose request may have reached the platform, with no item number to show for it.
Unknown(rw) == rw.status = "running" /\ rw.kind = "remote_started" /\ ~rw.item

Failed(rw, kind)  == [rw EXCEPT !.status = "failed", !.kind = kind, !.token = NoToken]
Pending(rw, kind) == [rw EXCEPT !.status = "pending", !.kind = kind, !.token = NoToken]

\* ClaimBatch on the rows of earlier workers.
TakeOver(rw) == CASE Unknown(rw)             -> Failed(rw, "uncertain_remote")
                  [] rw.status = "running" /\ ~Unknown(rw) -> Pending(rw, "interrupted")
                  [] OTHER                   -> rw

\* markUnfinishedFailedTx.
Abandon(rw) == CASE Unknown(rw)             -> Failed(rw, "uncertain_remote")
                 [] rw.status \in {"pending", "running"} /\ ~Unknown(rw) -> Failed(rw, "interrupted")
                 [] OTHER                   -> rw

\* Wrong: retries everything that failed.
RetriesAll(rw) == IF rw.status = "failed" THEN Pending(rw, "") ELSE rw
ResetFailed(rw) ==
    IF rw.status = "failed" /\ rw.kind # "uncertain_remote" THEN Pending(rw, "") ELSE rw
ResetInterrupted(rw) ==
    IF rw.status = "failed" /\ rw.kind = "interrupted" THEN Pending(rw, "") ELSE rw

On(op(_)) == [r \in Rows |-> op(rows[r])]
With(rws, status) == {r \in Rows : rws[r].status = status}
Unfinished(rws)   == With(rws, "pending") \cup With(rws, "running")

FinalBatchStatus(rws) == IF With(rws, "failed") = {} THEN "completed"
                         ELSE IF With(rws, "success") # {} THEN "partially_failed" ELSE "failed"

\* Wrong: forgets the batches that are being canceled.
RecoversRunning == \/ batch.status = "running" /\ ~batch.live
                   \/ \E r \in Rows : rows[r].kind = "interrupted" /\ batch.status \in {"failed", "partially_failed"}
Recoverable == \/ Lapsed
               \/ /\ batch.status \in {"failed", "partially_failed"}
                  /\ \E r \in Rows : rows[r].status = "failed" /\ rows[r].kind = "interrupted"

\* FinalizeBatch refuses while a row is unfinished: an error, not a lost lease.
CanFinalize(t) == Owned(t) /\ Unfinished(rows) = {}

\* FailClaimedBatch.
FailClaimed(t) == batch' = IF Owned(t) THEN Shut("failed") ELSE batch

\* FinalizeInterrupted, and FinalizeCanceled.
CloseInterrupted(t) ==
    IF Owned(t) THEN rows' = On(Abandon) /\ batch' = Shut(FinalBatchStatus(rows'))
                ELSE UNCHANGED <<batch, rows>>
CloseCanceled(t) ==
    IF batch.status = "canceling" /\ batch.token = t
    THEN rows' = On(Abandon) /\ batch' = Shut("canceled")
    ELSE UNCHANGED <<batch, rows>>

-----------------------------------------------------------------------------
\* The two requests and the recovery scan: claim, prepare the rows, start a worker, or give back.

Goto(c, pc) == caller' = [caller EXCEPT ![c] = IF pc = "idle" THEN Idle ELSE [@ EXCEPT !.pc = pc]]
CallerKeeps == UNCHANGED <<cancel, workers, registry, phase, wanted, sent>>

\* StartBatch and RetryFailedBatch look at the status before they claim.
UserStart ==
    /\ phase # "down" /\ caller["start"].pc = "idle" /\ Act
    /\ batch.status \in {"preview", "completed"} \/ (batch.status = "running" /\ ~batch.live)
    /\ Goto("start", "claim")
    /\ CallerKeeps /\ UNCHANGED <<batch, rows, issued, faults>>

UserRetry ==
    /\ phase # "down" /\ caller["retry"].pc = "idle" /\ Act
    /\ batch.status # "deleted" /\ (batch.status = "running" => ~batch.live)
    /\ Goto("retry", "claim")
    /\ CallerKeeps /\ UNCHANGED <<batch, rows, issued, faults>>

\* Recoverable lists the batch; what follows uses the status it read.
ScanList ==
    /\ phase = "up" /\ caller["scan"].pc = "idle" /\ Recoverable
    /\ Goto("scan", IF batch.status = "canceling" THEN "expire" ELSE "claim")
    /\ CallerKeeps /\ UNCHANGED <<batch, rows, issued, acts, faults>>

\* FinalizeExpiredCancellation.
ScanExpire ==
    /\ caller["scan"].pc = "expire"
    /\ IF phase = "up" /\ batch.status = "canceling" /\ ~batch.live
       THEN rows' = On(Abandon) /\ batch' = Shut("canceled")
       ELSE UNCHANGED <<batch, rows>>
    /\ Goto("scan", "idle")
    /\ CallerKeeps /\ UNCHANGED <<issued, acts, faults>>

\* The loop's Context ends with the process; a request has its own.
Alive(c) == c # "scan" \/ phase = "up"

ClaimBatch(c) ==
    /\ caller[c].pc = "claim"
    /\ IF Alive(c) /\ Claimable
       THEN /\ issued < MaxClaims /\ issued' = issued + 1
            /\ batch' = [status |-> "running", token |-> issued', live |-> TRUE]
            /\ rows' = On(TakeOver)
            /\ caller' = [caller EXCEPT ![c] = [pc |-> IF c = "start" THEN "list" ELSE "reset",
                                                token |-> issued']]
            /\ wanted' = (c # "scan" \/ wanted)
       ELSE Goto(c, "idle") /\ UNCHANGED <<batch, rows, issued, wanted>>
    /\ UNCHANGED <<cancel, workers, registry, phase, sent, acts, faults>>

Reset(c) ==
    /\ caller[c].pc = "reset"
    /\ IF Alive(c) THEN rows' = (IF c = "retry" THEN On(ResetFailed) ELSE On(ResetInterrupted)) /\ Goto(c, "list")
                   ELSE rows' = rows /\ Goto(c, "release")
    /\ CallerKeeps /\ UNCHANGED <<batch, issued, acts, faults>>

ListPending(c) ==
    /\ caller[c].pc = "list"
    /\ Goto(c, IF ~Alive(c) THEN "release" ELSE IF With(rows, "pending") = {} THEN "empty" ELSE "start")
    /\ CallerKeeps /\ UNCHANGED <<batch, rows, issued, acts, faults>>

\* Nothing to do: close at once.  An error gives the claim back, a lost lease ends the call.
FinalizeEmpty(c) ==
    /\ caller[c].pc = "empty"
    /\ batch' = IF Alive(c) /\ CanFinalize(caller[c].token) THEN Shut(FinalBatchStatus(rows)) ELSE batch
    /\ Goto(c, IF ~Alive(c) \/ Unfinished(rows) # {} THEN "release" ELSE "idle")
    /\ CallerKeeps /\ UNCHANGED <<rows, issued, acts, faults>>

\* coordinator.Start: registers the worker and cancels the one it displaces.
StartWorker(c) ==
    LET t == caller[c].token IN
    /\ caller[c].pc = "start"
    /\ IF phase = "up"
       THEN /\ workers' = [u \in Tokens |-> CASE u = t -> [Nobody EXCEPT !.pc = "list", !.live = TRUE]
                                              [] u # t /\ u = registry -> [workers[u] EXCEPT !.live = FALSE]
                                              [] OTHER -> workers[u]]
            /\ registry' = t
            /\ Goto(c, "idle")
       ELSE Goto(c, "release") /\ UNCHANGED <<workers, registry>>
    /\ UNCHANGED <<batch, rows, cancel, phase, wanted, sent, issued, acts, faults>>

\* releaseClaim and releaseClaimedBatch, under a Context of their own.
Release(c) ==
    /\ caller[c].pc = "release"
    /\ FailClaimed(caller[c].token)
    /\ Goto(c, "idle")
    /\ CallerKeeps /\ UNCHANGED <<rows, issued, acts, faults>>

\* A statement of the caller fails.  After ClaimBatch the claim is given back, if that succeeds.
CallerFails(c) ==
    /\ caller[c].pc \in {"claim", "reset", "list", "empty", "release"} /\ Fault
    /\ Goto(c, IF caller[c].pc \in {"claim", "release"} THEN "idle" ELSE "release")
    /\ CallerKeeps /\ UNCHANGED <<batch, rows, issued, acts>>

-----------------------------------------------------------------------------
\* BatchRunner.Run.  Reads and the row's claim use the worker's Context; checkpoints and the
\* closing use statusContext, which is a fresh one once the worker's is done.

Last        == {"finish", "read", "canceled", "interrupted", "done", "exit"}
Step(t, w)  == workers' = [workers EXCEPT ![t] = w]
At(t, pc)   == workers[t].pc = pc
To(t, pc)   == CASE pc \in Last -> [Nobody EXCEPT !.pc = pc, !.live = workers[t].live]
                 [] pc = "next" -> [workers[t] EXCEPT !.pc = pc, !.row = 0, !.kind = ""]
                 [] OTHER       -> [workers[t] EXCEPT !.pc = pc]
Error(t, k) == [workers[t] EXCEPT !.pc = "fail", !.kind = k]
Mine(t)     == rows[workers[t].row].status = "running" /\ rows[workers[t].row].token = t
WriteRow(t, rw) == rows' = [rows EXCEPT ![workers[t].row] = rw]
WorkerKeeps == UNCHANGED <<caller, cancel, registry, phase, wanted, issued, acts>>

\* PendingRows: the snapshot holds the item number a row already has.
WorkerList(t) ==
    /\ At(t, "list")
    /\ Step(t, IF workers[t].live
               THEN [workers[t] EXCEPT !.pc = "next", !.todo = With(rows, "pending"),
                                       !.kept = {r \in Rows : rows[r].item}]
               ELSE To(t, "read"))
    /\ WorkerKeeps /\ UNCHANGED <<batch, rows, sent, faults>>

\* The head of the loop: renew the lease, look at the batch again.
NextRow(t) ==
    /\ At(t, "next")
    /\ IF workers[t].todo # {} /\ workers[t].live /\ Owned(t)
       THEN /\ batch' = [batch EXCEPT !.live = TRUE]
            /\ Step(t, [workers[t] EXCEPT !.pc = "claim", !.row = Min(workers[t].todo),
                                          !.todo = @ \ {Min(workers[t].todo)}])
       ELSE batch' = batch /\ Step(t, To(t, IF workers[t].todo = {} THEN "finish" ELSE "read"))
    /\ WorkerKeeps /\ UNCHANGED <<rows, sent, faults>>

\* Wrong: only looks at the row.
ClaimsLoose(t) == rows[workers[t].row].status = "pending"
CanClaimRow(t) == rows[workers[t].row].status = "pending" /\ Owned(t)

ClaimRow(t) ==
    /\ At(t, "claim")
    /\ IF workers[t].live /\ CanClaimRow(t)
       THEN /\ WriteRow(t, [rows[workers[t].row] EXCEPT !.status = "running", !.token = t, !.kind = ""])
            /\ Step(t, To(t, "prepare"))
       ELSE rows' = rows /\ Step(t, To(t, IF workers[t].live THEN "next" ELSE "read"))
    /\ WorkerKeeps /\ UNCHANGED <<batch, sent, faults>>

\* A row with an item number is not published again.  Bad data and images are refused before
\* the checkpoint MarkClaimedRemoteStarted, changed credentials right after it.
Prepare(t) ==
    /\ At(t, "prepare")
    /\ \/ workers[t].row \in workers[t].kept /\ Step(t, To(t, "local")) /\ rows' = rows
       \/ workers[t].row \notin workers[t].kept /\ Step(t, Error(t, "publish")) /\ rows' = rows
       \/ /\ workers[t].row \notin workers[t].kept /\ Mine(t)
          /\ WriteRow(t, [rows[workers[t].row] EXCEPT !.kind = "remote_started"])
          /\ Step(t, To(t, "slot")) \/ Step(t, Error(t, "publish"))
    /\ WorkerKeeps /\ UNCHANGED <<batch, sent, faults>>

\* PublishItem up to its last gate: an unrecognised category may be tried again, any other error
\* counts as unknown although nothing was sent; ReservePublishSlot wants the claim.
ReserveSlot(t) ==
    /\ At(t, "slot")
    /\ \/ workers[t].live /\ Step(t, Error(t, "publish"))
       \/ Step(t, Error(t, "uncertain_remote"))
       \/ workers[t].live /\ Owned(t) /\ Step(t, To(t, "send"))
    /\ WorkerKeeps /\ UNCHANGED <<batch, rows, sent, faults>>

\* publishItemOnce: published and answered; published, no answer; refused for good reason; failed.
SendRow(t) ==
    /\ At(t, "send")
    /\ \/ /\ workers[t].live
          /\ sent' = [sent EXCEPT ![workers[t].row] = @ + 1]
          /\ Step(t, To(t, "save")) \/ Step(t, Error(t, "uncertain_remote"))
       \/ workers[t].live /\ sent' = sent /\ Step(t, Error(t, "publish"))
       \/ sent' = sent /\ Step(t, Error(t, "uncertain_remote"))
    /\ WorkerKeeps /\ UNCHANGED <<batch, rows, faults>>

\* SaveClaimedRemoteResult; then perhaps the cookie of the answer could not be saved.
SaveRemote(t) ==
    /\ At(t, "save")
    /\ IF Mine(t)
       THEN /\ WriteRow(t, [rows[workers[t].row] EXCEPT !.item = TRUE, !.kind = "post_publish"])
            /\ Step(t, To(t, "local")) \/ Step(t, Error(t, "post_publish"))
       ELSE rows' = rows /\ Step(t, Error(t, "uncertain_remote"))
    /\ WorkerKeeps /\ UNCHANGED <<batch, sent, faults>>

\* Complete: the item and its rules, unless the batch is canceled or somebody else's.
Complete(t) ==
    /\ At(t, "local")
    /\ \/ /\ workers[t].live /\ batch.status # "canceled" /\ batch.token = t
          /\ Step(t, To(t, "success"))
       \/ Step(t, Error(t, "post_publish"))
    /\ WorkerKeeps /\ UNCHANGED <<batch, rows, sent, faults>>

MarkSuccess(t) ==
    /\ At(t, "success")
    /\ IF workers[t].live /\ Mine(t)
       THEN /\ WriteRow(t, [rows[workers[t].row] EXCEPT !.status = "success", !.kind = "", !.token = NoToken])
            /\ Step(t, To(t, "next"))
       ELSE rows' = rows /\ Step(t, Error(t, "publish"))
    /\ WorkerKeeps /\ UNCHANGED <<batch, sent, faults>>

\* MarkClaimedRowFailed with the kind publishBatchFailure gives the error.
MarkFailed(t) ==
    /\ At(t, "fail")
    /\ IF Mine(t) THEN WriteRow(t, Failed(rows[workers[t].row], workers[t].kind)) ELSE rows' = rows
    /\ Step(t, To(t, IF Mine(t) THEN "next" ELSE "read"))
    /\ WorkerKeeps /\ UNCHANGED <<batch, sent, faults>>

\* The error was an expired session: the rest of the batch waits for the recovery.
SessionExpired(t) ==
    /\ At(t, "fail") /\ workers[t].kind = "uncertain_remote" /\ Mine(t) /\ Fault
    /\ WriteRow(t, Failed(rows[workers[t].row], workers[t].kind))
    /\ Step(t, To(t, "read"))
    /\ WorkerKeeps /\ UNCHANGED <<batch, sent>>

\* finish and finishInterrupted: GetBatch, then one transaction.
FinishRead(t) ==
    /\ workers[t].pc \in {"finish", "read"}
    /\ Step(t, To(t,
         CASE batch.status = "canceling" /\ batch.token = t -> "canceled"
           [] At(t, "read") /\ batch.status \notin {"canceling", "canceled"} -> "interrupted"
           [] At(t, "finish") /\ batch.status = "running" /\ batch.token = t -> "done"
           [] OTHER -> "exit"))
    /\ WorkerKeeps /\ UNCHANGED <<batch, rows, sent, faults>>

FinalizeCanceled(t) ==
    /\ At(t, "canceled")
    /\ CloseCanceled(t)
    /\ Step(t, To(t, "exit"))
    /\ WorkerKeeps /\ UNCHANGED <<sent, faults>>

FinalizeInterrupted(t) ==
    /\ At(t, "interrupted")
    /\ CloseInterrupted(t)
    /\ Step(t, To(t, "exit"))
    /\ WorkerKeeps /\ UNCHANGED <<sent, faults>>

FinalizeBatch(t) ==
    /\ At(t, "done")
    /\ batch' = IF CanFinalize(t) THEN Shut(FinalBatchStatus(rows)) ELSE batch
    /\ Step(t, To(t, IF Unfinished(rows) # {} THEN "read" ELSE "exit"))
    /\ WorkerKeeps /\ UNCHANGED <<rows, sent, faults>>

\* A statement of the worker fails: nothing is written and the error path is taken.
AfterError(t) ==
    CASE workers[t].pc \in {"list", "next", "claim", "fail", "finish", "done"} -> To(t, "read")
      [] workers[t].pc = "prepare"                          -> Error(t, "publish")
      [] workers[t].pc = "save"                             -> Error(t, "uncertain_remote")
      [] workers[t].pc = "success"                          -> Error(t, "publish")
      [] OTHER                                              -> To(t, "exit")

StatementFails(t) ==
    /\ workers[t].pc \notin {"none", "exit", "slot", "send", "local"} /\ Fault
    /\ Step(t, AfterError(t))
    /\ WorkerKeeps /\ UNCHANGED <<batch, rows, sent>>

Exit(t) ==
    /\ At(t, "exit")
    /\ Step(t, Nobody)
    /\ registry' = IF registry = t THEN NoToken ELSE registry
    /\ UNCHANGED <<batch, rows, caller, cancel, phase, wanted, sent, issued, acts, faults>>

\* The two hours of the worker are over.
Disturbed(t) ==
    /\ workers[t].pc # "none" /\ workers[t].live /\ Fault
    /\ Step(t, [workers[t] EXCEPT !.live = FALSE])
    /\ WorkerKeeps /\ UNCHANGED <<batch, rows, sent>>

-----------------------------------------------------------------------------
\* CancelBatch and DeleteBatch.

\* RequestCancel: two-phase while a worker has the claim, at once otherwise.
UserCancel ==
    /\ phase # "down" /\ cancel.pc = "idle" /\ batch.status # "deleted" /\ Act
    /\ IF batch.status \in Open
       THEN /\ batch' = [batch EXCEPT !.status = "canceling"]
            /\ cancel' = [pc |-> "signal", token |-> batch.token]
            /\ rows' = rows
       ELSE batch' = Shut("canceled") /\ rows' = On(Abandon) /\ cancel' = cancel
    /\ wanted' = FALSE
    /\ UNCHANGED <<caller, workers, registry, phase, sent, issued, faults>>

\* coordinator.Cancel: only the worker of that token.
CancelSignal ==
    /\ cancel.pc = "signal" /\ cancel' = Idle
    /\ workers' = [t \in Tokens |-> IF t = registry /\ t = cancel.token
                                    THEN [workers[t] EXCEPT !.live = FALSE] ELSE workers[t]]
    /\ UNCHANGED <<batch, rows, caller, registry, phase, wanted, sent, issued, acts, faults>>

UserDelete ==
    /\ phase # "down" /\ batch.status \notin Open \cup {"deleted"}
    /\ batch' = Shut("deleted")
    /\ UNCHANGED <<rows, caller, cancel, workers, registry, phase, wanted, sent, issued, acts, faults>>

-----------------------------------------------------------------------------
\* Time and the process.

AtWork(t) == workers[t].pc # "none" \/ \E c \in Callers : caller[c].pc # "idle" /\ caller[c].token = t

\* Five minutes without a renewal.  That somebody at work needs so long counts as a fault.
LeaseLapses ==
    /\ batch.status \in Open /\ batch.live
    /\ batch' = [batch EXCEPT !.live = FALSE]
    /\ IF AtWork(batch.token) THEN Fault ELSE faults' = faults
    /\ UNCHANGED <<rows, caller, cancel, workers, registry, phase, wanted, sent, issued, acts>>

\* The lifecycle cancels its Context and stops the coordinator.
Stop ==
    /\ phase = "up" /\ Fault
    /\ phase' = "stopped" /\ registry' = NoToken
    /\ workers' = [t \in Tokens |-> [workers[t] EXCEPT !.live = FALSE]]
    /\ UNCHANGED <<batch, rows, caller, cancel, wanted, sent, issued, acts>>

Gone == /\ phase' = "down" /\ registry' = NoToken
        /\ workers' = [t \in Tokens |-> Nobody]
        /\ caller' = [c \in Callers |-> Idle] /\ cancel' = Idle

\* Close waited for everybody.
Halt ==
    /\ phase = "stopped"
    /\ \A t \in Tokens : At(t, "none")
    /\ \A c \in Callers : caller[c].pc = "idle"
    /\ Gone
    /\ UNCHANGED <<batch, rows, wanted, sent, issued, acts, faults>>

Crash ==
    /\ phase # "down" /\ Fault /\ Gone
    /\ UNCHANGED <<batch, rows, wanted, sent, issued, acts>>

Boot ==
    /\ phase = "down" /\ phase' = "up"
    /\ UNCHANGED <<batch, rows, caller, cancel, workers, registry, wanted, sent, issued, acts, faults>>

-----------------------------------------------------------------------------
CallerStep(c) == ClaimBatch(c) \/ Reset(c) \/ ListPending(c) \/ FinalizeEmpty(c) \/ StartWorker(c) \/ Release(c)

WorkerStep(t) ==
    \/ WorkerList(t) \/ NextRow(t) \/ ClaimRow(t) \/ Prepare(t) \/ ReserveSlot(t) \/ SendRow(t) \/ SaveRemote(t)
    \/ Complete(t) \/ MarkSuccess(t) \/ MarkFailed(t) \/ FinishRead(t)
    \/ FinalizeCanceled(t) \/ FinalizeInterrupted(t) \/ FinalizeBatch(t) \/ Exit(t)

Next ==
    \/ UserStart \/ UserRetry \/ UserCancel \/ CancelSignal \/ UserDelete
    \/ ScanList \/ ScanExpire
    \/ \E c \in Callers : CallerStep(c) \/ CallerFails(c)
    \/ \E t \in Tokens : WorkerStep(t) \/ SessionExpired(t) \/ StatementFails(t) \/ Disturbed(t)
    \/ LeaseLapses \/ Stop \/ Halt \/ Crash \/ Boot

Spec == Init /\ [][Next]_vars

\* Statements return, the loop ticks, time passes and the process is started again.
Fairness ==
    /\ WF_vars(ScanList) /\ WF_vars(ScanExpire) /\ WF_vars(LeaseLapses) /\ WF_vars(Halt) /\ WF_vars(Boot)
    /\ \A c \in Callers : WF_vars(CallerStep(c))
    /\ \A t \in Tokens : WF_vars(WorkerStep(t))

FairSpec == Spec /\ Fairness

-----------------------------------------------------------------------------
\* The types of the module.
TypeOK ==
    /\ batch \in [status : {"preview", "running", "canceling", "canceled", "completed", "partially_failed",
                            "failed", "deleted"}, token : Tokens \cup {NoToken}, live : BOOLEAN]
    /\ (batch.status \in Open) = (batch.token # NoToken)
    /\ rows \in [Rows -> [status : {"pending", "running", "success", "failed"},
                          kind : {"", "remote_started", "post_publish", "interrupted", "uncertain_remote", "publish"},
                          token : Tokens \cup {NoToken}, item : BOOLEAN]]
    /\ caller \in [Callers -> [pc : {"idle", "claim", "expire", "reset", "list", "empty", "start", "release"},
                               token : Tokens \cup {NoToken}]]
    /\ workers \in [Tokens -> [pc : {"none", "list", "next", "claim", "prepare", "slot", "send", "save", "local",
                                     "success", "fail", "finish", "read", "canceled", "interrupted", "done", "exit"},
                               live : BOOLEAN, todo : SUBSET Rows, kept : SUBSET Rows, row : Rows \cup {0},
                               kind : {"", "publish", "uncertain_remote", "post_publish"}]]
    /\ registry \in Tokens \cup {NoToken} /\ phase \in {"up", "stopped", "down"}

\* Whatever is interrupted, retried, recovered or taken over, an item is put on the platform at
\* most once: a row whose request may have arrived is only ever closed by hand.
PublishedOnce == \A r \in Rows : sent[r] <= 1

\* A running row always belongs to the batch's present claim, so that a worker that lost the
\* batch finds no row it may still write.
OneOwner == \A r \in Rows : rows[r].status = "running" =>
                batch.status \in Open /\ rows[r].token = batch.token

\* An accepted cancellation ends in "canceled": neither the worker's own end, nor an interrupted
\* one, nor the recovery, nor a failed start may close or reopen the batch in another way.
CancelingOnlyCancels == [][batch.status = "canceling" => batch'.status \in {"canceling", "canceled"}]_vars

\* Nobody leaves a batch open for ever: its worker closes it, or the recovery does.
Closes == batch.status \in Open ~> batch.status \notin Open

\* The wiki's promise: of a canceled batch only the row that is being submitted may still complete.
CancelHolds == [][\A t \in Tokens : workers'[t].pc = "send" /\ workers[t].pc # "send" => wanted]_vars
=============================================================================
