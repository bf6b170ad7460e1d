---------------------------- MODULE RefreshJobs -----------------------------
(***************************************************************************)
(* One row of order_refresh_jobs and everybody who touches it: the request *)
(* that creates, claims and starts the job, the worker goroutines, the     *)
(* recovery loop, the request that cancels it, and the shutdown and        *)
(* restart of the process.  Sources: application/orders/refresh_runner.go, *)
(* refresh_job_service.go, internal/db/order_refresh_jobs.go and, for the  *)
(* order of the shutdown, application/lifecycle/coordinator.go.            *)
(*                                                                         *)
(* A worker is named by the token it was claimed with; tokens are drawn    *)
(* from a counter.  Time is LeaseLapses (31 minutes) and TimesOut (30).    *)
(***************************************************************************)
EXTENDS Naturals, FiniteSets

CONSTANTS
    MaxFaults   \* bound: crashes, shutdowns, failed statements, timeouts, leases lost at work

ASSUME RefreshAssumption == MaxFaults \in Nat

\* Every claim after the first follows a disturbance that cost the one before; a creating request
\* that slept past its lease may, when it wakes up, cost another by displacing the recovered worker.
MaxClaims == MaxFaults + 2
Tokens    == 1 .. MaxClaims
NoToken   == 0

VARIABLES
    job,       \* the row: status, worker_token, lease_expires_at > now
    request,   \* CreateAndStart: program point and token
    scan,      \* the recovery loop: program point and token
    cancel,    \* CancelForUser: program point
    workers,   \* runWorker per token: program point, Context not done, outcome of Refresh
    registry,  \* runner.workers[job.ID]
    active,    \* runner.active
    phase,     \* the process: up, ending (lifecycle Context canceled), stopped, closed, down
    issued,    \* tokens drawn
    faults

refreshVars == <<job, request, scan, cancel, workers, registry, active, phase, issued, faults>>

NoJob  == [status |-> "absent", token |-> NoToken, live |-> FALSE]
NoWorker == [pc |-> "none", live |-> FALSE, out |-> "failed"]
Ended  == {"succeeded", "failed", "cancelled"}
Bodies == {"refresh", "save", "exit"}

RefreshInit == /\ job = NoJob
               /\ request = [pc |-> "idle", token |-> NoToken]
               /\ scan = [pc |-> "idle", token |-> NoToken]
               /\ cancel = "idle"
               /\ workers = [t \in Tokens |-> NoWorker]
               /\ registry = NoToken /\ active = 1
               /\ phase = "up" /\ issued = 0 /\ faults = 0

-----------------------------------------------------------------------------
\* The statements of order_refresh_jobs.go.

CanClaim    == job.status = "queued"
Claimed(t)  == [status |-> "running", token |-> t, live |-> TRUE]

\* Wrong: takes nothing back.
NeverLapsed    == job.status = "queued" /\ ~job.live

\* Recoverable and RequeueExpired share the condition.
Lapsed         == job.status = "running" /\ ~job.live
Requeued       == [status |-> "queued", token |-> NoToken, live |-> FALSE]
CanComplete(t) == job.status = "running" /\ job.token = t
ClosedJob(status) == [status |-> status, token |-> NoToken, live |-> FALSE]
Complete(t, status) == job' = IF CanComplete(t) THEN ClosedJob(status) ELSE job

Fault == faults < MaxFaults /\ faults' = faults + 1

-----------------------------------------------------------------------------
\* StartJob registers a worker and cancels the one it displaces, both under runner.mu.  Its
\* Context is a child of the lifecycle Context.

\* Wrong: accepts work after Stop; lets any worker that ends clear the entry.
NeverRefuses      == FALSE
ClearsEntry(t)    == registry # NoToken

Refuses           == phase \in {"stopped", "closed"}
OwnsEntry(t)      == registry = t

StartJob(t) ==
    /\ workers' = [u \in Tokens |->
                     CASE u = t                -> [pc |-> "refresh", live |-> phase = "up", out |-> "failed"]
                       [] u # t /\ u = registry -> [workers[u] EXCEPT !.live = FALSE]
                       [] OTHER                -> workers[u]]
    /\ registry' = t
    /\ active' = active + 1

-----------------------------------------------------------------------------
\* CreateAndStart.  Until it returns nobody knows the job's id.

Create ==
    /\ phase # "down" /\ request.pc = "idle" /\ job.status = "absent"
    /\ issued' = issued + 1
    /\ job' = [NoJob EXCEPT !.status = "queued"]
    /\ request' = [pc |-> "claim", token |-> issued']
    /\ UNCHANGED <<scan, cancel, workers, registry, active, phase, faults>>

RequestClaim ==
    /\ request.pc = "claim"
    /\ IF CanClaim THEN job' = Claimed(request.token) /\ request' = [request EXCEPT !.pc = "start"]
                   ELSE request' = [request EXCEPT !.pc = "over"] /\ job' = job
    /\ UNCHANGED <<scan, cancel, workers, registry, active, phase, issued, faults>>

RequestStart ==
    /\ request.pc = "start"
    /\ IF Refuses THEN /\ request' = [request EXCEPT !.pc = "release"]
                       /\ UNCHANGED <<workers, registry, active>>
                  ELSE /\ request' = [request EXCEPT !.pc = "told"]
                       /\ StartJob(request.token)
    /\ UNCHANGED <<job, scan, cancel, phase, issued, faults>>

RequestRelease ==
    /\ request.pc = "release"
    /\ Complete(request.token, "failed")
    /\ request' = [request EXCEPT !.pc = "over"]
    /\ UNCHANGED <<scan, cancel, workers, registry, active, phase, issued, faults>>

\* The statement fails, for instance because the client went away and its Context is done.
RequestFails ==
    /\ request.pc \in {"claim", "release"} /\ Fault
    /\ request' = [request EXCEPT !.pc = "over"]
    /\ UNCHANGED <<job, scan, cancel, workers, registry, active, phase, issued>>

-----------------------------------------------------------------------------
\* runWorker: RunJob, then finishWorker.

\* Refresh returns; it reports most errors inside a result, so that also a worker whose Context
\* is done may hold either outcome.
Refreshed(t) ==
    /\ workers[t].pc = "refresh"
    /\ \E out \in {"succeeded", "failed"} :
          workers' = [workers EXCEPT ![t].pc = "save", ![t].out = out]
    /\ UNCHANGED <<job, request, scan, cancel, registry, active, phase, issued, faults>>

\* complete runs under the worker's own Context: once that is done nothing is written.
Save(t) ==
    /\ workers[t].pc = "save"
    /\ IF workers[t].live THEN Complete(t, workers[t].out) ELSE job' = job
    /\ workers' = [workers EXCEPT ![t].pc = "exit"]
    /\ UNCHANGED <<request, scan, cancel, registry, active, phase, issued, faults>>

SaveFails(t) ==
    /\ workers[t].pc = "save" /\ workers[t].live /\ Fault
    /\ workers' = [workers EXCEPT ![t].pc = "exit"]
    /\ UNCHANGED <<job, request, scan, cancel, registry, active, phase, issued>>

Exit(t) ==
    /\ workers[t].pc = "exit"
    /\ registry' = IF OwnsEntry(t) THEN NoToken ELSE registry
    /\ active' = active - 1
    /\ workers' = [workers EXCEPT ![t] = [@ EXCEPT !.pc = "none", !.live = FALSE]]
    /\ UNCHANGED <<job, request, scan, cancel, phase, issued, faults>>

TimesOut(t) ==
    /\ workers[t].pc \in Bodies /\ workers[t].live /\ Fault
    /\ workers' = [workers EXCEPT ![t].live = FALSE]
    /\ UNCHANGED <<job, request, scan, cancel, registry, active, phase, issued>>

-----------------------------------------------------------------------------
\* The recovery loop; each of its statements needs a Context that is not done.

ScanList ==
    /\ scan.pc = "idle" /\ phase = "up" /\ Lapsed
    /\ scan' = [scan EXCEPT !.pc = "requeue"]
    /\ UNCHANGED <<job, request, cancel, workers, registry, active, phase, issued, faults>>

ScanRequeue ==
    /\ scan.pc = "requeue"
    /\ IF phase = "up" /\ Lapsed
       THEN /\ job' = Requeued
            /\ issued' = issued + 1
            /\ scan' = [pc |-> "claim", token |-> issued']
       ELSE /\ scan' = [scan EXCEPT !.pc = "idle"]
            /\ UNCHANGED <<job, issued>>
    /\ UNCHANGED <<request, cancel, workers, registry, active, phase, faults>>

ScanClaim ==
    /\ scan.pc = "claim"
    /\ IF phase = "up" /\ CanClaim
       THEN job' = Claimed(scan.token) /\ scan' = [scan EXCEPT !.pc = "start"]
       ELSE scan' = [scan EXCEPT !.pc = "idle"] /\ job' = job
    /\ UNCHANGED <<request, cancel, workers, registry, active, phase, issued, faults>>

\* A refusal is answered by Complete under the loop's Context, which is done by then.
ScanStart ==
    /\ scan.pc = "start"
    /\ scan' = [scan EXCEPT !.pc = "idle"]
    /\ IF Refuses THEN UNCHANGED <<workers, registry, active>> ELSE StartJob(scan.token)
    /\ UNCHANGED <<job, request, cancel, phase, issued, faults>>

ScanFails ==
    /\ scan.pc \in {"requeue", "claim"} /\ Fault
    /\ scan' = [scan EXCEPT !.pc = "idle"]
    /\ UNCHANGED <<job, request, cancel, workers, registry, active, phase, issued>>

\* finishRecovery.
ScanEnds ==
    /\ scan.pc = "idle" /\ phase \notin {"up", "down"}
    /\ scan' = [scan EXCEPT !.pc = "off"]
    /\ active' = active - 1
    /\ UNCHANGED <<job, request, cancel, workers, registry, phase, issued, faults>>

-----------------------------------------------------------------------------
\* CancelForUser: the row first, the worker in memory afterwards.

CancelRow ==
    /\ phase # "down" /\ cancel = "idle" /\ request.pc = "told"
    /\ job.status \in {"queued", "running"}
    /\ job' = ClosedJob("cancelled")
    /\ cancel' = "signal"
    /\ UNCHANGED <<request, scan, workers, registry, active, phase, issued, faults>>

CancelWorker ==
    /\ cancel = "signal"
    /\ cancel' = "idle"
    /\ workers' = [t \in Tokens |-> IF t = registry THEN [workers[t] EXCEPT !.live = FALSE] ELSE workers[t]]
    /\ UNCHANGED <<job, request, scan, registry, active, phase, issued, faults>>

-----------------------------------------------------------------------------
\* The process.  Requests that outlive the draining of the HTTP server go on during the shutdown.

\* Coordinator.Close cancels the lifecycle Context, and with it every worker's and the loop's.
LifecycleEnds ==
    /\ phase = "up" /\ Fault
    /\ phase' = "ending"
    /\ workers' = [t \in Tokens |-> [workers[t] EXCEPT !.live = FALSE]]
    /\ UNCHANGED <<job, request, scan, cancel, registry, active, issued>>

\* The Contexts Stop cancels are done already.
Stop ==
    /\ phase = "ending"
    /\ phase' = "stopped"
    /\ registry' = NoToken
    /\ UNCHANGED <<job, request, scan, cancel, workers, active, issued, faults>>

\* Close returns because runner.done is closed.
CloseReturns ==
    /\ phase = "stopped" /\ active = 0
    /\ phase' = "closed"
    /\ UNCHANGED <<job, request, scan, cancel, workers, registry, active, issued, faults>>

ProcessDies ==
    /\ phase' = "down"
    /\ request' = IF request.pc \in {"idle", "told"} THEN request ELSE [request EXCEPT !.pc = "over"]
    /\ scan' = [scan EXCEPT !.pc = "off"]
    /\ cancel' = "idle"
    /\ workers' = [t \in Tokens |-> [workers[t] EXCEPT !.pc = "none", !.live = FALSE]]
    /\ registry' = NoToken /\ active' = 0
    /\ UNCHANGED <<job, issued>>

\* Close returned, or ran into its own deadline.
ProcessExits == phase \in {"stopped", "closed"} /\ ProcessDies /\ faults' = faults
ProcessCrash        == phase # "down" /\ Fault /\ ProcessDies

\* The process is started again, and with it the loop (StartRecovery).
Boot ==
    /\ phase = "down"
    /\ phase' = "up" /\ active' = 1
    /\ scan' = [scan EXCEPT !.pc = "idle"]
    /\ UNCHANGED <<job, request, cancel, workers, registry, issued, faults>>

\* The claim is held by somebody who may still complete the job or start its worker.
Held == \/ \E t \in Tokens : job.token = t /\ workers[t].pc \in Bodies /\ workers[t].live
        \/ request.pc \in {"start", "release"} /\ job.token = request.token
        \/ scan.pc = "start" /\ job.token = scan.token

LeaseLapses ==
    /\ job.status = "running" /\ job.live /\ ~Held
    /\ job' = [job EXCEPT !.live = FALSE]
    /\ UNCHANGED <<request, scan, cancel, workers, registry, active, phase, issued, faults>>

\* The clock jumps, or a holder is suspended past its lease.
LeaseCutShort ==
    /\ job.status = "running" /\ job.live /\ Held /\ Fault
    /\ job' = [job EXCEPT !.live = FALSE]
    /\ UNCHANGED <<request, scan, cancel, workers, registry, active, phase, issued>>

-----------------------------------------------------------------------------
RequestSteps  == RequestClaim \/ RequestStart \/ RequestRelease
WorkerStep(t) == Refreshed(t) \/ Save(t) \/ Exit(t)
ScanStep      == ScanList \/ ScanRequeue \/ ScanClaim \/ ScanStart \/ ScanEnds
ShutdownStep  == Stop \/ ProcessExits \/ Boot

RefreshNext == \/ Create \/ RequestSteps \/ RequestFails
               \/ \E t \in Tokens : WorkerStep(t) \/ SaveFails(t) \/ TimesOut(t)
               \/ ScanStep \/ ScanFails
               \/ CancelRow \/ CancelWorker
               \/ LifecycleEnds \/ CloseReturns \/ ShutdownStep \/ ProcessCrash
               \/ LeaseLapses \/ LeaseCutShort

RefreshSpec == RefreshInit /\ [][RefreshNext]_refreshVars

\* Goroutines are scheduled and Refresh returns (it is bounded by its Context), the ticker ticks,
\* the clock runs, and a process that went down is started again by its service manager.
FairRefresh == /\ RefreshSpec
               /\ WF_refreshVars(RequestSteps) /\ WF_refreshVars(ScanStep) /\ WF_refreshVars(CancelWorker)
               /\ \A t \in Tokens : WF_refreshVars(WorkerStep(t))
               /\ WF_refreshVars(ShutdownStep) /\ WF_refreshVars(LeaseLapses)

-----------------------------------------------------------------------------
(* Properties. *)

\* The variables keep their types, at most one token is drawn per disturbance and one for the
\* creation, and runner.active is the number of goroutines that Close has to wait for.
TypeOK ==
    /\ job \in [status : {"absent", "queued", "running"} \cup Ended, token : Tokens \cup {NoToken}, live : BOOLEAN]
    /\ request \in [pc : {"idle", "claim", "start", "release", "told", "over"}, token : Tokens \cup {NoToken}]
    /\ scan \in [pc : {"idle", "requeue", "claim", "start", "off"}, token : Tokens \cup {NoToken}]
    /\ cancel \in {"idle", "signal"}
    /\ workers \in [Tokens -> [pc : Bodies \cup {"none"}, live : BOOLEAN, out : {"succeeded", "failed"}]]
    /\ registry \in Tokens \cup {NoToken}
    /\ active = Cardinality({t \in Tokens : workers[t].pc \in Bodies}) + (IF scan.pc = "off" THEN 0 ELSE 1)
    /\ phase \in {"up", "ending", "stopped", "closed", "down"}
    /\ issued \in Tokens \cup {0} /\ faults \in 0 .. MaxFaults

\* Whatever a late worker, a cancellation and the recovery loop do, a job that ended keeps its
\* outcome ("an expired worker cannot overwrite the new one's result", Complete).
OutcomeStays == [][job.status \in Ended => job' = job]_refreshVars

\* Workers whose Context is not done work on the job one at a time ("the old worker must stop,
\* lest both write an outcome", StartJob), also when one that ends and one that starts meet in
\* the registry.
OneLiveWorker == \A t, u \in Tokens : workers[t].live /\ workers[u].live => t = u

\* When Close has returned without error, no worker and no scan runs or will run in the process,
\* although requests may still create jobs.
ClosedIsQuiet == phase = "closed" => scan.pc = "off" /\ \A t \in Tokens : workers[t].pc = "none"

\* A queued job nobody is about to claim.
Stranded == job.status = "queued" /\ request.pc # "claim" /\ scan.pc # "claim"

\* A job ends, whatever interrupts it, unless whoever queued it is interrupted before the claim:
\* the recovery loop looks for running jobs only.
JobsEnd == job.status \in {"queued", "running"} ~> (job.status \in Ended \/ Stranded)
=============================================================================
