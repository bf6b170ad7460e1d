--------------------------- MODULE DeferredTasks ----------------------------
(***************************************************************************)
(* One row of automation_pending_tasks: an event that has to wait (account *)
(* paused, order not prepared, delayed action), the schedulers of several  *)
(* processes that claim and replay it, and the operator who resolves its   *)
(* dead letter.  Sources: internal/db/automation_recovery.go (DeferTask,   *)
(* ClaimDueDeferredTasks, FinishDeferredTask, ResolveDeferredIssue) and    *)
(* scheduler.go (runDeferredTasks).  What a replay does to the run is the  *)
(* business of AutomationRuns.                                             *)
(***************************************************************************)
EXTENDS Naturals

CONSTANTS
    Schedulers,   \* scheduler loops, one per process
    MaxClaims,    \* 5 in the code
    MaxDefers,    \* bound: events deferred under this key
    MaxCrashes,   \* bound: processes that die
    MaxRevivals   \* bound: dead letters an operator retries

ASSUME DeferredAssumption == MaxClaims \in Nat \ {0} /\ MaxDefers \in Nat /\ MaxCrashes \in Nat /\ MaxRevivals \in Nat

VARIABLES
    task,      \* the row: id, status, attempt_count, due_at <= now, lease_expires_at >= now
    sched,     \* each scheduler: program point, id and attempt_count selected, ClaimVersion held
    holder,    \* history: who claimed the row last
    outdated,  \* history: schedulers whose selection is older than the last reset of attempt_count
    defers, crashes, revivals

vars == <<task, sched, holder, outdated, defers, crashes, revivals>>

NoTask == [id |-> 0, status |-> "none", claims |-> 0, due |-> FALSE, live |-> FALSE]
Asleep == [pc |-> "idle", id |-> 0, version |-> 0]

Init == /\ task = NoTask
        /\ sched = [s \in Schedulers |-> Asleep]
        /\ holder = "nobody" /\ outdated = {}
        /\ defers = 0 /\ crashes = 0 /\ revivals = 0

\* Wrong: ignores an abandoned claim.
ClaimableOnce == task.claims < MaxClaims /\ task.status = "pending" /\ task.due

\* The condition ClaimDueDeferredTasks selects and updates by.
Claimable == /\ task.claims < MaxClaims
             /\ \/ task.status = "pending" /\ task.due
                \/ task.status = "running" /\ ~task.live

\* Wrong: does not compare the claim's version.
HoldsAny(s) == task.status = "running"

Holds(s) == task.status = "running" /\ task.id = sched[s].id /\ task.claims = sched[s].version

\* The upsert of DeferTask: a new row under an id never used before, or the old one with a
\* fresh budget.
Deferred == [id |-> IF task.status = "none" THEN task.id + 1 ELSE task.id,
             status |-> "pending", claims |-> 0, due |-> FALSE, live |-> FALSE]
Deleted  == [NoTask EXCEPT !.id = task.id]

\* Whoever is still at work goes by the counter before its reset.
Outdates == outdated' = {s \in Schedulers : sched'[s].pc # "idle"}
Leaves(s) == /\ sched' = [sched EXCEPT ![s] = Asleep]
             /\ outdated' = outdated \ {s}

-----------------------------------------------------------------------------
\* An event of this key arrives and has to wait.
Defer == /\ defers < MaxDefers
         /\ defers' = defers + 1
         /\ task' = Deferred
         /\ UNCHANGED <<sched, holder, crashes, revivals>>
         /\ Outdates

Select(s) ==
    /\ sched[s].pc = "idle" /\ Claimable
    /\ sched' = [sched EXCEPT ![s] = [pc |-> "selected", id |-> task.id, version |-> task.claims]]
    /\ UNCHANGED <<task, holder, outdated, defers, crashes, revivals>>

\* The version handed to FinishDeferredTask counts from what was selected.
Claim(s) ==
    /\ sched[s].pc = "selected"
    /\ IF Claimable /\ task.id = sched[s].id
       THEN /\ task' = [task EXCEPT !.status = "running", !.claims = @ + 1, !.live = TRUE]
            /\ sched' = [sched EXCEPT ![s].pc = "replay", ![s].version = @ + 1]
            /\ holder' = s /\ outdated' = outdated
       ELSE UNCHANGED <<task, holder>> /\ Leaves(s)
    /\ UNCHANGED <<defers, crashes, revivals>>

\* The replay succeeds (or needs nothing): the row is deleted.
FinishDone(s) ==
    /\ sched[s].pc = "replay"
    /\ task' = IF Holds(s) THEN Deleted ELSE task
    /\ Leaves(s)
    /\ UNCHANGED <<holder, defers, crashes, revivals>>

\* The replay fails: the row waits again, or is a dead letter.
FinishFailed(s) ==
    /\ sched[s].pc = "replay"
    /\ task' = IF ~Holds(s) THEN task
               ELSE [task EXCEPT !.status = IF task.claims >= MaxClaims THEN "dead_letter" ELSE "pending",
                                 !.due = FALSE, !.live = FALSE]
    /\ Leaves(s)
    /\ UNCHANGED <<holder, defers, crashes, revivals>>

\* The replay has to wait once more: handleTask deferred it, the claim is not settled.
ReplayDefers(s) ==
    /\ sched[s].pc = "replay" /\ defers < MaxDefers
    /\ defers' = defers + 1
    /\ task' = Deferred
    /\ sched' = [sched EXCEPT ![s] = Asleep]
    /\ UNCHANGED <<holder, crashes, revivals>>
    /\ Outdates

\* ResolveDeferredIssue.
Revive == /\ task.status = "dead_letter" /\ revivals < MaxRevivals
          /\ revivals' = revivals + 1
          /\ task' = [Deferred EXCEPT !.due = TRUE]
          /\ UNCHANGED <<sched, holder, defers, crashes>>
          /\ Outdates

Discard == /\ task.status = "dead_letter"
           /\ task' = Deleted
           /\ UNCHANGED <<sched, holder, outdated, defers, crashes, revivals>>

\* due_at passes, or WakeCredentialBlocked clears it.
FallsDue == /\ task.status = "pending" /\ ~task.due
            /\ task' = [task EXCEPT !.due = TRUE]
            /\ UNCHANGED <<sched, holder, outdated, defers, crashes, revivals>>

\* Five minutes pass: nothing renews the lease, so a slow replay loses it too.
LeaseExpires == /\ task.status = "running" /\ task.live
                /\ task' = [task EXCEPT !.live = FALSE]
                /\ UNCHANGED <<sched, holder, outdated, defers, crashes, revivals>>

Crash(s) == /\ sched[s].pc # "idle" /\ crashes < MaxCrashes
            /\ crashes' = crashes + 1
            /\ Leaves(s)
            /\ UNCHANGED <<task, holder, defers, revivals>>

Work(s) == Claim(s) \/ FinishDone(s) \/ FinishFailed(s) \/ ReplayDefers(s)

Next == \/ \E s \in Schedulers : Select(s) \/ Work(s) \/ Crash(s)
        \/ Defer \/ Revive \/ Discard \/ FallsDue \/ LeaseExpires

Spec == Init /\ [][Next]_vars

\* Every second a scheduler selects what is due; replays end; clocks advance.
FairSpec == /\ Spec
            /\ WF_vars(\E s \in Schedulers : Select(s))
            /\ \A s \in Schedulers : WF_vars(Work(s))
            /\ WF_vars(FallsDue) /\ WF_vars(LeaseExpires)
-----------------------------------------------------------------------------
(* Properties. *)

\* Every variable keeps the shape of its column or local; the budget of claims is respected.
TypeOK ==
    /\ task \in [id : Nat, status : {"none", "pending", "running", "dead_letter"}, claims : 0 .. MaxClaims,
                 due : BOOLEAN, live : BOOLEAN]
    /\ sched \in [Schedulers -> [pc : {"idle", "selected", "replay"}, id : Nat, version : 0 .. MaxClaims]]
    /\ holder \in Schedulers \cup {"nobody"} /\ outdated \subseteq Schedulers
    /\ defers \in Nat /\ crashes \in Nat /\ revivals \in Nat

\* A scheduler whose claim was taken over cannot settle the task any more ("stale finish ... want
\* ErrDeferredTaskLeaseLost", db/automation_test.go:999), however slow it is.  Exempt is whoever
\* selected the row before its last deferral or revival: both start attempt_count at 0 again, so
\* that the old claim's version returns and the fence does not hold for it.
OnlyHolderFinishes ==
    [][\A s \in Schedulers : (FinishDone(s) \/ FinishFailed(s)) /\ task' # task
                                 => holder = s \/ s \in outdated]_vars

Open == task.status \in {"pending", "running"}

Exhausted == task.status = "running" /\ ~task.live /\ task.claims = MaxClaims
=============================================================================
