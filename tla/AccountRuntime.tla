---------------------------- MODULE AccountRuntime ----------------------------
(***************************************************************************)
(* One account: its row (credential, enabled), the instance that keeps it  *)
(* online, and everybody who changes the credential or restarts the        *)
(* instance: a login, a cookie edit, enabling, disabling, deleting, the    *)
(* renewal scheduler, and platform calls that answer with new cookies.     *)
(* Sources: internal/account/manager.go, engine/connection_*.go,           *)
(* engine/credential_*.go, engine/account_lifecycle.go,                    *)
(* engine/pending_renewal.go, renewal/scheduler.go,                        *)
(* adapter/adapter_events.go and application/account.                      *)
(*                                                                         *)
(* A credential is the login it descends from and a stamp every write      *)
(* renews (the code compares value and metadata). What the code does while *)
(* it holds LockAccountCredentials touches only this row and is one step;  *)
(* a platform call is two steps with the lock released between them.       *)
(***************************************************************************)
EXTENDS Naturals, FiniteSets

CONSTANTS
    Flows,      \* the flows of this instance of the model, a subset of FlowKinds
    MaxInst,    \* bound: instances ever started
    MaxStamp,   \* bound: writes of the credential
    MaxActs,    \* bound: flows ever begun
    MaxTries,   \* attempts of one token refresh (3 in the code)
    MaxFaults   \* bound: stops that time out, requests cut off, failed reads

FlowKinds == {"login", "edit", "enable", "disable", "delete", "renew", "late", "check", "order"}

ASSUME AccountAssumption ==
    /\ Flows \subseteq FlowKinds
    /\ MaxInst \in Nat \ {0} /\ MaxStamp \in Nat \ {0} /\ MaxTries \in Nat \ {0}
    /\ MaxActs \in Nat /\ MaxFaults \in Nat

Insts == 1 .. MaxInst
None  == 0

VARIABLES
    row,      \* cookies and cookie_status: exists, enabled, the credential
    inst,     \* engine.Account per instance: program point, credential read, token bound to, tries, a late answer to come
    current,  \* Manager.accounts[id]
    fence,    \* Manager.stopping[id] and who set it
    turn,     \* SettingsService.transitionLock and who holds it
    rescue,   \* passwordResults[id]: the protocol renewal in progress, its snapshot and its caller
    flow,     \* the flows: program point, credential read, instance being stopped
    newest,   \* history: the last login or cookie a user saved
    lost,     \* history: a write put an older login over it
    dropped,  \* history: the restart of an edit, a login or an enabling was given up
    acts, faults

vars == <<row, inst, current, fence, turn, rescue, flow, newest, lost, dropped, acts, faults>>

NoCred == [login |-> 0, stamp |-> 0]
Blank  == [pc |-> "none", cred |-> NoCred, token |-> NoCred, tries |-> 0, late |-> FALSE]
Idle   == [pc |-> "idle", cred |-> NoCred, target |-> None]
Calm   == [busy |-> FALSE, cred |-> NoCred, by |-> None]

\* StartAll has started the enabled account with the credential of its first login.
Init == /\ row = [exists |-> TRUE, enabled |-> TRUE, cred |-> [login |-> 1, stamp |-> 1]]
        /\ inst = [i \in Insts |-> IF i = 1 THEN [Blank EXCEPT !.pc = "made"] ELSE Blank]
        /\ current = 1
        /\ fence = "" /\ turn = "" /\ rescue = Calm
        /\ flow = [f \in Flows |-> Idle]
        /\ newest = 1 /\ lost = FALSE /\ dropped = FALSE
        /\ acts = 0 /\ faults = 0

Fault == faults < MaxFaults /\ faults' = faults + 1
\* Its goroutine ends when its loop has ended and no late answer is waited for.
Live(i) == inst[i].pc \notin {"none", "ended", "gone"} \/ inst[i].late
GetStatus == row.exists /\ row.enabled

-----------------------------------------------------------------------------
\* Writing the credential.

\* UpdateRenewalCookie and its kin: the new value descends from the given login.
Write(login) ==
    /\ row.exists /\ row.cred.stamp < MaxStamp
    /\ row' = [row EXCEPT !.cred = [login |-> login, stamp |-> row.cred.stamp + 1]]
    /\ lost' = (lost \/ login < newest)

\* The user's own: also the newest login there is.
Save == /\ row.exists /\ row.cred.stamp < MaxStamp
        /\ row' = [row EXCEPT !.cred = [login |-> newest + 1, stamp |-> row.cred.stamp + 1]]
        /\ newest' = newest + 1 /\ lost' = FALSE

\* Wrong: merges the answer into the credential the request was made with.
KeepsRequest(asked) == asked.login
\* renew.RebaseResponseCookies: an answer to an old credential is merged into the present one.
Rebased(asked) == row.cred.login

-----------------------------------------------------------------------------
\* The instance: connectionCoordinator.run.

At(i, pc)  == inst[i].pc = pc
\* Between two connections nothing is remembered but a late answer that is still to come.
To(i, pc)  == [Blank EXCEPT !.pc = pc, !.late = inst[i].late]
Go(i, pc)  == inst' = [inst EXCEPT ![i] = To(i, pc)]
Stopped(i) == inst[i].pc \in {"ending", "gone"}
UserSide   == <<current, fence, turn, flow, newest, dropped, acts, faults>>
Outside    == <<row, rescue, lost, UserSide>>

\* prepareRun: lifecycle.start, the status, and the API renewal before the first connection.
Prepare(i) ==
    /\ At(i, "made")
    /\ inst' = [inst EXCEPT ![i] = IF GetStatus THEN [To(i, "renew") EXCEPT !.cred = row.cred] ELSE To(i, "ended")]
    /\ UNCHANGED Outside

\* tryAPIRenewUsing after the call, and a late answer that is still to come.
StartupRenewed(i) ==
    /\ At(i, "renew")
    /\ \/ UNCHANGED <<row, lost>>
       \/ Write(Rebased(inst[i].cred))
    /\ \E late \in BOOLEAN : inst' = [inst EXCEPT ![i] = [To(i, "loop") EXCEPT !.late = late]]
    /\ UNCHANGED <<rescue, UserSide>>

\* Wrong: connects whatever the row says.
AlwaysConnects == TRUE
MayConnect == GetStatus

\* The head of the loop: the status, then a connection or the end of the instance.
Dial(i) ==
    /\ At(i, "loop")
    /\ \/ MayConnect /\ Go(i, "dialed")
       \/ Go(i, "ended")
    /\ UNCHANGED Outside

\* refreshTokenWithMinGap reads the row under gate and lock; the lock is released for the call.
AskToken(i) ==
    /\ At(i, "dialed")
    /\ inst' = [inst EXCEPT ![i] = IF row.exists THEN [To(i, "token") EXCEPT !.cred = row.cred] ELSE To(i, "loop")]
    /\ UNCHANGED Outside

Spent(i) == inst[i].tries = MaxTries

\* After a call, under the lock again: an answer to an old credential is dropped and the
\* call repeated; a row that is gone or too many drops are a failure, retried later.
TokenAnswered(i) ==
    /\ At(i, "token")
    /\ inst' = [inst EXCEPT ![i] =
                  IF ~row.exists \/ Spent(i) THEN To(i, "loop")
                  ELSE IF row.cred # @.cred THEN [@ EXCEPT !.cred = row.cred, !.tries = inst[i].tries + 1]
                  ELSE [@ EXCEPT !.pc = "adopt"]]
    /\ UNCHANGED Outside

\* adoptTokenResponseCookies, with the lock released: the answer's cookies replace the row's.
\* What becomes of the answer: a token to bind, a slider to solve, a renewal, a retry, a pause.
AdoptToken(i) ==
    /\ At(i, "adopt")
    /\ \/ /\ UNCHANGED <<row, lost>>
          /\ \/ \E pc \in {"bind", "solve"} : inst' = [inst EXCEPT ![i].pc = pc]
             \/ \E pc \in {"expired", "loop", "ended"} : Go(i, pc)
       \/ /\ Write(inst[i].cred.login)
          /\ \/ \E pc \in {"bind", "solve"} : inst' = [inst EXCEPT ![i].pc = pc, ![i].cred = row'.cred]
             \/ \E pc \in {"expired", "loop", "ended"} : Go(i, pc)
    /\ UNCHANGED <<rescue, UserSide>>

\* tryTokenCaptchaRecovery: the browser's cookies are written without the lock as well.
SliderSolved(i) ==
    /\ At(i, "solve")
    /\ \/ UNCHANGED <<row, lost>> /\ Go(i, "ended")
       \/ /\ Write(inst[i].cred.login)
          /\ \E seen \in {inst[i].cred, row'.cred} :
               inst' = [inst EXCEPT ![i].pc = "token", ![i].cred = seen, ![i].tries = @ + 1]
    /\ UNCHANGED <<rescue, UserSide>>

\* databaseCredentialFingerprint: the token is bound to the row it was asked with, or given up.
BindToken(i) ==
    /\ At(i, "bind")
    /\ inst' = [inst EXCEPT ![i] = IF row.exists /\ row.cred = @.cred THEN [To(i, "register") EXCEPT !.token = row.cred]
                                   ELSE To(i, "loop")]
    /\ UNCHANGED Outside

CookieSnapshotMatchesDB(i) == row.exists /\ row.cred = inst[i].token

\* registerConnection: the check, the registration, the check again; then markConnectionOnline.
Register(i) ==
    /\ At(i, "register")
    /\ IF CookieSnapshotMatchesDB(i) THEN inst' = [inst EXCEPT ![i].pc = "registering"] ELSE Go(i, "loop")
    /\ UNCHANGED Outside

Registered(i) ==
    /\ At(i, "registering")
    /\ IF CookieSnapshotMatchesDB(i) THEN inst' = [inst EXCEPT ![i].pc = "online"] \/ Go(i, "ended") ELSE Go(i, "loop")
    /\ UNCHANGED Outside

\* The end of a session: rotation, network, a kick, a removal.
SessionEnds(i) ==
    /\ At(i, "online")
    /\ \E pc \in {"loop", "ended"} : Go(i, pc)
    /\ UNCHANGED Outside

\* The run Context is canceled: whatever the instance waits for returns, and nothing more is written.
Unwinds(i) ==
    /\ At(i, "ending") /\ ~(rescue.busy /\ rescue.by = i)
    /\ Go(i, "gone")
    /\ UNCHANGED Outside

\* refreshGate is taken for the whole of an API renewal and of a token refresh; it is no use
\* to an instance whose Context has ended.
GateFree(i) == inst[i].pc \notin {"renew", "token", "adopt", "solve", "bind", "ending", "ended", "gone"}

\* pendingRenewalCoordinator.watch: a late answer under gate and lock, or none within 35 seconds.
LateAnswer(i) ==
    /\ inst[i].late
    /\ inst' = [inst EXCEPT ![i].late = FALSE]
    /\ \/ UNCHANGED <<row, lost>>
       \/ GateFree(i) /\ Write(row.cred.login)
    /\ UNCHANGED <<rescue, UserSide>>

-----------------------------------------------------------------------------
\* OnPasswordLoginRefresh: one protocol renewal at a time, its result shared by those who wait.

Waiting == {f \in Flows : flow[f].pc = "rescue"}

Ask(by) ==
    IF rescue.busy THEN UNCHANGED rescue
    ELSE rescue' = [busy |-> TRUE, cred |-> row.cred, by |-> by]

\* The instance asks when its session has expired.
AskRescue(i) ==
    /\ At(i, "expired")
    /\ IF row.exists \/ rescue.busy THEN Go(i, "rescue") /\ Ask(i) ELSE Go(i, "ended") /\ UNCHANGED rescue
    /\ UNCHANGED <<row, lost, UserSide>>

\* tryProtocolCredentialRenew saves the answer over whatever the row holds, and may do so twice.
RescueSaves ==
    /\ rescue.busy
    /\ rescue.by # None => ~Stopped(rescue.by)
    /\ Write(rescue.cred.login)
    /\ UNCHANGED <<inst, rescue, UserSide>>

RescueEnds ==
    /\ rescue.busy
    /\ \E renewed \in BOOLEAN :
         /\ renewed => row.exists /\ (rescue.by # None => ~Stopped(rescue.by))
         /\ inst' = [i \in Insts |-> IF At(i, "rescue") THEN [inst[i] EXCEPT !.pc = IF renewed THEN "loop" ELSE "ended"]
                                     ELSE inst[i]]
         /\ flow' = [f \in Flows |-> IF f \in Waiting
                                       THEN IF renewed /\ f = "check" THEN [flow[f] EXCEPT !.pc = "stop"] ELSE Idle
                                       ELSE flow[f]]
    /\ rescue' = Calm
    /\ UNCHANGED <<row, current, fence, turn, newest, lost, dropped, acts, faults>>

-----------------------------------------------------------------------------
\* The flows.

In(f, pc)   == f \in Flows /\ flow[f].pc = pc
Next1(f, pc) == flow' = [flow EXCEPT ![f] = [Idle EXCEPT !.pc = pc]]
Done(f)     == flow' = [flow EXCEPT ![f] = Idle]
Act         == acts < MaxActs /\ acts' = acts + 1
Frees(f)    == turn' = IF turn = f THEN "" ELSE turn

\* A login (QR scan or a new cookie) and an edited cookie: the row under the lock, the rest after it.
Saves(f) ==
    /\ f \in {"login", "edit"} /\ In(f, "idle") /\ Act
    /\ Save
    /\ Next1(f, "status")
    /\ UNCHANGED <<inst, current, fence, turn, rescue, dropped, faults>>

\* Both restart an enabled account only; the edit does so under the transition lock.
StatusRead(f) ==
    /\ In(f, "status")
    /\ IF ~GetStatus THEN Done(f) ELSE Next1(f, IF f = "edit" THEN "turn" ELSE "stop")
    /\ UNCHANGED <<row, inst, current, fence, turn, rescue, newest, lost, dropped, acts, faults>>

\* SetStatus: both directions queue for the transition lock.
SetStatus(f) ==
    /\ f \in {"enable", "disable"} /\ In(f, "idle") /\ Act
    /\ row.exists
    /\ Next1(f, "turn")
    /\ UNCHANGED <<row, inst, current, fence, turn, rescue, newest, lost, dropped, faults>>

TakesTurn(f) ==
    /\ In(f, "turn") /\ turn = ""
    /\ turn' = f
    /\ Next1(f, CASE f = "edit" -> "stop" [] f = "enable" -> "enable" [] f = "disable" -> "fence")
    /\ UNCHANGED <<row, inst, current, fence, rescue, newest, lost, dropped, acts, faults>>

Enables ==
    /\ In("enable", "enable")
    /\ IF row.exists THEN row' = [row EXCEPT !.enabled = TRUE] /\ Next1("enable", "stop") /\ UNCHANGED turn
       ELSE Done("enable") /\ Frees("enable") /\ UNCHANGED row
    /\ UNCHANGED <<inst, current, fence, rescue, newest, lost, dropped, acts, faults>>

\* Delete asks for the fence at once, a disable when it has its turn; a taken fence is a conflict.
Fences(f) ==
    /\ \/ f = "delete" /\ In(f, "idle") /\ row.exists /\ Act
       \/ f = "disable" /\ In(f, "fence") /\ UNCHANGED acts
    /\ IF fence = "" THEN fence' = f /\ Next1(f, "stop") /\ UNCHANGED turn
       ELSE Done(f) /\ Frees(f) /\ UNCHANGED fence
    /\ UNCHANGED <<row, inst, current, rescue, newest, lost, dropped, faults>>

\* ma.stopping, accountLifecycle.stopContext and the cancellation of the run.
MarkStopped(i) == Go(i, IF Live(i) THEN "ending" ELSE "gone")

\* Manager.StopContext: nothing to stop, or mark it and wait for its tasks and its goroutine.
Stops(f) ==
    /\ In(f, "stop")
    /\ IF current = None THEN Next1(f, "stopped") /\ UNCHANGED inst
       ELSE flow' = [flow EXCEPT ![f] = [Idle EXCEPT !.pc = "wait", !.target = current]] /\ MarkStopped(current)
    /\ UNCHANGED <<row, current, fence, turn, rescue, newest, lost, dropped, acts, faults>>

\* Wrong: waits for its tasks only.
TasksEnded(i) == ~inst[i].late
Joined(i) == ~Live(i)

Waits(f) ==
    /\ In(f, "wait") /\ Joined(flow[f].target)
    /\ current' = IF current = flow[f].target THEN None ELSE current
    /\ Next1(f, "stopped")
    /\ UNCHANGED <<row, inst, fence, turn, rescue, newest, lost, dropped, acts, faults>>

\* A restart reads the row's value and goes on; a disable and a delete write the row.
Reads(f) ==
    /\ In(f, "stopped") /\ f \notin {"disable", "delete"}
    /\ row.exists
    /\ Next1(f, "start")
    /\ UNCHANGED <<row, inst, current, fence, turn, rescue, newest, lost, dropped, acts, faults>>

\* Wrong: does not look at the fence.
StartsBehindFence == current # None => ~Stopped(current)
CanStart == fence = "" /\ (current # None => ~Stopped(current))

\* Manager.Start: an instance that still runs is kept, one that has ended is replaced.
Starts(f) ==
    /\ In(f, "start") /\ CanStart
    /\ IF current # None /\ Live(current) THEN UNCHANGED <<inst, current>>
       ELSE \E i \in Insts : /\ At(i, "none") /\ \A j \in Insts : At(j, "none") => i <= j
                             /\ inst' = [inst EXCEPT ![i].pc = "made"]
                             /\ current' = i
    /\ Done(f) /\ Frees(f)
    /\ UNCHANGED <<row, fence, rescue, newest, lost, dropped, acts, faults>>

\* A restart fails: no row, a fence, an instance somebody else is stopping, a failed read, or the
\* end of the Context it runs with. An edit and an enable then write the account disabled, if they can.
Restarting(f) == f \in {"login", "edit", "enable", "late"} /\ flow[f].pc \in {"status", "stop", "wait", "stopped", "start"}

GivesUp(f) ==
    /\ \/ In(f, "stopped") /\ f \notin {"disable", "delete"} /\ ~row.exists /\ UNCHANGED <<row, faults>>
       \/ /\ In(f, "start") /\ ~CanStart /\ UNCHANGED faults
          /\ row' = IF f \in {"edit", "enable"} THEN [row EXCEPT !.enabled = FALSE] ELSE row
       \/ Restarting(f) /\ Fault /\ UNCHANGED row
       \/ In(f, "stopped") /\ f \in {"edit", "enable"} /\ Fault /\ row' = [row EXCEPT !.enabled = FALSE]
    /\ dropped' = (dropped \/ f \in {"login", "edit", "enable"})
    /\ Done(f) /\ Frees(f)
    /\ UNCHANGED <<inst, current, fence, rescue, newest, lost, acts>>

\* The request's or the five seconds' Context ends while the instance is still stopping.
StopTimesOut(f) ==
    /\ f \in {"disable", "delete"} /\ In(f, "wait") /\ Fault
    /\ Done(f) /\ Frees(f)
    /\ fence' = ""
    /\ UNCHANGED <<row, inst, current, rescue, newest, lost, dropped, acts>>

\* The row, then the fence: setStatusLocked or DeleteOwned, and EndStopping.
Disables ==
    /\ In("disable", "stopped")
    /\ row' = [row EXCEPT !.enabled = FALSE]
    /\ Next1("disable", "unfence")
    /\ UNCHANGED <<inst, current, fence, turn, rescue, newest, lost, dropped, acts, faults>>

Deletes ==
    /\ In("delete", "stopped")
    /\ row' = [row EXCEPT !.exists = FALSE]
    /\ Next1("delete", "unfence")
    /\ UNCHANGED <<inst, current, fence, turn, rescue, newest, lost, dropped, acts, faults>>

Unfences(f) ==
    /\ In(f, "unfence")
    /\ fence' = "" /\ Done(f) /\ Frees(f)
    /\ UNCHANGED <<row, inst, current, rescue, newest, lost, dropped, acts, faults>>

-----------------------------------------------------------------------------
\* Platform calls that answer with cookies: the scheduler's renewal and login check, an order's detail.

Calls(f) ==
    /\ f \in {"renew", "check", "order"} /\ In(f, "idle") /\ Act
    /\ row.exists /\ (f = "order" \/ row.enabled)
    /\ flow' = [flow EXCEPT ![f] = [@ EXCEPT !.pc = "call", !.cred = row.cred]]
    /\ UNCHANGED <<row, inst, current, fence, turn, rescue, newest, lost, dropped, faults>>

Unchanged(f) == row.cred = flow[f].cred

\* apiCookieRenewOne: disabled meanwhile, nothing; otherwise merge, save, restart; part of it may be late.
RenewAnswered ==
    /\ In("renew", "call")
    /\ \/ /\ Done("renew") /\ UNCHANGED <<row, lost>>
       \/ /\ GetStatus /\ Write(Rebased(flow["renew"].cred))
          /\ Next1("renew", "stop")
       \/ /\ GetStatus /\ In("late", "idle")
          /\ flow' = [flow EXCEPT !["renew"] = Idle, !["late"].pc = "call"]
          /\ UNCHANGED <<row, lost>>
    /\ UNCHANGED <<inst, current, fence, turn, rescue, newest, dropped, acts, faults>>

\* watchPendingAPIRenew: what arrives within 35 seconds is merged, and an enabled account restarted.
LateRenewed ==
    /\ In("late", "call")
    /\ \/ Done("late") /\ UNCHANGED <<row, lost>>
       \/ Write(row.cred.login) /\ Next1("late", "status")
    /\ UNCHANGED <<inst, current, fence, turn, rescue, newest, dropped, acts, faults>>

\* loginRenewOne and fetchOrderDetailAttempt: an answer to an old credential is dropped; an expired
\* session asks for a protocol renewal.
CallAnswered(f) ==
    /\ f \in {"check", "order"} /\ In(f, "call")
    /\ \/ Done(f) /\ UNCHANGED <<row, lost, rescue>>
       \/ /\ Unchanged(f) /\ (f = "order" \/ row.enabled)
          /\ Write(flow[f].cred.login) /\ UNCHANGED rescue
          /\ IF f = "check" THEN Next1(f, "stop") ELSE Done(f)
       \/ /\ row.exists /\ (f = "order" \/ row.enabled)
          /\ Next1(f, "rescue") /\ Ask(None)
          /\ UNCHANGED <<row, lost>>
    /\ UNCHANGED <<inst, current, fence, turn, newest, dropped, acts, faults>>

-----------------------------------------------------------------------------
Engine(i) ==
    \/ Prepare(i) \/ StartupRenewed(i) \/ Dial(i) \/ AskToken(i) \/ TokenAnswered(i) \/ AdoptToken(i)
    \/ SliderSolved(i) \/ BindToken(i) \/ Register(i) \/ Registered(i) \/ SessionEnds(i) \/ AskRescue(i) \/ Unwinds(i)

Carries(f) ==
    \/ StatusRead(f) \/ TakesTurn(f) \/ Stops(f) \/ Waits(f) \/ Reads(f) \/ Starts(f) \/ Unfences(f)
    \/ CallAnswered(f)
    \/ f = "disable" /\ ((Fences(f) /\ UNCHANGED acts) \/ Disables)
    \/ f = "enable" /\ Enables
    \/ f = "delete" /\ Deletes
    \/ f = "renew" /\ RenewAnswered
    \/ f = "late" /\ LateRenewed
    \/ GivesUp(f) /\ UNCHANGED faults

Next ==
    \/ \E i \in Insts : Engine(i) \/ LateAnswer(i)
    \/ RescueSaves \/ RescueEnds
    \/ \E f \in Flows : Saves(f) \/ SetStatus(f) \/ Fences(f) \/ Calls(f) \/ Carries(f) \/ GivesUp(f) \/ StopTimesOut(f)

\* A canceled run unwinds, every call returns, every session ends in a rotation at the latest, late
\* answers have 35 seconds, and a request goes on until it is done.
Fairness ==
    /\ \A i \in Insts : WF_vars(Engine(i)) /\ WF_vars(LateAnswer(i))
    /\ WF_vars(RescueEnds)
    /\ \A f \in Flows : WF_vars(Carries(f))

Spec == Init /\ [][Next]_vars /\ Fairness

-----------------------------------------------------------------------------
Creds == [login : 0 .. MaxStamp, stamp : 0 .. MaxStamp]

\* Every variable has its type.
TypeOK ==
    /\ row \in [exists : BOOLEAN, enabled : BOOLEAN, cred : Creds]
    /\ inst \in [Insts -> [pc : {"none", "made", "renew", "loop", "dialed", "token", "adopt", "solve", "expired",
                                 "rescue", "bind", "register", "registering", "online", "ending", "ended", "gone"},
                           cred : Creds, token : Creds, tries : 0 .. MaxTries, late : BOOLEAN]]
    /\ current \in Insts \cup {None}
    /\ fence \in {"", "disable", "delete"} /\ turn \in {"", "edit", "enable", "disable"}
    /\ rescue \in [busy : BOOLEAN, cred : Creds, by : Insts \cup {None}]
    /\ flow \in [Flows -> [pc : {"idle", "status", "turn", "enable", "fence", "stop", "wait", "stopped", "start",
                                 "unfence", "call", "rescue"},
                           cred : Creds, target : Insts \cup {None}]]
    /\ newest \in 1 .. MaxStamp /\ lost \in BOOLEAN /\ dropped \in BOOLEAN
    /\ acts \in 0 .. MaxActs /\ faults \in 0 .. MaxFaults

\* At no time do two instances of the account run, whoever restarts it and whenever the last one
\* was stopped: Manager.Start next to StopContext, Restart and instances that end by themselves.
OneLiveInstance == \A i, j \in Insts : Live(i) /\ Live(j) => i = j

ToRestart(f) == f \notin {"disable", "delete"} /\ flow[f].pc \in {"status", "turn", "stop"}

\* A session of an older login than the one a user saved last is being replaced: a
\* restart is still to come. Saved in the middle of a token refresh or a registration, the login must
\* be seen by the one check or the other. Unless the save was overwritten or its restart given up.
OldSessionIsReplaced ==
    \A i \in Insts : At(i, "online") /\ inst[i].token.login < newest
                       => lost \/ dropped \/ \E f \in Flows : ToRestart(f)

Unlocked(i) == AdoptToken(i) \/ SliderSolved(i)

\* Only the three places that write without the credential lock can put an older login over a newer
\* one: a renewal, a login check, an order's cookies or a late answer never does.
OnlyUnlockedWritesLose ==
    [][row'.cred.login < row.cred.login => RescueSaves \/ \E i \in Insts : Unlocked(i)]_vars

\* What a user saves is not replaced by an answer to an older credential.
LoginHolds == [][row'.cred.login >= row.cred.login]_vars

\* An account is online only while its row says it is enabled.
DisabledIsOffline == \A i \in Insts : At(i, "online") => GetStatus

\* The same as long as no restart was given up: neither a disable nor a delete, whatever restart,
\* renewal or connection is under way next to it, leaves a session behind.
NoSessionBehindDisable == DisabledIsOffline \/ dropped

\* A disabled or deleted account ends up without an instance, unless it is enabled again: whatever
\* restart was under way, and whatever its instance was waiting for.
DisabledGoesQuiet == ~GetStatus ~> (GetStatus \/ \A i \in Insts : ~Live(i))
=============================================================================
