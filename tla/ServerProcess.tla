---------------------------- MODULE ServerProcess ----------------------------
(***************************************************************************)
(* The server process from its start to its exit: the HTTP server, the     *)
(* lifecycle coordinator and the components it starts in order and closes  *)
(* in reverse, with the Brain supervisor and the browser manager in full   *)
(* and the others by what their Start and Close wait for.                  *)
(* Sources: cmd/server/main.go, server/server.go,                          *)
(* application/lifecycle/coordinator.go, composition/runtime/runtime.go    *)
(* and composition/application_services.go.                                *)
(*                                                                         *)
(* The goroutines end with the process; a gateway it left behind does not. *)
(***************************************************************************)
EXTENDS BrainSupervisor, BrowserManager, Sequences

CONSTANTS
    MaxActs,    \* bound: turns, requests and recoveries begun
    Mixed       \* bound: recoveries in the behaviours that have turns or requests

ASSUME ProcessAssumption == MaxActs \in Nat /\ Mixed \in BOOLEAN

\* The order of registration; the schedulers, the notifier and the recoveries are "workers".
components == <<"browser", "accounts", "workers", "brain">>

VARIABLES
    main,       \* runServerLifecycle: program point, the component at hand, failed start, failed closes
    http,       \* Server: "bound", "serving", "closed" (httpDone), and whether Stop has begun
    lifecycleCtx, \* the context of the coordinator lives
    signalled,  \* the context of main has ended
    budget,     \* the context of the rollback or of the application's close
    running,    \* the started components whose goroutines run
    drained,    \* history: no request was in flight when the components began to close
    acts

vars == <<brainVars, browserVars, main, http, lifecycleCtx, signalled, budget, running, drained, acts>>

Init ==
    /\ BrainInit /\ BrowserInit
    /\ main = [pc |-> "start", at |-> 1, rollback |-> FALSE, errs |-> FALSE]
    /\ http = [state |-> "bound", stopped |-> FALSE]
    /\ lifecycleCtx = TRUE /\ signalled = FALSE /\ budget = "none"
    /\ running = {} /\ drained = TRUE /\ acts = 0

Component   == components[main.at]
InFlight    == {c \in Admins : call[c].pc \notin {"idle", "done"}}
Lives       == main.pc # "exit"
Begins      == Lives /\ acts < MaxActs /\ acts' = acts + 1

\* The contexts derived from the lifecycle's: the sessions, their turns and recoveries, and the start of the gateway.
LifecycleCalls == {c \in Turns \cup {"main"} : call[c].op \in {"reply", "start"}}
\* Wrong: the components are closed while the work of the sessions goes on.
EndOnlyLifecycle == lifecycleCtx' = FALSE /\ UNCHANGED <<call, recovery>>

EndLifecycleCtx ==
    /\ lifecycleCtx' = FALSE
    /\ call' = [c \in Callers |-> IF c \in LifecycleCalls THEN [call[c] EXCEPT !.ctx = FALSE] ELSE call[c]]
    /\ recovery' = [a \in Accounts |-> [recovery[a] EXCEPT !.ctx = FALSE]]

-----------------------------------------------------------------------------
\* Coordinator.Start: one component after the other; the one that fails is rolled back too.
Started ==
    main' = IF main.at < Len(components) THEN [main EXCEPT !.at = @ + 1]
            ELSE [main EXCEPT !.pc = "listen"]
RollBack == main' = [main EXCEPT !.pc = "cancel", !.rollback = TRUE]

StartBrowser ==
    /\ main.pc = "start" /\ Component = "browser"
    /\ InitializeContext(lifecycleCtx)
    /\ IF installed' = "yes" THEN Started /\ running' = running \cup {"browser"}
       ELSE RollBack /\ UNCHANGED running
    /\ UNCHANGED <<brainVars, http, lifecycleCtx, signalled, budget, drained, acts>>

\* StartAll reads the accounts with the context; the other components only start goroutines.
StartWorkers ==
    /\ main.pc = "start" /\ Component \in {"accounts", "workers"}
    /\ \/ /\ Component = "accounts" => lifecycleCtx
          /\ Started /\ running' = running \cup {Component}
       \/ /\ Component = "accounts" /\ ~lifecycleCtx
          /\ RollBack /\ UNCHANGED running
    /\ UNCHANGED <<brainVars, browserVars, http, lifecycleCtx, signalled, budget, drained, acts>>

StartBrain ==
    /\ main.pc = "start" /\ Component = "brain" /\ call["main"].pc = "idle"
    /\ call' = [call EXCEPT !["main"].pc = "lock", !["main"].op = "start", !["main"].ctx = lifecycleCtx]
    /\ UNCHANGED <<enabled, gateway, waited, process, baseURL, mcpServer, intentionalStop, backends, operationMu, brainFaults>>
    /\ UNCHANGED <<browserVars, main, http, lifecycleCtx, signalled, budget, running, drained, acts>>

BrainStarted ==
    /\ main.pc = "start" /\ Component = "brain" /\ call["main"].pc = "done"
    /\ IF call["main"].ok THEN Started /\ running' = running \cup {"brain"} ELSE RollBack /\ UNCHANGED running
    /\ call' = [call EXCEPT !["main"] = NoCall]
    /\ UNCHANGED <<enabled, gateway, waited, process, baseURL, mcpServer, intentionalStop, backends, operationMu, brainFaults>>
    /\ UNCHANGED <<browserVars, http, lifecycleCtx, signalled, budget, drained, acts>>

\* Server.Start, then Wait.
Serve ==
    /\ main.pc = "listen"
    /\ http' = [http EXCEPT !.state = "serving"] /\ main' = [main EXCEPT !.pc = "wait"]
    /\ UNCHANGED <<brainVars, browserVars, lifecycleCtx, signalled, budget, running, drained, acts>>

-----------------------------------------------------------------------------
\* SIGINT or SIGTERM.
Signal ==
    /\ Lives /\ ~signalled
    /\ signalled' = TRUE /\ EndLifecycleCtx
    /\ UNCHANGED <<enabled, gateway, waited, process, baseURL, mcpServer, intentionalStop, backends, operationMu, brainFaults>>
    /\ UNCHANGED <<installed, driver, closing, closed, inFlight, renewLocks, renewSlots>>
    /\ UNCHANGED <<main, http, budget, running, drained, acts>>

\* Wrong: nobody tells main that Serve has returned.
HttpStopsOnly ==
    /\ signalled /\ http.state = "serving" /\ ~http.stopped
    /\ http' = [http EXCEPT !.stopped = TRUE]
    /\ UNCHANGED <<brainVars, browserVars, main, lifecycleCtx, signalled, budget, running, drained, acts>>

\* The goroutine of Server.Start: Shutdown closes the listener, so Serve returns at once and closes httpDone.
HttpStops ==
    /\ signalled /\ http.state = "serving" /\ ~http.stopped
    /\ http' = [state |-> "closed", stopped |-> TRUE]
    /\ UNCHANGED <<brainVars, browserVars, main, lifecycleCtx, signalled, budget, running, drained, acts>>

\* Serve fails by itself.
ServeFails ==
    /\ http.state = "serving" /\ brainFaults < MaxBrainFaults /\ brainFaults' = brainFaults + 1
    /\ http' = [http EXCEPT !.state = "closed"]
    /\ UNCHANGED <<enabled, gateway, waited, process, baseURL, mcpServer, intentionalStop, backends, operationMu, call>>
    /\ UNCHANGED <<browserVars, main, lifecycleCtx, signalled, budget, running, drained, acts>>

\* Stop of closeServerRuntime waits for httpDone alone where a Stop has begun; where none has it drains the
\* requests, for ten seconds at most.
StopHttp ==
    /\ main.pc = "wait" /\ http.state = "closed"
    /\ http' = [http EXCEPT !.stopped = TRUE]
    /\ main' = [main EXCEPT !.pc = "cancel", !.errs = ~http.stopped /\ InFlight # {}]
    /\ UNCHANGED <<brainVars, browserVars, lifecycleCtx, signalled, budget, running, drained, acts>>

-----------------------------------------------------------------------------
\* Coordinator.Close and rollback: the context first, then the components in reverse under one budget.
CancelLifecycle ==
    /\ main.pc = "cancel" /\ main' = [main EXCEPT !.pc = "close"]
    /\ EndLifecycleCtx /\ budget' = "live" /\ drained' = (InFlight = {})
    /\ UNCHANGED <<enabled, gateway, waited, process, baseURL, mcpServer, intentionalStop, backends, operationMu, brainFaults>>
    /\ UNCHANGED <<installed, driver, closing, closed, inFlight, renewLocks, renewSlots>>
    /\ UNCHANGED <<http, signalled, running, acts>>

\* An error is kept and the next component closed all the same.
Closed(ok) ==
    main' = [main EXCEPT !.errs = @ \/ ~ok,
                         !.pc = IF main.at = 1 THEN "exit" ELSE "close",
                         !.at = IF main.at = 1 THEN 1 ELSE @ - 1]

CloseBrain ==
    /\ main.pc = "close" /\ Component = "brain" /\ call["main"].pc = "idle"
    /\ call' = [call EXCEPT !["main"].pc = "lock", !["main"].op = "close", !["main"].ctx = (budget = "live")]
    /\ UNCHANGED <<enabled, gateway, waited, process, baseURL, mcpServer, intentionalStop, backends, operationMu, brainFaults>>
    /\ UNCHANGED <<browserVars, main, http, lifecycleCtx, signalled, budget, running, drained, acts>>

BrainClosed ==
    /\ main.pc = "close" /\ Component = "brain" /\ call["main"].pc = "done"
    /\ Closed(call["main"].ok) /\ running' = running \ {"brain"}
    /\ call' = [call EXCEPT !["main"] = NoCall]
    /\ UNCHANGED <<enabled, gateway, waited, process, baseURL, mcpServer, intentionalStop, backends, operationMu, brainFaults>>
    /\ UNCHANGED <<browserVars, http, lifecycleCtx, signalled, budget, drained, acts>>

\* StopAllContext waits for the sessions with their turns and recoveries, WaitContext for the schedulers.
SessionsEnded ==
    /\ \A c \in Turns : call[c].pc \in {"idle", "done"}
    /\ \A a \in Accounts : recovery[a].pc \in {"idle", "done"}
CloseWorkers ==
    /\ main.pc = "close" /\ Component \in {"accounts", "workers"}
    /\ \/ /\ budget = "live" /\ (Component = "accounts" => SessionsEnded)
          /\ Closed(TRUE) /\ running' = running \ {Component}
       \/ /\ budget = "spent"
          /\ Closed(FALSE) /\ UNCHANGED running
    /\ UNCHANGED <<brainVars, browserVars, http, lifecycleCtx, signalled, budget, drained, acts>>

\* CloseContext of the browser: nothing is done with a spent budget.
CloseBrowsers ==
    /\ main.pc = "close" /\ Component = "browser"
    /\ \/ budget = "live" /\ ~closing /\ RefuseOperations /\ UNCHANGED <<main, running>>
       \/ closing /\ StopDriver /\ Closed(TRUE) /\ running' = running \ {"browser"}
       \/ budget = "spent" /\ Closed(FALSE) /\ UNCHANGED <<browserVars, running>>
    /\ UNCHANGED <<brainVars, http, lifecycleCtx, signalled, budget, drained, acts>>

BudgetSpent ==
    /\ main.pc = "close" /\ budget = "live" /\ budget' = "spent"
    /\ call' = [call EXCEPT !["main"].ctx = FALSE]
    /\ UNCHANGED <<enabled, gateway, waited, process, baseURL, mcpServer, intentionalStop, backends, operationMu, brainFaults>>
    /\ UNCHANGED <<browserVars, main, http, lifecycleCtx, signalled, running, drained, acts>>

-----------------------------------------------------------------------------
NoCalls      == \A c \in Turns \cup Admins : call[c].pc = "idle"
NoRecoveries == \A a \in Accounts : recovery[a].pc = "idle"

\* A session takes up a turn or a recovery while it accepts work; the API takes requests while it serves.
BeginTurn(c) ==
    /\ Begins /\ (Mixed \/ NoRecoveries)
    /\ "accounts" \in running /\ lifecycleCtx /\ Call(c, "reply")
    /\ UNCHANGED <<browserVars, main, http, lifecycleCtx, signalled, budget, running, drained>>
BeginRequest(c) ==
    /\ Begins /\ (Mixed \/ NoRecoveries)
    /\ http.state = "serving" /\ \E op \in {"reply", "restart"} : Call(c, op)
    /\ UNCHANGED <<browserVars, main, http, lifecycleCtx, signalled, budget, running, drained>>
BeginRecovery(a) ==
    /\ Begins /\ (Mixed \/ NoCalls)
    /\ "accounts" \in running /\ lifecycleCtx /\ Recover(a)
    /\ UNCHANGED <<brainVars, main, http, lifecycleCtx, signalled, budget, running, drained>>

CallStep(c) ==
    /\ Lives /\ BrainStep(c)
    /\ UNCHANGED <<browserVars, main, http, lifecycleCtx, signalled, budget, running, drained, acts>>
Cancel(c) ==
    /\ Lives /\ CancelCall(c)
    /\ UNCHANGED <<browserVars, main, http, lifecycleCtx, signalled, budget, running, drained, acts>>
ProcessStep(g) ==
    /\ Lives /\ GatewayStep(g)
    /\ UNCHANGED <<browserVars, main, http, lifecycleCtx, signalled, budget, running, drained, acts>>
Crash(g) ==
    /\ Lives /\ GatewayCrashes(g)
    /\ UNCHANGED <<browserVars, main, http, lifecycleCtx, signalled, budget, running, drained, acts>>
RecoveryStep(a) ==
    /\ Lives /\ BrowserStep(a)
    /\ UNCHANGED <<brainVars, main, http, lifecycleCtx, signalled, budget, running, drained, acts>>
Abandon(a) ==
    /\ Lives /\ CancelRecovery(a) /\ BrainFault
    /\ UNCHANGED <<enabled, gateway, waited, process, baseURL, mcpServer, intentionalStop, backends, operationMu, call>>
    /\ UNCHANGED <<main, http, lifecycleCtx, signalled, budget, running, drained, acts>>

MainStep ==
    \/ StartBrowser \/ StartWorkers \/ StartBrain \/ BrainStarted \/ Serve
    \/ StopHttp \/ CancelLifecycle \/ CloseBrain \/ BrainClosed \/ CloseWorkers \/ CloseBrowsers

Next ==
    \/ MainStep \/ Signal \/ HttpStops \/ ServeFails \/ BudgetSpent
    \/ \E c \in Turns : BeginTurn(c) \/ Cancel(c)
    \/ \E c \in Admins : BeginRequest(c) \/ Cancel(c)
    \/ \E c \in Callers : CallStep(c)
    \/ \E g \in Generations : ProcessStep(g) \/ Crash(g)
    \/ \E a \in Accounts : BeginRecovery(a) \/ RecoveryStep(a) \/ Abandon(a)

Spec == Init /\ [][Next]_vars

\* The goroutines and the gateway go on; a draining gateway ends its turns by its own timeouts.
FairSpec ==
    /\ Spec
    /\ WF_vars(MainStep) /\ WF_vars(HttpStops)
    /\ \A c \in Callers : WF_vars(CallStep(c))
    /\ \A g \in Generations : WF_vars(ProcessStep(g))
    /\ \A a \in Accounts : WF_vars(RecoveryStep(a))

-----------------------------------------------------------------------------
\* At no time do two gateways run, whoever starts, restarts or gives up (supervisor.go:263-445).
OneGateway == Cardinality({g \in Generations : Alive(g)}) <= 1

\* A backend that listens belongs to the registered gateway or to the one a start waits for: none is left
\* behind by a crash, a failed start or a stop, in whatever order the exit is noticed (process_helpers.go:19-41).
BackendHasOwner ==
    \A g \in backends : g = mcpServer \/ \E c \in Callers : call[c].pc = "ready" /\ call[c].gen = g

\* A shutdown that reports no error, and found no request in flight, leaves nothing behind: no gateway, no
\* backend, no browser of an account (main.go:509, coordinator.go:214-306).
CleanExit ==
    main.pc = "exit" /\ ~main.errs /\ drained =>
        /\ \A g \in Generations : ~Alive(g)
        /\ backends = {} /\ \A a \in Accounts : ~recovery[a].browser

\* After a signal the process ends, whatever the gateway, the sessions and the browser do.
ShutdownEnds == signalled ~> main.pc = "exit"

\* What supervisor.go:262 says of Start, and does not hold: a gateway that runs is not disturbed by another Start.
\* The caller that gave up while it waited for operationMu kills it, with the turns of the others.
StartDisturbsNobody ==
    [][\A c \in Callers : call[c].pc = "reap" /\ call[c].op \in {"reply", "start"} /\ call[c].next = "start"
            /\ gateway[call[c].gen] = "up" => gateway'[call[c].gen] = "up"]_vars

\* What main.go:532 says of the shutdown, and does not hold: requests are drained before the components close.
RequestsAreDrained == main.pc = "close" /\ ~main.errs => drained
=============================================================================
