---------------------------- MODULE BrainSupervisor ----------------------------
(***************************************************************************)
(* The supervisor of the Brain gateway: one child process of Node, the     *)
(* backend it calls back into, and everybody who starts, asks, restarts or *)
(* closes it.  Sources: internal/brainruntime/supervisor.go and            *)
(* process_helpers.go, application/brain/service.go and, for the process   *)
(* itself, brain/gateway/index.mjs.                                        *)
(*                                                                         *)
(* A generation is one start: the process, its token and its MCP backend.  *)
(* The status shown to the operator and the text of answers are left out.  *)
(***************************************************************************)
EXTENDS Naturals, FiniteSets

CONSTANTS
    Turns,        \* turns of the accounts, each asking the gateway once
    Admins,       \* requests of an administrator
    MaxGateways,  \* bound: generations
    MaxBrainFaults \* bound: crashes, failed launches, callers that give up

ASSUME BrainAssumption ==
    /\ MaxGateways \in Nat /\ MaxBrainFaults \in Nat
    /\ Turns \cap Admins = {} /\ {"main", ""} \cap (Turns \cup Admins) = {}

Callers     == Turns \cup Admins \cup {"main"}
Generations == 1 .. MaxGateways
None        == 0
Nobody      == ""

VARIABLES
    enabled,    \* the stored setting
    gateway,    \* the process of each generation
    waited,     \* generations whose waitProcess goroutine has finished
    process,    \* Supervisor.process: the registered generation, or None
    baseURL,    \* Supervisor.baseURL and token: the generation they lead to
    mcpServer,  \* Supervisor.mcpServer: the generation whose backend is registered
    intentionalStop,
    backends,   \* generations whose backend listens
    operationMu, \* who holds it
    call,       \* each caller: program point, operation, what follows the stop, generation, live context, result
    brainFaults

brainVars == <<enabled, gateway, waited, process, baseURL, mcpServer, intentionalStop, backends, operationMu, call, brainFaults>>

NoCall == [pc |-> "idle", op |-> "", next |-> "", gen |-> None, ctx |-> TRUE, ok |-> FALSE]

BrainInit ==
    /\ enabled = TRUE
    /\ gateway = [g \in Generations |-> "none"] /\ waited = {}
    /\ process = None /\ baseURL = None /\ mcpServer = None
    /\ intentionalStop = FALSE /\ backends = {} /\ operationMu = Nobody
    /\ call = [c \in Callers |-> NoCall] /\ brainFaults = 0

BrainFault == brainFaults < MaxBrainFaults /\ brainFaults' = brainFaults + 1

Alive(g)    == g # None /\ gateway[g] \in {"booting", "up", "draining"}
\* doJSON: the address is known, something listens there, and the caller still waits.
Answers(g, ctx) == g # None /\ ctx /\ gateway[g] \in {"up", "draining"}
AtWork(g)   == {c \in Callers : call[c].pc = "turn" /\ call[c].gen = g}

Go(c, pc)      == call' = [call EXCEPT ![c].pc = pc]
Return(c, ok)  == call' = [call EXCEPT ![c].pc = "done", ![c].ok = ok]
Unlock         == operationMu' = Nobody

-----------------------------------------------------------------------------
\* A call of Start, Reply, Restart or CloseContext begins; operationMu is waited for whatever becomes of the context.
\* The administrator's restart may follow the saving of new settings.
Call(c, op) ==
    /\ call[c].pc = "idle"
    /\ call' = [call EXCEPT ![c].pc = "lock", ![c].op = op]
    /\ enabled' \in IF op = "restart" THEN BOOLEAN ELSE {enabled}
    /\ UNCHANGED <<gateway, waited, process, baseURL, mcpServer, intentionalStop, backends, operationMu, brainFaults>>

Lock(c) ==
    /\ call[c].pc = "lock" /\ operationMu = Nobody
    /\ operationMu' = c
    /\ call' = [call EXCEPT ![c].pc = IF call[c].op \in {"restart", "close"} THEN "stop" ELSE "probe",
                            ![c].next = IF call[c].op = "close" THEN "end" ELSE "start"]
    /\ UNCHANGED <<enabled, gateway, waited, process, baseURL, mcpServer, intentionalStop, backends, brainFaults>>

\* Start: a gateway that answers is kept, one that does not is stopped first.
Probe(c) ==
    /\ call[c].pc = "probe"
    /\ \/ /\ process # None /\ Answers(baseURL, call[c].ctx)
          /\ Unlock
          /\ IF call[c].op = "reply" THEN Go(c, "post") ELSE Return(c, TRUE)
       \/ /\ process # None /\ ~Answers(baseURL, call[c].ctx)
          /\ Go(c, "stop") /\ UNCHANGED operationMu
       \/ /\ process = None
          /\ Go(c, "start") /\ UNCHANGED operationMu
    /\ UNCHANGED <<enabled, gateway, waited, process, baseURL, mcpServer, intentionalStop, backends, brainFaults>>

\* What follows a stop: the start of the next generation, success, or the error of the health check.
AfterStop(c, next) ==
    CASE next = "start" -> Go(c, "start") /\ UNCHANGED operationMu
      [] next = "end"   -> Return(c, TRUE) /\ Unlock
      [] next = "fail"  -> Return(c, FALSE) /\ Unlock

StopLocked(c) ==
    /\ call[c].pc = "stop"
    /\ \/ process = None /\ AfterStop(c, call[c].next) /\ UNCHANGED intentionalStop
       \/ /\ process # None
          /\ intentionalStop' = TRUE
          /\ call' = [call EXCEPT ![c].pc = "drain", ![c].gen = process]
          /\ UNCHANGED operationMu
    /\ UNCHANGED <<enabled, gateway, waited, process, baseURL, mcpServer, backends, brainFaults>>

\* The drain request, for as long as the context lasts; the health check's stop has a context of its own.
Drain(c) ==
    /\ call[c].pc = "drain"
    /\ \/ /\ Answers(baseURL, call[c].ctx \/ call[c].next = "fail")
          /\ gateway' = [gateway EXCEPT ![baseURL] = "draining"]
          /\ Go(c, "drained")
       \/ /\ ~Answers(baseURL, call[c].ctx \/ call[c].next = "fail")
          /\ Go(c, "reap") /\ UNCHANGED gateway
    /\ UNCHANGED <<enabled, waited, process, baseURL, mcpServer, intentionalStop, backends, operationMu, brainFaults>>

\* The gateway answers when its turns are over; the request is given up after its budget or with its context.
DrainReturns(c) ==
    /\ call[c].pc = "drained" /\ Go(c, "reap")
    /\ UNCHANGED <<enabled, gateway, waited, process, baseURL, mcpServer, intentionalStop, backends, operationMu, brainFaults>>

\* Wrong: a process that has not exited after three seconds is left alone.
WaitOnly(c) ==
    /\ call[c].pc = "reap" /\ Go(c, "clear")
    /\ UNCHANGED <<enabled, gateway, waited, process, baseURL, mcpServer, intentionalStop, backends, operationMu, brainFaults>>

\* The process has exited, or is killed after three seconds.
Reap(c) ==
    /\ call[c].pc = "reap"
    /\ gateway' = [gateway EXCEPT ![call[c].gen] = "dead"]
    /\ Go(c, "clear")
    /\ UNCHANGED <<enabled, waited, process, baseURL, mcpServer, intentionalStop, backends, operationMu, brainFaults>>

Clear(c) ==
    /\ call[c].pc = "clear"
    /\ backends' = backends \ {mcpServer}
    /\ process' = None /\ baseURL' = None /\ mcpServer' = None
    /\ AfterStop(c, call[c].next)
    /\ UNCHANGED <<enabled, gateway, waited, intentionalStop, brainFaults>>

-----------------------------------------------------------------------------
Unused == {g \in Generations : gateway[g] = "none"}
Fresh  == CHOOSE g \in Unused : \A h \in Unused : g <= h

\* startLocked up to command.Start: the settings and the key are read with the caller's context.  Where the
\* bound on generations is reached, the launch fails.
StartLocked(c) ==
    /\ call[c].pc = "start"
    /\ \/ /\ IF call[c].ctx /\ Unused # {} THEN BrainFault ELSE UNCHANGED brainFaults
          /\ Return(c, FALSE) /\ Unlock         \* settings, key, token, directory or launch fail
          /\ UNCHANGED <<gateway, backends>>
       \/ /\ call[c].ctx /\ ~enabled          \* nothing to start, and no error
          /\ Unlock
          /\ IF call[c].op = "reply" THEN Go(c, "post") ELSE Return(c, TRUE)
          /\ UNCHANGED <<gateway, backends, brainFaults>>
       \/ /\ call[c].ctx /\ enabled
          /\ Unused # {}
          /\ gateway' = [gateway EXCEPT ![Fresh] = "booting"]
          /\ backends' = backends \cup {Fresh}
          /\ call' = [call EXCEPT ![c].pc = "ready", ![c].gen = Fresh]
          /\ UNCHANGED <<operationMu, brainFaults>>
    /\ UNCHANGED <<enabled, waited, process, baseURL, mcpServer, intentionalStop>>

\* The gateway printed its receipt: it is registered and its exit is watched.
Register(c) ==
    /\ call[c].pc = "ready" /\ gateway[call[c].gen] = "up"
    /\ process' = call[c].gen /\ baseURL' = call[c].gen /\ mcpServer' = call[c].gen
    /\ intentionalStop' = FALSE
    /\ Go(c, "check")
    /\ UNCHANGED <<enabled, gateway, waited, backends, operationMu, brainFaults>>

\* waitReady fails: stdout closed, context gone, or the receipt too late or not the right one.
Discard(c) ==
    /\ call[c].pc = "ready"
    /\ \/ (~Alive(call[c].gen) \/ ~call[c].ctx) /\ UNCHANGED brainFaults
       \/ Alive(call[c].gen) /\ call[c].ctx /\ BrainFault
    /\ backends' = backends \ {call[c].gen}
    /\ gateway' = [gateway EXCEPT ![call[c].gen] = "dead"]
    /\ waited' = waited \cup {call[c].gen}
    /\ Return(c, FALSE) /\ Unlock
    /\ UNCHANGED <<enabled, process, baseURL, mcpServer, intentionalStop>>

\* The health check of the new gateway has a context of its own.
Check(c) ==
    /\ call[c].pc = "check"
    /\ \/ /\ Answers(baseURL, TRUE)
          /\ Unlock
          /\ IF call[c].op = "reply" THEN Go(c, "post") ELSE Return(c, TRUE)
       \/ /\ ~Answers(baseURL, TRUE)
          /\ call' = [call EXCEPT ![c].pc = "stop", ![c].next = "fail"] /\ UNCHANGED operationMu
    /\ UNCHANGED <<enabled, gateway, waited, process, baseURL, mcpServer, intentionalStop, backends, brainFaults>>

-----------------------------------------------------------------------------
\* Reply after Start: the gateway refuses while it drains, and nobody listens where none runs.
Post(c) ==
    /\ call[c].pc = "post"
    /\ \/ /\ Answers(baseURL, call[c].ctx) /\ gateway[baseURL] = "up"
          /\ call' = [call EXCEPT ![c].pc = "turn", ![c].gen = baseURL]
       \/ /\ ~(Answers(baseURL, call[c].ctx) /\ gateway[baseURL] = "up")
          /\ Return(c, FALSE)
    /\ UNCHANGED <<enabled, gateway, waited, process, baseURL, mcpServer, intentionalStop, backends, operationMu, brainFaults>>

\* The draft, an error of the gateway, or the loss of it or of the context.
TurnEnds(c) ==
    /\ call[c].pc = "turn"
    /\ \E ok \in BOOLEAN : /\ ok => Alive(call[c].gen) /\ call[c].ctx
                           /\ Return(c, ok)
    /\ UNCHANGED <<enabled, gateway, waited, process, baseURL, mcpServer, intentionalStop, backends, operationMu, brainFaults>>

\* The account stops, the turn's time is over, or the browser of the administrator goes away.
CancelCall(c) ==
    /\ call[c].pc \notin {"idle", "done"} /\ call[c].ctx /\ BrainFault
    /\ call' = [call EXCEPT ![c].ctx = FALSE]
    /\ UNCHANGED <<enabled, gateway, waited, process, baseURL, mcpServer, intentionalStop, backends, operationMu>>

-----------------------------------------------------------------------------
\* The process: it listens and says so, ends when drained, and may crash at any time.
GatewayReady(g) ==
    /\ gateway[g] = "booting" /\ gateway' = [gateway EXCEPT ![g] = "up"]
    /\ UNCHANGED <<enabled, waited, process, baseURL, mcpServer, intentionalStop, backends, operationMu, call, brainFaults>>

GatewayDrained(g) ==
    /\ gateway[g] = "draining" /\ AtWork(g) = {}
    /\ gateway' = [gateway EXCEPT ![g] = "dead"]
    /\ UNCHANGED <<enabled, waited, process, baseURL, mcpServer, intentionalStop, backends, operationMu, call, brainFaults>>

GatewayCrashes(g) ==
    /\ Alive(g) /\ BrainFault
    /\ gateway' = [gateway EXCEPT ![g] = "dead"]
    /\ UNCHANGED <<enabled, waited, process, baseURL, mcpServer, intentionalStop, backends, operationMu, call>>

\* Wrong: the backend of a gateway that crashed is forgotten, not closed.
WaitProcessOnly(g) ==
    /\ gateway[g] = "dead" /\ g \notin waited
    /\ \A c \in Callers : ~(call[c].pc = "ready" /\ call[c].gen = g)
    /\ waited' = waited \cup {g}
    /\ IF process # g \/ intentionalStop
       THEN UNCHANGED <<process, mcpServer>>
       ELSE process' = None /\ mcpServer' = None
    /\ UNCHANGED <<enabled, gateway, baseURL, intentionalStop, backends, operationMu, call, brainFaults>>

\* The goroutine of a registered generation, some time after the process is gone.
WaitProcess(g) ==
    /\ gateway[g] = "dead" /\ g \notin waited
    /\ \A c \in Callers : ~(call[c].pc = "ready" /\ call[c].gen = g)
    /\ waited' = waited \cup {g}
    /\ IF process # g \/ intentionalStop
       THEN UNCHANGED <<process, mcpServer, backends>>
       ELSE process' = None /\ mcpServer' = None /\ backends' = backends \ {mcpServer}
    /\ UNCHANGED <<enabled, gateway, baseURL, intentionalStop, operationMu, call, brainFaults>>

BrainStep(c) ==
    \/ Lock(c) \/ Probe(c) \/ StopLocked(c) \/ Drain(c) \/ DrainReturns(c) \/ Reap(c) \/ Clear(c)
    \/ StartLocked(c) \/ Register(c) \/ Discard(c) \/ Check(c) \/ Post(c) \/ TurnEnds(c)

GatewayStep(g) == GatewayReady(g) \/ GatewayDrained(g) \/ WaitProcess(g)

=============================================================================
