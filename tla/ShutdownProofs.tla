--------------------------- MODULE ShutdownProofs ---------------------------
(***************************************************************************)
(* What the server process may leave running, for any number of accounts,  *)
(* requests, generations and disturbances: the workers of a refresh job    *)
(* (RefreshJobs), and the gateway, its backend and the browsers of the     *)
(* accounts (ServerProcess with the supervisor it extends).                *)
(***************************************************************************)
EXTENDS RefreshJobs, ServerProcess, FiniteSetTheorems, WellFoundedInduction, TLAPS

(* RefreshJobs. *)

Body == [pc : Bodies \cup {"none"}, live : BOOLEAN, out : {"succeeded", "failed"}]

\* A worker whose Context is not done is the registered one, and the process is up: StartJob
\* cancels whom it displaces, a worker that ends removes its own entry only, and the lifecycle
\* Context is canceled before Stop empties the registry.
LiveIsRegistered ==
    /\ workers \in [Tokens -> Body]
    /\ \A t \in Tokens : workers[t].live => registry = t /\ phase = "up"

\* Nobody gains a Context that is not done.
NoneRevived == /\ workers' \in [Tokens -> Body]
               /\ \A t \in Tokens : workers'[t].live => workers[t].live

LEMMA Calm == ASSUME LiveIsRegistered, NoneRevived, registry' = registry, phase' = phase
              PROVE  LiveIsRegistered'
BY DEF LiveIsRegistered, NoneRevived

LEMMA Untouched == ASSUME LiveIsRegistered, workers' = workers PROVE NoneRevived
BY DEF LiveIsRegistered, NoneRevived

\* StartJob: the new worker is registered, everybody else's Context is done.
LEMMA StartJobStep == ASSUME LiveIsRegistered, NEW t, StartJob(t), phase' = phase
                      PROVE  LiveIsRegistered'
<1>1. workers' \in [Tokens -> Body]
  BY DEF StartJob, LiveIsRegistered, Body, Bodies
<1>2. ASSUME NEW u \in Tokens, workers'[u].live PROVE registry' = u /\ phase' = "up"
  <2>1. CASE u = t BY <1>2, <2>1 DEF StartJob
  <2>2. CASE u # t /\ u = registry
    BY <1>2, <2>2 DEF StartJob, LiveIsRegistered, Body
  <2>3. CASE u # t /\ u # registry
    BY <1>2, <2>3 DEF StartJob, LiveIsRegistered
  <2>4. QED BY <2>1, <2>2, <2>3
<1>3. QED BY <1>1, <1>2 DEF LiveIsRegistered

LEMMA RequestsKeep == ASSUME LiveIsRegistered, Create \/ RequestSteps \/ RequestFails
                      PROVE  LiveIsRegistered'
<1>1. CASE Create \/ RequestClaim \/ RequestRelease \/ RequestFails
  BY <1>1, Calm, Untouched DEF Create, RequestClaim, RequestRelease, RequestFails
<1>2. CASE RequestStart
  BY <1>2, Calm, Untouched, StartJobStep DEF RequestStart
<1>3. QED BY <1>1, <1>2 DEF RequestSteps

LEMMA WorkersKeep == ASSUME LiveIsRegistered, NEW t \in Tokens,
                            WorkerStep(t) \/ SaveFails(t) \/ TimesOut(t)
                     PROVE  LiveIsRegistered'
<1> USE DEF LiveIsRegistered, NoneRevived, Body, Bodies
<1>1. CASE Refreshed(t)
  <2>1. PICK out \in {"succeeded", "failed"} :
           workers' = [workers EXCEPT ![t].pc = "save", ![t].out = out]
    BY <1>1 DEF Refreshed
  <2>2. NoneRevived BY <2>1
  <2>3. QED BY <1>1, <2>2, Calm DEF Refreshed
<1>2. CASE Save(t) \/ SaveFails(t)
  <2>1. workers' = [workers EXCEPT ![t].pc = "exit"] BY <1>2 DEF Save, SaveFails
  <2>2. NoneRevived BY <2>1
  <2>3. QED BY <1>2, <2>2, Calm DEF Save, SaveFails
<1>3. CASE TimesOut(t)
  <2>1. NoneRevived BY <1>3 DEF TimesOut
  <2>2. QED BY <1>3, <2>1, Calm DEF TimesOut
<1>4. CASE Exit(t)
  <2>1. workers' \in [Tokens -> Body] /\ ~workers'[t].live BY <1>4 DEF Exit
  <2>2. \A u \in Tokens : u # t => workers'[u] = workers[u] BY <1>4 DEF Exit
  <2>3. ASSUME NEW u \in Tokens, workers'[u].live PROVE registry' = u /\ phase' = "up"
    <3>1. u # t /\ workers[u].live BY <2>1, <2>2, <2>3
    <3>2. registry = u /\ phase = "up" BY <3>1
    <3>3. QED BY <1>4, <3>1, <3>2 DEF Exit, OwnsEntry
  <2>4. QED BY <2>1, <2>3
<1>5. QED BY <1>1, <1>2, <1>3, <1>4 DEF WorkerStep

LEMMA ScansKeep == ASSUME LiveIsRegistered, ScanStep \/ ScanFails PROVE LiveIsRegistered'
<1>1. CASE ScanList \/ ScanRequeue \/ ScanClaim \/ ScanFails \/ ScanEnds
  BY <1>1, Calm, Untouched DEF ScanList, ScanRequeue, ScanClaim, ScanFails, ScanEnds
<1>2. CASE ScanStart
  BY <1>2, Calm, Untouched, StartJobStep DEF ScanStart
<1>3. QED BY <1>1, <1>2 DEF ScanStep

LEMMA ProcessKeeps ==
    ASSUME LiveIsRegistered,
           \/ CancelRow \/ CancelWorker \/ LifecycleEnds \/ CloseReturns \/ ShutdownStep \/ ProcessCrash
           \/ LeaseLapses \/ LeaseCutShort
    PROVE  LiveIsRegistered'
<1> USE DEF LiveIsRegistered, NoneRevived, Body, Bodies
<1>1. CASE CancelRow \/ LeaseLapses \/ LeaseCutShort
  BY <1>1, Calm, Untouched DEF CancelRow, LeaseLapses, LeaseCutShort
<1>2. CASE CancelWorker
  <2>1. NoneRevived BY <1>2 DEF CancelWorker
  <2>2. QED BY <1>2, <2>1, Calm DEF CancelWorker
<1>3. CASE LifecycleEnds
  BY <1>3 DEF LifecycleEnds
<1>4. CASE Stop \/ CloseReturns \/ Boot
  BY <1>4 DEF Stop, CloseReturns, Boot
<1>5. CASE ProcessExits \/ ProcessCrash
  <2>1. workers' = [t \in Tokens |-> [workers[t] EXCEPT !.pc = "none", !.live = FALSE]]
    BY <1>5 DEF ProcessExits, ProcessCrash, ProcessDies
  <2>2. ASSUME NEW t \in Tokens PROVE workers'[t] \in Body /\ ~workers'[t].live
    <3>1. workers'[t] = [workers[t] EXCEPT !.pc = "none", !.live = FALSE] BY <2>1
    <3>2. workers[t] \in Body OBVIOUS
    <3>3. QED BY <3>1, <3>2
  <2>3. workers' \in [Tokens -> Body]
    <3> HIDE DEF Body
    <3>1. QED BY <2>1, <2>2
  <2>4. QED BY <2>2, <2>3
<1>6. QED BY <1>1, <1>2, <1>3, <1>4, <1>5 DEF ShutdownStep

\* The invariant holds in every behaviour.
THEOREM LiveIsRegisteredHolds == RefreshSpec => []LiveIsRegistered
<1>1. RefreshInit => LiveIsRegistered
  BY DEF RefreshInit, LiveIsRegistered, NoWorker, Body
<1>2. LiveIsRegistered /\ [RefreshNext]_refreshVars => LiveIsRegistered'
  <2>1. CASE UNCHANGED refreshVars BY <2>1 DEF refreshVars, LiveIsRegistered
  <2>2. CASE RefreshNext
    BY <2>2, RequestsKeep, WorkersKeep, ScansKeep, ProcessKeeps DEF RefreshNext
  <2>3. QED BY <2>1, <2>2
<1>3. QED BY <1>1, <1>2, PTL DEF RefreshSpec

\* Workers whose Context is not done work on the job one at a time, whatever recovers, displaces,
\* cancels or times out whom (StartJob, finishWorker, CancelJob).
THEOREM OneLiveWorkerHolds == RefreshSpec => []OneLiveWorker
<1>1. LiveIsRegistered => OneLiveWorker BY DEF LiveIsRegistered, OneLiveWorker
<1>2. QED BY <1>1, LiveIsRegisteredHolds, PTL

\* No statement of order_refresh_jobs.go touches a job that ended.
THEOREM OutcomeStaysHolds == RefreshSpec => OutcomeStays
<1>1. [RefreshNext]_refreshVars => [job.status \in Ended => job' = job]_refreshVars
  <2> SUFFICES ASSUME RefreshNext, job.status \in Ended PROVE job' = job
    BY DEF refreshVars
  <2> USE DEF Ended
  <2>1. CASE Create \/ RequestSteps \/ RequestFails
    BY <2>1 DEF Create, RequestSteps, RequestClaim, RequestStart, RequestRelease, RequestFails,
                CanClaim, Complete, CanComplete
  <2>2. CASE \E t \in Tokens : WorkerStep(t) \/ SaveFails(t) \/ TimesOut(t)
    BY <2>2 DEF WorkerStep, Refreshed, Save, Exit, SaveFails, TimesOut, Complete, CanComplete
  <2>3. CASE ScanStep \/ ScanFails
    BY <2>3 DEF ScanStep, ScanList, ScanRequeue, ScanClaim, ScanStart, ScanEnds, ScanFails,
                Lapsed, CanClaim
  <2>4. CASE \/ CancelRow \/ CancelWorker \/ LifecycleEnds \/ CloseReturns \/ ShutdownStep
             \/ ProcessCrash \/ LeaseLapses \/ LeaseCutShort
    BY <2>4 DEF CancelRow, CancelWorker, LifecycleEnds, CloseReturns, ShutdownStep, Stop,
                ProcessExits, Boot, ProcessCrash, ProcessDies, LeaseLapses, LeaseCutShort
  <2>5. QED BY <2>1, <2>2, <2>3, <2>4 DEF RefreshNext
<1>2. QED BY <1>1, PTL DEF RefreshSpec, OutcomeStays

-----------------------------------------------------------------------------
\* The goroutines Close waits for: the workers with a body, and the recovery loop.
Running == {t \in Tokens : workers[t].pc \in Bodies}

\* runner.active counts at least them, and where Close returned or the process is gone there are none: a later request
\* is refused, and only a new process has a loop again.
Counted ==
    /\ scan = [pc |-> scan.pc, token |-> scan.token] /\ request = [pc |-> request.pc, token |-> request.token]
    /\ active \in Int
    /\ active >= Cardinality(Running) + (IF scan.pc = "off" THEN 0 ELSE 1)
    /\ phase \in {"closed", "down"} => scan.pc = "off" /\ Running = {}
    /\ phase = "down" => request.pc \notin {"claim", "start"}

LEMMA RunningFinite == \A S \in SUBSET Tokens : IsFiniteSet(S) /\ Cardinality(S) \in Nat
<1>1. IsFiniteSet(Tokens)
  BY RefreshAssumption, FS_Interval DEF Tokens, MaxClaims
<1>2. QED BY <1>1, FS_Subset, FS_CardinalityType

\* No goroutine begins or ends, and the process stays in its phase.
LEMMA NoneBegins ==
    ASSUME Counted, Running' = Running, active' = active, phase' = phase \/ phase' \notin {"closed", "down"},
           scan' = [pc |-> scan'.pc, token |-> scan'.token], scan'.pc = "off" <=> scan.pc = "off",
           request' = [pc |-> request'.pc, token |-> request'.token],
           request'.pc = request.pc \/ request'.pc \notin {"claim", "start"} \/ phase # "down", phase' = "down" => phase = "down"
    PROVE  Counted'
BY RunningFinite DEF Counted

\* StartJob: at most one goroutine more, and one is counted.
LEMMA StartCounted ==
    ASSUME Counted, LiveIsRegistered, NEW t, StartJob(t), phase' = phase, phase \notin {"closed", "down"},
           scan' = [pc |-> scan'.pc, token |-> scan'.token], scan'.pc = "off" <=> scan.pc = "off",
           request' = [pc |-> request'.pc, token |-> request'.token]
    PROVE  Counted'
<1>1. Running' \subseteq Running \cup {t}
  <2>1. \A u \in Tokens : u # t => workers'[u].pc = workers[u].pc
    BY DEF StartJob, LiveIsRegistered, Body
  <2>2. QED BY <2>1 DEF Running
<1>2. Running' \in SUBSET Tokens /\ Running \in SUBSET Tokens BY DEF Running
<1>3. Cardinality(Running') <= Cardinality(Running) + 1
  <2>1. IsFiniteSet(Running) /\ Cardinality(Running) \in Nat BY <1>2, RunningFinite
  <2>2. IsFiniteSet(Running \cup {t}) /\ Cardinality(Running \cup {t}) <= Cardinality(Running) + 1
    BY <2>1, FS_AddElement
  <2>3. Cardinality(Running') <= Cardinality(Running \cup {t}) BY <1>1, <2>2, FS_Subset
  <2>4. Cardinality(Running \cup {t}) \in Nat /\ Cardinality(Running') \in Nat
    BY <1>2, <2>2, RunningFinite, FS_CardinalityType
  <2>5. QED BY <2>1, <2>2, <2>3, <2>4
<1>4. active' = active + 1 BY DEF StartJob
<1>5. Cardinality(Running) \in Nat /\ Cardinality(Running') \in Nat BY <1>2, RunningFinite
<1>6. QED BY <1>3, <1>4, <1>5 DEF Counted

LEMMA RequestsCounted == ASSUME Counted, LiveIsRegistered, Create \/ RequestSteps \/ RequestFails PROVE Counted'
<1>1. CASE RequestStart /\ ~Refuses
  <2>1. StartJob(request.token) /\ phase' = phase /\ phase \notin {"closed", "down"} /\ scan' = scan
        /\ request' = [request EXCEPT !.pc = "told"]
    BY <1>1 DEF RequestStart, Refuses, Counted
  <2>2. QED BY <2>1, StartCounted DEF Counted
<1>2. CASE ~(RequestStart /\ ~Refuses)
  <2>1. Running' = Running /\ active' = active /\ phase' = phase /\ scan' = scan
    BY <1>2 DEF Create, RequestSteps, RequestClaim, RequestStart, RequestRelease, RequestFails, Running
  <2>2. /\ request' = [pc |-> request'.pc, token |-> request'.token]
        /\ request'.pc = request.pc \/ request'.pc \notin {"claim", "start"} \/ phase # "down"
    BY <1>2 DEF Create, RequestSteps, RequestClaim, RequestStart, RequestRelease, RequestFails, Counted
  <2>3. QED BY <2>1, <2>2, NoneBegins DEF Counted
<1>3. QED BY <1>1, <1>2

LEMMA WorkersCounted ==
    ASSUME Counted, LiveIsRegistered, NEW t \in Tokens, WorkerStep(t) \/ SaveFails(t) \/ TimesOut(t) PROVE Counted'
<1>1. scan' = scan /\ request' = request /\ phase' = phase
  BY DEF WorkerStep, Refreshed, Save, Exit, SaveFails, TimesOut
<1>2. CASE Exit(t)
  <2>1. t \in Running /\ active' = active - 1 BY <1>2 DEF Exit, Running, Bodies
  <2>2. workers'[t].pc = "none" /\ \A u \in Tokens : u # t => workers'[u] = workers[u]
    BY <1>2 DEF Exit, LiveIsRegistered, Body
  <2>3. Running' = Running \ {t} BY <2>2 DEF Running, Bodies
  <2>4. Running \in SUBSET Tokens BY DEF Running
  <2>5. Cardinality(Running') = Cardinality(Running) - 1 /\ Cardinality(Running) \in Nat
    BY <2>1, <2>3, <2>4, RunningFinite, FS_RemoveElement
  <2>6. QED BY <1>1, <2>1, <2>3, <2>5 DEF Counted
<1>3. CASE ~Exit(t)
  <2>1. active' = active BY <1>3 DEF WorkerStep, Refreshed, Save, SaveFails, TimesOut
  <2>2. /\ \A u \in Tokens : u # t => workers'[u].pc = workers[u].pc
        /\ workers[t].pc \in Bodies /\ workers'[t].pc \in Bodies
    BY <1>3 DEF WorkerStep, Refreshed, Save, SaveFails, TimesOut, LiveIsRegistered, Body, Bodies
  <2>3. Running' = Running BY <2>2 DEF Running
  <2>4. QED BY <1>1, <2>1, <2>3, NoneBegins DEF Counted
<1>4. QED BY <1>2, <1>3

LEMMA ScansCounted == ASSUME Counted, LiveIsRegistered, ScanStep \/ ScanFails PROVE Counted'
<1>1. request' = request /\ phase' = phase
  BY DEF ScanStep, ScanList, ScanRequeue, ScanClaim, ScanStart, ScanEnds, ScanFails
<1>2. CASE ScanStart /\ ~Refuses
  <2>1. StartJob(scan.token) /\ phase \notin {"closed", "down"} /\ scan' = [scan EXCEPT !.pc = "idle"]
    BY <1>2 DEF ScanStart, Refuses, Counted
  <2>2. scan.pc = "start" /\ scan'.pc = "idle" /\ scan' = [pc |-> scan'.pc, token |-> scan'.token]
    BY <1>2, <2>1 DEF ScanStart, Counted
  <2>3. QED BY <1>1, <2>1, <2>2, StartCounted DEF Counted
<1>3. CASE ScanEnds
  <2>1. Running' = Running /\ active' = active - 1 /\ scan.pc = "idle" BY <1>3 DEF ScanEnds, Running
  <2>2. scan' = [pc |-> "off", token |-> scan.token] BY <1>3 DEF ScanEnds, Counted
  <2>3. Cardinality(Running) \in Nat BY RunningFinite DEF Running
  <2>4. QED BY <1>1, <2>1, <2>2, <2>3 DEF Counted
<1>4. CASE ScanList \/ ScanRequeue \/ ScanClaim \/ ScanFails \/ (ScanStart /\ Refuses)
  <2>1. Running' = Running /\ active' = active
    BY <1>4 DEF ScanList, ScanRequeue, ScanClaim, ScanStart, ScanFails, Running
  <2>2. scan' = [pc |-> scan'.pc, token |-> scan'.token] /\ scan'.pc # "off" /\ scan.pc # "off"
    BY <1>4 DEF ScanList, ScanRequeue, ScanClaim, ScanStart, ScanFails, Counted
  <2>3. QED BY <1>1, <2>1, <2>2, NoneBegins DEF Counted
<1>5. QED BY <1>2, <1>3, <1>4 DEF ScanStep

LEMMA ProcessCounted ==
    ASSUME Counted, LiveIsRegistered,
           \/ CancelRow \/ CancelWorker \/ LifecycleEnds \/ CloseReturns \/ ShutdownStep \/ ProcessCrash
           \/ LeaseLapses \/ LeaseCutShort
    PROVE  Counted'
<1>1. CASE CancelRow \/ CancelWorker \/ LifecycleEnds \/ Stop \/ LeaseLapses \/ LeaseCutShort
  <2>1. /\ active' = active /\ scan' = scan /\ request' = request
        /\ phase' = phase \/ phase' \notin {"closed", "down"}
    BY <1>1 DEF CancelRow, CancelWorker, LifecycleEnds, Stop, LeaseLapses, LeaseCutShort
  <2>2. \A t \in Tokens : workers'[t].pc = workers[t].pc
    BY <1>1 DEF CancelRow, CancelWorker, LifecycleEnds, Stop, LeaseLapses, LeaseCutShort, LiveIsRegistered, Body
  <2>3. Running' = Running BY <2>2 DEF Running
  <2>4. QED BY <2>1, <2>3, NoneBegins DEF Counted
<1>2. CASE CloseReturns
  <2>1. Running' = Running /\ active' = active /\ scan' = scan /\ request' = request /\ active = 0 /\ phase' = "closed"
    BY <1>2 DEF CloseReturns, Running
  <2>2. Running \in SUBSET Tokens BY DEF Running
  <2>3. IsFiniteSet(Running) /\ Cardinality(Running) \in Nat BY <2>2, RunningFinite
  <2>4. Cardinality(Running) = 0 /\ scan.pc = "off" BY <2>1, <2>3 DEF Counted
  <2>5. Running = {} BY <2>3, <2>4, FS_EmptySet
  <2>6. QED BY <2>1, <2>4, <2>5 DEF Counted
<1>3. CASE ProcessExits \/ ProcessCrash
  <2>1. ProcessDies BY <1>3 DEF ProcessExits, ProcessCrash
  <2>2. \A t \in Tokens : workers'[t].pc = "none" BY <2>1 DEF ProcessDies, LiveIsRegistered, Body
  <2>3. Running' = {} BY <2>2 DEF Running, Bodies
  <2>4. Cardinality(Running') = 0 BY <2>3, FS_EmptySet
  <2>5. scan' = [pc |-> "off", token |-> scan.token] /\ active' = 0 /\ phase' = "down"
    BY <2>1 DEF ProcessDies, Counted
  <2>6. request' = [pc |-> request'.pc, token |-> request'.token] /\ request'.pc \notin {"claim", "start"}
    BY <2>1 DEF ProcessDies, Counted
  <2>7. QED BY <2>3, <2>4, <2>5, <2>6 DEF Counted
<1>4. CASE Boot
  <2>1. Running' = Running /\ phase = "down" /\ phase' = "up" /\ active' = 1 /\ request' = request
    BY <1>4 DEF Boot, Running
  <2>2. scan' = [pc |-> "idle", token |-> scan.token] BY <1>4 DEF Boot, Counted
  <2>3. Cardinality(Running') = 0 BY <2>1, FS_EmptySet DEF Counted
  <2>4. QED BY <2>1, <2>2, <2>3 DEF Counted
<1>5. QED BY <1>1, <1>2, <1>3, <1>4 DEF ShutdownStep

THEOREM CountedHolds == RefreshSpec => []Counted
<1>1. RefreshInit => Counted
  <2> SUFFICES ASSUME RefreshInit PROVE Counted OBVIOUS
  <2>1. Running = {} BY DEF RefreshInit, NoWorker, Running, Bodies
  <2>2. Cardinality(Running) = 0 BY <2>1, FS_EmptySet
  <2>3. QED BY <2>1, <2>2 DEF RefreshInit, Counted
<1>2. Counted /\ LiveIsRegistered /\ [RefreshNext]_refreshVars => Counted'
  <2>1. ASSUME Counted, UNCHANGED refreshVars PROVE Counted' BY <2>1 DEF Counted, refreshVars, Running
  <2>2. ASSUME Counted, LiveIsRegistered, RefreshNext PROVE Counted'
    BY <2>2, RequestsCounted, WorkersCounted, ScansCounted, ProcessCounted DEF RefreshNext
  <2>3. QED BY <2>1, <2>2
<1>3. QED BY <1>1, <1>2, LiveIsRegisteredHolds, PTL DEF RefreshSpec

\* Where Close returned without error nothing runs and nothing will (Stop, finishWorker, finishRecovery).
THEOREM ClosedIsQuietHolds == RefreshSpec => []ClosedIsQuiet
<1>1. Counted /\ LiveIsRegistered => ClosedIsQuiet
  BY DEF Counted, ClosedIsQuiet, Running, LiveIsRegistered, Body
<1>2. QED BY <1>1, CountedHolds, LiveIsRegisteredHolds, PTL

-----------------------------------------------------------------------------
(* BrainSupervisor: who owns a gateway. *)

Points == {"idle", "lock", "probe", "stop", "drain", "drained", "reap", "clear", "start", "ready", "check", "post", "turn", "done"}
Inside == {"probe", "stop", "drain", "drained", "reap", "clear", "start", "ready", "check"}
CallRec == [pc : Points, op : {"", "reply", "restart", "start", "close"}, next : {"", "start", "end", "fail"},
            gen : 0 .. MaxGateways, ctx : BOOLEAN, ok : BOOLEAN]

\* The registered generation is the one its backend and, while it is registered, its address belong to.
BrainTypes ==
    /\ call \in [Callers -> CallRec]
    /\ gateway \in [Generations -> {"none", "booting", "up", "draining", "dead"}]
    /\ process \in 0 .. MaxGateways /\ baseURL \in 0 .. MaxGateways /\ mcpServer = process /\ (process # None => baseURL = process)
    /\ backends \subseteq Generations

\* operationMu is held from the probe to the end of the start or the stop.
Mutex == \A c \in Callers : call[c].pc \in Inside <=> operationMu = c

Ready(g) == \E c \in Callers : call[c].pc = "ready" /\ call[c].gen = g
Owned    == \A g \in Generations : Alive(g) \/ g \in backends => g = process \/ Ready(g)

\* What the holder of operationMu knows of the generation it works on.
PointOf(c) ==
    /\ call[c].pc \in {"drain", "drained", "reap", "clear"} => call[c].gen = process /\ process # None /\ intentionalStop
    /\ call[c].pc = "clear" => gateway[process] = "dead"
    /\ call[c].pc \in {"start", "ready"} => process = None
    /\ call[c].pc \in Inside => call[c].next # ""
    /\ call[c].op = "close" /\ call[c].pc \notin {"idle", "lock"}
       => call[c].next = "end" /\ call[c].pc \in {"stop", "drain", "drained", "reap", "clear", "done"}

AllPoints == \A c \in Callers : PointOf(c)
BrainInv  == BrainTypes /\ Mutex /\ Owned /\ AllPoints

OthersWait(c) == \A d \in Callers : d # c => call'[d] = call[d]
Calls         == call' \in [Callers -> CallRec]

LEMMA CallFields ==
    /\ \A r \in CallRec, pc \in Points : [r EXCEPT !.pc = pc] \in CallRec
    /\ \A r \in CallRec, op \in {"reply", "restart", "start", "close"} : [r EXCEPT !.op = op] \in CallRec
    /\ \A r \in CallRec, next \in {"", "start", "end", "fail"} : [r EXCEPT !.next = next] \in CallRec
    /\ \A r \in CallRec, gen \in 0 .. MaxGateways : [r EXCEPT !.gen = gen] \in CallRec
    /\ \A r \in CallRec, ctx \in BOOLEAN : [r EXCEPT !.ctx = ctx] \in CallRec
    /\ \A r \in CallRec, ok \in BOOLEAN : [r EXCEPT !.ok = ok] \in CallRec
<1>1. \A r \in CallRec, pc \in Points : [r EXCEPT !.pc = pc] \in CallRec BY Zenon DEF CallRec
<1>2. \A r \in CallRec, op \in {"reply", "restart", "start", "close"} : [r EXCEPT !.op = op] \in CallRec BY Zenon DEF CallRec
<1>3. \A r \in CallRec, next \in {"", "start", "end", "fail"} : [r EXCEPT !.next = next] \in CallRec BY Zenon DEF CallRec
<1>4. \A r \in CallRec, gen \in 0 .. MaxGateways : [r EXCEPT !.gen = gen] \in CallRec BY Zenon DEF CallRec
<1>5. \A r \in CallRec, ctx \in BOOLEAN : [r EXCEPT !.ctx = ctx] \in CallRec BY Zenon DEF CallRec
<1>6. \A r \in CallRec, ok \in BOOLEAN : [r EXCEPT !.ok = ok] \in CallRec BY Zenon DEF CallRec
<1>7. QED BY <1>1, <1>2, <1>3, <1>4, <1>5, <1>6

\* One caller's record is replaced.
LEMMA OneCall ==
    ASSUME BrainTypes, NEW c \in Callers, NEW r \in CallRec, call' = [call EXCEPT ![c] = r]
    PROVE  Calls /\ OthersWait(c) /\ call'[c] = r
BY DEF BrainTypes, Calls, OthersWait

LEMMA GoIs ==
    ASSUME BrainTypes, NEW c \in Callers, NEW pc \in Points, Go(c, pc)
    PROVE  /\ Calls /\ OthersWait(c) /\ call'[c].pc = pc /\ call'[c].op = call[c].op /\ call'[c].next = call[c].next
           /\ call'[c].gen = call[c].gen /\ call'[c].ctx = call[c].ctx
<1> DEFINE r == [call[c] EXCEPT !.pc = pc]
<1>1. call' = [call EXCEPT ![c] = r] BY DEF Go
<1>2. call[c] \in CallRec BY DEF BrainTypes
<1>3. r \in CallRec BY <1>2, CallFields
<1>4. r.pc = pc /\ r.op = call[c].op /\ r.next = call[c].next /\ r.gen = call[c].gen /\ r.ctx = call[c].ctx
  BY <1>2 DEF CallRec
<1> HIDE DEF r
<1>5. Calls /\ OthersWait(c) /\ call'[c] = r BY <1>1, <1>3, OneCall
<1>6. QED BY <1>4, <1>5

LEMMA ReturnIs ==
    ASSUME BrainTypes, NEW c \in Callers, NEW ok \in BOOLEAN, Return(c, ok)
    PROVE  /\ Calls /\ OthersWait(c) /\ call'[c].pc = "done" /\ call'[c].op = call[c].op /\ call'[c].next = call[c].next
           /\ call'[c].ctx = call[c].ctx
<1> DEFINE s == [call[c] EXCEPT !.pc = "done"]
           r == [s EXCEPT !.ok = ok]
<1>1. call' = [call EXCEPT ![c] = r] BY DEF Return, BrainTypes
<1>2. call[c] \in CallRec BY DEF BrainTypes
<1>3. s \in CallRec BY <1>2, CallFields DEF Points
<1>4. s.pc = "done" /\ s.op = call[c].op /\ s.next = call[c].next /\ s.ctx = call[c].ctx BY <1>2 DEF CallRec
<1> HIDE DEF s
<1>5. r \in CallRec BY <1>3, CallFields
<1>6. r.pc = s.pc /\ r.op = s.op /\ r.next = s.next /\ r.ctx = s.ctx BY <1>3 DEF CallRec
<1> HIDE DEF r
<1>7. Calls /\ OthersWait(c) /\ call'[c] = r BY <1>1, <1>5, OneCall
<1>8. QED BY <1>4, <1>6, <1>7

LEMMA NextIs ==
    ASSUME BrainTypes, NEW c \in Callers, NEW pc \in Points, NEW next \in {"", "start", "end", "fail"},
           call' = [call EXCEPT ![c].pc = pc, ![c].next = next]
    PROVE  /\ Calls /\ OthersWait(c) /\ call'[c].pc = pc /\ call'[c].op = call[c].op /\ call'[c].next = next
           /\ call'[c].gen = call[c].gen /\ call'[c].ctx = call[c].ctx
<1> DEFINE s == [call[c] EXCEPT !.pc = pc]
           r == [s EXCEPT !.next = next]
<1>1. call' = [call EXCEPT ![c] = r] BY DEF BrainTypes
<1>2. call[c] \in CallRec BY DEF BrainTypes
<1>3. s \in CallRec BY <1>2, CallFields
<1>4. s.pc = pc /\ s.op = call[c].op /\ s.gen = call[c].gen /\ s.ctx = call[c].ctx BY <1>2 DEF CallRec
<1> HIDE DEF s
<1>5. r \in CallRec BY <1>3, CallFields
<1>6. r.pc = s.pc /\ r.op = s.op /\ r.next = next /\ r.gen = s.gen /\ r.ctx = s.ctx BY <1>3 DEF CallRec
<1> HIDE DEF r
<1>7. Calls /\ OthersWait(c) /\ call'[c] = r BY <1>1, <1>5, OneCall
<1>8. QED BY <1>4, <1>6, <1>7

LEMMA GenIs ==
    ASSUME BrainTypes, NEW c \in Callers, NEW pc \in Points, NEW gen \in 0 .. MaxGateways,
           call' = [call EXCEPT ![c].pc = pc, ![c].gen = gen]
    PROVE  /\ Calls /\ OthersWait(c) /\ call'[c].pc = pc /\ call'[c].op = call[c].op /\ call'[c].next = call[c].next
           /\ call'[c].gen = gen /\ call'[c].ctx = call[c].ctx
<1> DEFINE s == [call[c] EXCEPT !.pc = pc]
           r == [s EXCEPT !.gen = gen]
<1>1. call' = [call EXCEPT ![c] = r] BY DEF BrainTypes
<1>2. call[c] \in CallRec BY DEF BrainTypes
<1>3. s \in CallRec BY <1>2, CallFields
<1>4. s.pc = pc /\ s.op = call[c].op /\ s.next = call[c].next /\ s.ctx = call[c].ctx BY <1>2 DEF CallRec
<1> HIDE DEF s
<1>5. r \in CallRec BY <1>3, CallFields
<1>6. r.pc = s.pc /\ r.op = s.op /\ r.next = s.next /\ r.gen = gen /\ r.ctx = s.ctx BY <1>3 DEF CallRec
<1> HIDE DEF r
<1>7. Calls /\ OthersWait(c) /\ call'[c] = r BY <1>1, <1>5, OneCall
<1>8. QED BY <1>4, <1>6, <1>7

\* What a caller's step does to the others: without a context it begins no gateway, and a close that ends leaves none.
Moves(c) ==
    /\ OthersWait(c) /\ call[c].pc \notin {"idle", "done"} /\ call'[c].pc # "idle"
    /\ call'[c].op = call[c].op /\ call'[c].ctx = call[c].ctx
    /\ ~call[c].ctx /\ process = None /\ call[c].pc # "ready" => process' = None /\ call'[c].pc # "ready"
    /\ call[c].op = "close" /\ call'[c].pc = "done" => process' = None /\ call[c].pc \in Inside

\* operationMu stays the caller's, or is taken or given back by it alone.
Hand(c) == /\ call'[c].pc \in Inside <=> operationMu' = c
           /\ operationMu' = operationMu \/ (operationMu = Nobody /\ operationMu' = c) \/ (operationMu = c /\ operationMu' = Nobody)

LEMMA SomeGeneration == \A k \in 0 .. MaxGateways : k # None => k \in Generations
<1>1. MaxGateways \in Nat BY BrainAssumption
<1>2. \A n \in Nat : \A k \in 0 .. n : k # 0 => k \in 1 .. n OBVIOUS
<1>3. QED BY <1>1, <1>2 DEF None, Generations

LEMMA NobodyCalls == Nobody \notin Callers
BY BrainAssumption DEF Nobody, Callers

LEMMA MutexStays ==
    ASSUME Mutex, NEW c \in Callers, OthersWait(c), Hand(c)
    PROVE  Mutex'
BY NobodyCalls DEF Mutex, Hand, OthersWait

\* While one is inside nobody else is.
LEMMA Alone == ASSUME Mutex, NEW c \in Callers, call[c].pc \in Inside PROVE \A d \in Callers : d # c => call[d].pc \notin Inside
BY DEF Mutex

LEMMA PointsStay ==
    ASSUME AllPoints, NEW c \in Callers, OthersWait(c), PointOf(c)',
           \/ UNCHANGED <<process, gateway>> /\ (intentionalStop' = intentionalStop \/ intentionalStop' = TRUE)
           \/ \A d \in Callers : d # c => call[d].pc \notin Inside
    PROVE  AllPoints'
<1> SUFFICES ASSUME NEW d \in Callers PROVE PointOf(d)' BY DEF AllPoints
<1>1. CASE d = c BY <1>1
<1>2. CASE d # c
  <2>1. call'[d] = call[d] /\ PointOf(d) BY <1>2 DEF OthersWait, AllPoints
  <2>2. CASE UNCHANGED <<process, gateway>> /\ (intentionalStop' = intentionalStop \/ intentionalStop' = TRUE)
    BY <2>1, <2>2 DEF PointOf
  <2>3. CASE call[d].pc \notin Inside BY <2>1, <2>3 DEF PointOf, Inside
  <2>4. QED BY <1>2, <2>2, <2>3
<1>3. QED BY <1>1, <1>2

\* Steps that leave the gateways and their registration alone.
LEMMA SameGateways ==
    ASSUME BrainInv, NEW c \in Callers, Calls, OthersWait(c), Hand(c), PointOf(c)', call[c].pc # "ready",
           UNCHANGED <<gateway, process, baseURL, mcpServer, backends>>, intentionalStop' = intentionalStop \/ intentionalStop' = TRUE
    PROVE  BrainInv'
<1>1. BrainTypes' BY DEF BrainInv, BrainTypes, Calls
<1>2. Mutex' BY MutexStays DEF BrainInv
<1>3. AllPoints' BY PointsStay DEF BrainInv
<1>4. \A g \in Generations : Ready(g) => Ready(g)'
  <2> SUFFICES ASSUME NEW g \in Generations, NEW d \in Callers, call[d].pc = "ready", call[d].gen = g PROVE Ready(g)'
    BY DEF Ready
  <2>1. call'[d] = call[d] BY DEF OthersWait
  <2>2. QED BY <2>1 DEF Ready
<1>5. Owned' BY <1>4 DEF BrainInv, Owned, Alive
<1>6. QED BY <1>1, <1>2, <1>3, <1>5 DEF BrainInv

LEMMA LockMoves == ASSUME BrainInv, NEW c \in Callers, Lock(c) PROVE BrainInv' /\ Moves(c)
<1> DEFINE pc   == IF call[c].op \in {"restart", "close"} THEN "stop" ELSE "probe"
           next == IF call[c].op = "close" THEN "end" ELSE "start"
<1>1. call' = [call EXCEPT ![c].pc = pc, ![c].next = next] BY DEF Lock
<1>2. pc \in {"stop", "probe"} /\ (call[c].op = "close" => pc = "stop" /\ next = "end") /\ next \in {"start", "end"} OBVIOUS
<1> HIDE DEF pc, next
<1>3. pc \in Points /\ next \in {"", "start", "end", "fail"} BY <1>2 DEF Points
<1>4. /\ Calls /\ OthersWait(c) /\ call'[c].pc = pc /\ call'[c].op = call[c].op /\ call'[c].next = next
      /\ call'[c].ctx = call[c].ctx
  BY <1>1, <1>3, NextIs DEF BrainInv
<1>5. operationMu = Nobody /\ operationMu' = c /\ call[c].pc = "lock" BY DEF Lock
<1>6. Hand(c) BY <1>2, <1>4, <1>5 DEF Hand, Inside
<1>7. PointOf(c)' BY <1>2, <1>4 DEF PointOf
<1>8. BrainInv' BY <1>4, <1>5, <1>6, <1>7, SameGateways DEF Lock
<1>9. Moves(c) BY <1>2, <1>4, <1>5, <1>8 DEF Moves, Lock
<1>10. QED BY <1>8, <1>9

\* The caller goes on inside, or gives operationMu back and asks or returns.
LEMMA InsideMoves ==
    ASSUME BrainInv, NEW c \in Callers, call[c].pc \in Inside \ {"ready"},
           UNCHANGED <<gateway, process, baseURL, mcpServer, backends, intentionalStop>>,
           \/ \E pc \in {"stop", "reap", "drained"} : Go(c, pc) /\ operationMu' = operationMu /\ (pc # "stop" => PointOf(c)')
           \/ Go(c, "start") /\ process = None /\ operationMu' = operationMu
           \/ (Go(c, "post") \/ \E ok \in BOOLEAN : Return(c, ok)) /\ Unlock,
           call[c].op = "close" => /\ call[c].next = "end" /\ call'[c].pc \in {"stop", "reap", "drained", "done"}
                                   /\ (call'[c].pc = "done" => process = None)
    PROVE  BrainInv' /\ Moves(c)
<1>1. operationMu = c BY DEF BrainInv, Mutex
<1>a. call[c].next # "" BY DEF BrainInv, AllPoints, PointOf
<1>2. CASE \E pc \in {"stop", "reap", "drained"} : Go(c, pc) /\ operationMu' = operationMu /\ (pc # "stop" => PointOf(c)')
  <2>1. PICK pc \in {"stop", "reap", "drained"} : Go(c, pc) /\ operationMu' = operationMu /\ (pc # "stop" => PointOf(c)')
    BY <1>2
  <2>2. pc \in Points BY DEF Points
  <2>3. /\ Calls /\ OthersWait(c) /\ call'[c].pc = pc /\ call'[c].op = call[c].op /\ call'[c].next = call[c].next
        /\ call'[c].ctx = call[c].ctx
    BY <2>1, <2>2, GoIs DEF BrainInv
  <2>4. Hand(c) BY <1>1, <2>1, <2>3 DEF Hand, Inside
  <2>5. PointOf(c)' BY <1>a, <2>1, <2>3 DEF PointOf, Inside
  <2>6. BrainInv' BY <2>3, <2>4, <2>5, SameGateways
  <2>7. Moves(c) BY <2>3 DEF Moves, Inside
  <2>8. QED BY <2>6, <2>7
<1>3. CASE Go(c, "start") /\ process = None /\ operationMu' = operationMu
  <2>1. "start" \in Points BY DEF Points
  <2>2. /\ Calls /\ OthersWait(c) /\ call'[c].pc = "start" /\ call'[c].op = call[c].op /\ call'[c].next = call[c].next
        /\ call'[c].ctx = call[c].ctx
    BY <1>3, <2>1, GoIs DEF BrainInv
  <2>3. Hand(c) BY <1>1, <1>3, <2>2 DEF Hand, Inside
  <2>4. PointOf(c)' BY <1>a, <1>3, <2>2 DEF PointOf
  <2>5. BrainInv' BY <2>2, <2>3, <2>4, SameGateways
  <2>6. Moves(c) BY <1>3, <2>2 DEF Moves, Inside
  <2>7. QED BY <2>5, <2>6
<1>4. CASE (Go(c, "post") \/ \E ok \in BOOLEAN : Return(c, ok)) /\ Unlock
  <2>1. "post" \in Points BY DEF Points
  <2>2. /\ Calls /\ OthersWait(c) /\ call'[c].pc \in {"post", "done"} /\ call'[c].op = call[c].op /\ call'[c].next = call[c].next
        /\ call'[c].ctx = call[c].ctx /\ (call'[c].pc = "post" => Go(c, "post"))
    BY <1>4, <2>1, GoIs, ReturnIs DEF BrainInv
  <2>3. Hand(c) BY <1>1, <1>4, <2>2, NobodyCalls DEF Hand, Inside, Unlock
  <2>4. PointOf(c)' BY <2>2 DEF PointOf, Inside
  <2>5. BrainInv' BY <2>2, <2>3, <2>4, SameGateways
  <2>6. Moves(c) BY <1>4, <2>2 DEF Moves, Inside
  <2>7. QED BY <2>5, <2>6
<1>5. QED BY <1>2, <1>3, <1>4

LEMMA ProbeMoves == ASSUME BrainInv, NEW c \in Callers, Probe(c) PROVE BrainInv' /\ Moves(c)
<1>1. /\ call[c].pc \in Inside \ {"ready"} /\ call[c].pc = "probe"
      /\ UNCHANGED <<gateway, process, baseURL, mcpServer, backends, intentionalStop>>
  BY DEF Probe, Inside
<1>2. call[c].op # "close" BY <1>1 DEF BrainInv, AllPoints, PointOf
<1>3. \/ Go(c, "stop") /\ operationMu' = operationMu
      \/ Go(c, "start") /\ process = None /\ operationMu' = operationMu
      \/ (Go(c, "post") \/ Return(c, TRUE)) /\ Unlock
  BY DEF Probe
<1>4. QED BY <1>1, <1>2, <1>3, InsideMoves

LEMMA CheckMoves == ASSUME BrainInv, NEW c \in Callers, Check(c) PROVE BrainInv' /\ Moves(c)
<1>1. /\ call[c].pc \in Inside \ {"ready"} /\ call[c].pc = "check"
      /\ UNCHANGED <<gateway, process, baseURL, mcpServer, backends, intentionalStop>>
  BY DEF Check, Inside
<1>2. call[c].op # "close" BY <1>1 DEF BrainInv, AllPoints, PointOf
<1>3. CASE (Go(c, "post") \/ Return(c, TRUE)) /\ Unlock BY <1>1, <1>2, <1>3, InsideMoves
<1>4. CASE call' = [call EXCEPT ![c].pc = "stop", ![c].next = "fail"] /\ UNCHANGED operationMu
  <2>1. "stop" \in Points BY DEF Points
  <2>2. /\ Calls /\ OthersWait(c) /\ call'[c].pc = "stop" /\ call'[c].op = call[c].op /\ call'[c].next = "fail"
        /\ call'[c].ctx = call[c].ctx
    BY <1>4, <2>1, NextIs DEF BrainInv
  <2>3. operationMu = c BY <1>1 DEF BrainInv, Mutex
  <2>4. Hand(c) BY <1>4, <2>2, <2>3 DEF Hand, Inside
  <2>5. PointOf(c)' BY <1>2, <2>2 DEF PointOf
  <2>6. BrainInv' BY <1>1, <2>2, <2>4, <2>5, SameGateways
  <2>7. Moves(c) BY <1>1, <1>2, <2>2 DEF Moves
  <2>8. QED BY <2>6, <2>7
<1>5. QED BY <1>3, <1>4 DEF Check

LEMMA StopMoves == ASSUME BrainInv, NEW c \in Callers, StopLocked(c) PROVE BrainInv' /\ Moves(c)
<1>1. /\ call[c].pc \in Inside \ {"ready"} /\ call[c].pc = "stop" /\ operationMu = c
      /\ UNCHANGED <<gateway, process, baseURL, mcpServer, backends>>
  BY DEF StopLocked, Inside, BrainInv, Mutex
<1>2. call[c].next # "" /\ (call[c].op = "close" => call[c].next = "end") BY <1>1 DEF BrainInv, AllPoints, PointOf
<1>3. CASE process = None /\ AfterStop(c, call[c].next) /\ UNCHANGED intentionalStop
  <2>1. call[c].next \in {"start", "end", "fail"}
    BY <1>1 DEF BrainInv, BrainTypes, CallRec, AllPoints, PointOf
  <2>2. CASE call[c].next = "start"
    <3>1. Go(c, "start") /\ operationMu' = operationMu BY <1>3, <2>2 DEF AfterStop
    <3>2. QED BY <1>1, <1>2, <1>3, <2>2, <3>1, InsideMoves
  <2>3. CASE call[c].next \in {"end", "fail"}
    <3>1. (\E ok \in BOOLEAN : Return(c, ok)) /\ Unlock BY <1>3, <2>3 DEF AfterStop
    <3>2. call'[c].pc = "done" BY <3>1, ReturnIs DEF BrainInv
    <3>3. QED BY <1>1, <1>2, <1>3, <3>1, <3>2, InsideMoves
  <2>4. QED BY <2>1, <2>2, <2>3
<1>4. CASE process # None /\ intentionalStop' = TRUE /\ call' = [call EXCEPT ![c].pc = "drain", ![c].gen = process]
           /\ operationMu' = operationMu
  <2>1. "drain" \in Points /\ process \in 0 .. MaxGateways BY DEF Points, BrainInv, BrainTypes
  <2>2. /\ Calls /\ OthersWait(c) /\ call'[c].pc = "drain" /\ call'[c].op = call[c].op /\ call'[c].next = call[c].next
        /\ call'[c].gen = process /\ call'[c].ctx = call[c].ctx
    BY <1>4, <2>1, GenIs DEF BrainInv
  <2>3. Hand(c) BY <1>1, <1>4, <2>2 DEF Hand, Inside
  <2>4. PointOf(c)' BY <1>1, <1>2, <1>4, <2>2 DEF PointOf
  <2>5. BrainInv' BY <1>1, <1>4, <2>2, <2>3, <2>4, SameGateways
  <2>6. Moves(c) BY <1>1, <1>4, <2>2 DEF Moves
  <2>7. QED BY <2>5, <2>6
<1>5. QED BY <1>3, <1>4 DEF StopLocked

\* What holds a gateway or a backend stays where the gateways' life and the registration do.
LEMMA OwnersStay ==
    ASSUME Owned, NEW c \in Callers, OthersWait(c), call[c].pc # "ready",
           \A g \in Generations : Alive(g)' => Alive(g), backends' \subseteq backends, process' = process
    PROVE  Owned'
<1>1. \A g \in Generations : Ready(g) => Ready(g)'
  <2> SUFFICES ASSUME NEW g \in Generations, NEW d \in Callers, call[d].pc = "ready", call[d].gen = g PROVE Ready(g)'
    BY DEF Ready
  <2>1. call'[d] = call[d] BY DEF OthersWait
  <2>2. QED BY <2>1 DEF Ready
<1>2. QED BY <1>1 DEF Owned

LEMMA DrainMoves == ASSUME BrainInv, NEW c \in Callers, Drain(c) PROVE BrainInv' /\ Moves(c)
<1>1. /\ call[c].pc = "drain" /\ call[c].pc \in Inside /\ operationMu = c
      /\ UNCHANGED <<process, baseURL, mcpServer, intentionalStop, backends, operationMu>>
  BY DEF Drain, Inside, BrainInv, Mutex
<1>2. PICK pc \in {"drained", "reap"} : Go(c, pc) BY DEF Drain
<1>3. pc \in Points BY DEF Points
<1>4. /\ Calls /\ OthersWait(c) /\ call'[c].pc = pc /\ call'[c].op = call[c].op /\ call'[c].next = call[c].next
      /\ call'[c].gen = call[c].gen /\ call'[c].ctx = call[c].ctx
  BY <1>2, <1>3, GoIs DEF BrainInv
<1>5. Hand(c) BY <1>1, <1>4 DEF Hand, Inside
<1>6. PointOf(c) BY DEF BrainInv, AllPoints
<1>7. PointOf(c)' BY <1>1, <1>4, <1>6 DEF PointOf, Inside
<1>8. gateway' = gateway \/ (gateway' = [gateway EXCEPT ![baseURL] = "draining"] /\ gateway[baseURL] \in {"up", "draining"})
  BY DEF Drain, Answers
<1>9. BrainTypes' BY <1>1, <1>4, <1>8 DEF BrainInv, BrainTypes, Calls
<1>10. \A g \in Generations : Alive(g)' => Alive(g) BY <1>8 DEF Alive, BrainInv, BrainTypes
<1>11. Owned' BY <1>1, <1>4, <1>10, OwnersStay DEF BrainInv
<1>12. Mutex' BY <1>4, <1>5, MutexStays DEF BrainInv
<1>13. AllPoints' BY <1>1, <1>4, <1>7, Alone, PointsStay DEF BrainInv
<1>14. Moves(c) BY <1>1, <1>4 DEF Moves
<1>15. QED BY <1>9, <1>11, <1>12, <1>13, <1>14 DEF BrainInv

LEMMA DrainedMoves == ASSUME BrainInv, NEW c \in Callers, DrainReturns(c) PROVE BrainInv' /\ Moves(c)
<1>1. /\ call[c].pc \in Inside \ {"ready"} /\ call[c].pc = "drained" /\ Go(c, "reap")
      /\ UNCHANGED <<gateway, process, baseURL, mcpServer, backends, intentionalStop, operationMu>>
  BY DEF DrainReturns, Inside
<1>2. "reap" \in Points BY DEF Points
<1>3. PointOf(c) BY DEF BrainInv, AllPoints
<1>4. /\ call'[c].pc = "reap" /\ call'[c].op = call[c].op /\ call'[c].next = call[c].next /\ call'[c].gen = call[c].gen
  BY <1>1, <1>2, GoIs DEF BrainInv
<1>5. PointOf(c)' BY <1>1, <1>3, <1>4 DEF PointOf, Inside
<1>6. call[c].op = "close" => call[c].next = "end" BY <1>1, <1>3 DEF PointOf
<1>7. QED BY <1>1, <1>4, <1>5, <1>6, InsideMoves

LEMMA ReapMoves == ASSUME BrainInv, NEW c \in Callers, Reap(c) PROVE BrainInv' /\ Moves(c)
<1>1. /\ call[c].pc = "reap" /\ call[c].pc \in Inside /\ operationMu = c /\ Go(c, "clear")
      /\ UNCHANGED <<process, baseURL, mcpServer, intentionalStop, backends, operationMu>>
      /\ gateway' = [gateway EXCEPT ![call[c].gen] = "dead"]
  BY DEF Reap, Inside, BrainInv, Mutex
<1>2. "clear" \in Points BY DEF Points
<1>3. /\ Calls /\ OthersWait(c) /\ call'[c].pc = "clear" /\ call'[c].op = call[c].op /\ call'[c].next = call[c].next
      /\ call'[c].gen = call[c].gen /\ call'[c].ctx = call[c].ctx
  BY <1>1, <1>2, GoIs DEF BrainInv
<1>4. Hand(c) BY <1>1, <1>3 DEF Hand, Inside
<1>5. PointOf(c) /\ process \in Generations
  <2>1. PointOf(c) BY DEF BrainInv, AllPoints
  <2>2. process # None /\ process \in 0 .. MaxGateways BY <1>1, <2>1 DEF PointOf, BrainInv, BrainTypes
  <2>3. QED BY <2>1, <2>2, SomeGeneration
<1>6. gateway'[process] = "dead" /\ \A g \in Generations : gateway'[g] = gateway[g] \/ gateway'[g] = "dead"
  BY <1>1, <1>5 DEF PointOf, BrainInv, BrainTypes
<1>7. PointOf(c)' BY <1>1, <1>3, <1>5, <1>6 DEF PointOf, Inside
<1>8. BrainTypes' BY <1>1, <1>3 DEF BrainInv, BrainTypes, Calls
<1>9. \A g \in Generations : Alive(g)' => Alive(g) BY <1>6 DEF Alive
<1>10. Owned' BY <1>1, <1>3, <1>9, OwnersStay DEF BrainInv
<1>11. Mutex' BY <1>3, <1>4, MutexStays DEF BrainInv
<1>12. AllPoints' BY <1>1, <1>3, <1>7, Alone, PointsStay DEF BrainInv
<1>13. Moves(c) BY <1>1, <1>3 DEF Moves
<1>14. QED BY <1>8, <1>10, <1>11, <1>12, <1>13 DEF BrainInv

\* A step that gives the registration up, or takes it, while only the one caller is inside.
LEMMA ReadyIsAlone ==
    ASSUME BrainInv, NEW c \in Callers, call[c].pc \in Inside, NEW g \in Generations, Ready(g)
    PROVE  call[c].pc = "ready" /\ call[c].gen = g
<1>1. PICK d \in Callers : call[d].pc = "ready" /\ call[d].gen = g BY DEF Ready
<1>2. d = c BY <1>1, Alone DEF BrainInv, Inside
<1>3. QED BY <1>1, <1>2

LEMMA NoneIsNone == None \in 0 .. MaxGateways /\ None \notin Generations /\ Generations \subseteq 0 .. MaxGateways
<1>1. MaxGateways \in Nat BY BrainAssumption
<1>2. \A n \in Nat : 0 \in 0 .. n /\ 0 \notin 1 .. n /\ 1 .. n \subseteq 0 .. n OBVIOUS
<1>3. QED BY <1>1, <1>2 DEF None, Generations

LEMMA ClearMoves == ASSUME BrainInv, NEW c \in Callers, Clear(c) PROVE BrainInv' /\ Moves(c)
<1>1. /\ call[c].pc = "clear" /\ call[c].pc \in Inside /\ operationMu = c
      /\ backends' = backends \ {mcpServer} /\ process' = None /\ baseURL' = None /\ mcpServer' = None
      /\ UNCHANGED <<gateway, intentionalStop>> /\ AfterStop(c, call[c].next)
  BY DEF Clear, Inside, BrainInv, Mutex
<1>2. PointOf(c) BY DEF BrainInv, AllPoints
<1>3. call[c].next \in {"start", "end", "fail"} BY <1>1, <1>2 DEF PointOf, BrainInv, BrainTypes, CallRec
<1>4. /\ Calls /\ OthersWait(c) /\ call'[c].pc \in {"start", "done"} /\ call'[c].op = call[c].op /\ call'[c].next = call[c].next
      /\ call'[c].ctx = call[c].ctx /\ (call[c].next = "end" => call'[c].pc = "done") /\ Hand(c)
  <2>1. CASE call[c].next = "start"
    <3>1. Go(c, "start") /\ operationMu' = operationMu BY <1>1, <2>1 DEF AfterStop
    <3>2. "start" \in Points BY DEF Points
    <3>3. QED BY <1>1, <2>1, <3>1, <3>2, GoIs DEF BrainInv, Hand, Inside
  <2>2. CASE call[c].next \in {"end", "fail"}
    <3>1. (\E ok \in BOOLEAN : Return(c, ok)) /\ operationMu' = Nobody BY <1>1, <2>2 DEF AfterStop, Unlock
    <3>2. QED BY <1>1, <3>1, ReturnIs, NobodyCalls DEF BrainInv, Hand, Inside
  <2>3. QED BY <1>3, <2>1, <2>2
<1>5. BrainTypes' BY <1>1, <1>4, NoneIsNone DEF BrainInv, BrainTypes, Calls
<1>6. PointOf(c)' BY <1>1, <1>2, <1>3, <1>4 DEF PointOf
<1>7. AllPoints' BY <1>1, <1>4, <1>6, Alone, PointsStay DEF BrainInv
<1>8. Mutex' BY <1>4, MutexStays DEF BrainInv
<1>9. Owned'
  <2> SUFFICES ASSUME NEW g \in Generations, Alive(g)' \/ g \in backends' PROVE FALSE BY DEF Owned
  <2>1. Alive(g) \/ g \in backends BY <1>1 DEF Alive
  <2>2. ~Ready(g) BY <1>1, ReadyIsAlone
  <2>3. g = process BY <2>1, <2>2 DEF BrainInv, Owned
  <2>4. mcpServer = process /\ gateway[process] = "dead" BY <1>1, <1>2 DEF PointOf, BrainInv, BrainTypes
  <2>5. QED BY <1>1, <2>3, <2>4 DEF Alive
<1>10. Moves(c) BY <1>1, <1>2, <1>4 DEF Moves, PointOf
<1>11. QED BY <1>5, <1>7, <1>8, <1>9, <1>10 DEF BrainInv

\* The next generation is one that was never used.
LEMMA FreshIs == ASSUME Unused # {} PROVE Fresh \in Unused
<1>1. MaxGateways \in Nat BY BrainAssumption
<1>2. \A n \in Nat : 1 .. n \subseteq Nat OBVIOUS
<1>3. Unused \subseteq Nat BY <1>1, <1>2 DEF Unused, Generations
<1>4. PICK x \in Unused : \A y \in Unused : ~(<<y, x>> \in OpToRel(<, Nat)) BY <1>3, NatLessThanWellFounded, WFMin
<1>5. \A y \in Unused : x \in Nat /\ y \in Nat BY <1>3
<1>6. \A y \in Unused : ~(y < x) BY <1>4, <1>5 DEF OpToRel
<1>7. \A y \in Unused : x <= y BY <1>5, <1>6
<1>8. QED BY <1>7 DEF Fresh

LEMMA StartMoves == ASSUME BrainInv, NEW c \in Callers, StartLocked(c) PROVE BrainInv' /\ Moves(c)
<1>1. /\ call[c].pc = "start" /\ call[c].pc \in Inside \ {"ready"} /\ operationMu = c
      /\ UNCHANGED <<process, baseURL, mcpServer, intentionalStop>>
  BY DEF StartLocked, Inside, BrainInv, Mutex
<1>2. PointOf(c) BY DEF BrainInv, AllPoints
<1>3. call[c].op # "close" /\ process = None BY <1>1, <1>2 DEF PointOf
<1>4. CASE UNCHANGED <<gateway, backends>> /\ (Go(c, "post") \/ \E ok \in BOOLEAN : Return(c, ok)) /\ Unlock
  BY <1>1, <1>3, <1>4, InsideMoves
<1>5. CASE /\ call[c].ctx /\ Unused # {} /\ gateway' = [gateway EXCEPT ![Fresh] = "booting"]
           /\ backends' = backends \cup {Fresh} /\ operationMu' = operationMu
           /\ call' = [call EXCEPT ![c].pc = "ready", ![c].gen = Fresh]
  <2> DEFINE g == Fresh
  <2>1. g \in Generations /\ g \in 0 .. MaxGateways BY <1>5, FreshIs, NoneIsNone DEF Unused
  <2>2. call' = [call EXCEPT ![c].pc = "ready", ![c].gen = g] /\ gateway' = [gateway EXCEPT ![g] = "booting"]
        /\ backends' = backends \cup {g}
    BY <1>5
  <2> HIDE DEF g
  <2>3. "ready" \in Points BY DEF Points
  <2>4. /\ Calls /\ OthersWait(c) /\ call'[c].pc = "ready" /\ call'[c].op = call[c].op /\ call'[c].next = call[c].next
        /\ call'[c].gen = g /\ call'[c].ctx = call[c].ctx
    BY <2>1, <2>2, <2>3, GenIs DEF BrainInv
  <2>5. Hand(c) BY <1>1, <1>5, <2>4 DEF Hand, Inside
  <2>6. BrainTypes' BY <1>1, <2>1, <2>2, <2>4 DEF BrainInv, BrainTypes, Calls
  <2>7. PointOf(c)' BY <1>1, <1>2, <1>3, <2>4 DEF PointOf, Inside
  <2>8. AllPoints' BY <1>1, <2>4, <2>7, Alone, PointsStay DEF BrainInv
  <2>9. Mutex' BY <2>4, <2>5, MutexStays DEF BrainInv
  <2>10. Owned'
    <3> SUFFICES ASSUME NEW h \in Generations, Alive(h)' \/ h \in backends' PROVE Ready(h)' BY DEF Owned
    <3>1. CASE h = g BY <2>4, <3>1 DEF Ready
    <3>2. CASE h # g
      <4>1. Alive(h) \/ h \in backends BY <2>2, <3>2 DEF Alive, BrainInv, BrainTypes
      <4>2. ~Ready(h) BY <1>1, ReadyIsAlone
      <4>3. h = process BY <4>1, <4>2 DEF BrainInv, Owned
      <4>4. QED BY <1>3, <4>3, NoneIsNone
    <3>3. QED BY <3>1, <3>2
  <2>11. Moves(c) BY <1>1, <1>3, <1>5, <2>4 DEF Moves
  <2>12. QED BY <2>6, <2>8, <2>9, <2>10, <2>11 DEF BrainInv
<1>6. \/ UNCHANGED <<gateway, backends>> /\ (Go(c, "post") \/ Return(c, TRUE) \/ Return(c, FALSE)) /\ Unlock
      \/ /\ call[c].ctx /\ Unused # {} /\ gateway' = [gateway EXCEPT ![Fresh] = "booting"]
         /\ backends' = backends \cup {Fresh} /\ operationMu' = operationMu
         /\ call' = [call EXCEPT ![c].pc = "ready", ![c].gen = Fresh]
  BY DEF StartLocked
<1>7. QED BY <1>4, <1>5, <1>6

LEMMA RegisterMoves == ASSUME BrainInv, NEW c \in Callers, Register(c) PROVE BrainInv' /\ Moves(c)
<1>1. /\ call[c].pc = "ready" /\ call[c].pc \in Inside /\ operationMu = c
      /\ process' = call[c].gen /\ baseURL' = call[c].gen /\ mcpServer' = call[c].gen /\ Go(c, "check")
      /\ UNCHANGED <<gateway, backends, operationMu>>
  BY DEF Register, Inside, BrainInv, Mutex
<1>2. PointOf(c) BY DEF BrainInv, AllPoints
<1>3. call[c].op # "close" /\ process = None BY <1>1, <1>2 DEF PointOf
<1>4. "check" \in Points BY DEF Points
<1>5. /\ Calls /\ OthersWait(c) /\ call'[c].pc = "check" /\ call'[c].op = call[c].op /\ call'[c].next = call[c].next
      /\ call'[c].ctx = call[c].ctx
  BY <1>1, <1>4, GoIs DEF BrainInv
<1>6. Hand(c) BY <1>1, <1>5 DEF Hand, Inside
<1>7. call[c].gen \in 0 .. MaxGateways BY DEF BrainInv, BrainTypes, CallRec
<1>8. BrainTypes' BY <1>1, <1>5, <1>7 DEF BrainInv, BrainTypes, Calls
<1>9. PointOf(c)' BY <1>1, <1>2, <1>3, <1>5 DEF PointOf, Inside
<1>10. AllPoints' BY <1>1, <1>5, <1>9, Alone, PointsStay DEF BrainInv
<1>11. Mutex' BY <1>5, <1>6, MutexStays DEF BrainInv
<1>12. Owned'
  <2> SUFFICES ASSUME NEW g \in Generations, Alive(g)' \/ g \in backends' PROVE g = process' BY DEF Owned
  <2>1. Alive(g) \/ g \in backends BY <1>1 DEF Alive
  <2>2. g # process BY <1>3, NoneIsNone
  <2>3. Ready(g) BY <2>1, <2>2 DEF BrainInv, Owned
  <2>4. QED BY <1>1, <2>3, ReadyIsAlone
<1>13. Moves(c) BY <1>1, <1>3, <1>5 DEF Moves
<1>14. QED BY <1>8, <1>10, <1>11, <1>12, <1>13 DEF BrainInv

LEMMA DiscardMoves == ASSUME BrainInv, NEW c \in Callers, Discard(c) PROVE BrainInv' /\ Moves(c)
<1>1. /\ call[c].pc = "ready" /\ call[c].pc \in Inside /\ operationMu = c
      /\ backends' = backends \ {call[c].gen} /\ gateway' = [gateway EXCEPT ![call[c].gen] = "dead"]
      /\ Return(c, FALSE) /\ operationMu' = Nobody /\ UNCHANGED <<process, baseURL, mcpServer, intentionalStop>>
  BY DEF Discard, Inside, BrainInv, Mutex, Unlock
<1>2. PointOf(c) BY DEF BrainInv, AllPoints
<1>3. call[c].op # "close" /\ process = None BY <1>1, <1>2 DEF PointOf
<1>4. /\ Calls /\ OthersWait(c) /\ call'[c].pc = "done" /\ call'[c].op = call[c].op /\ call'[c].next = call[c].next
      /\ call'[c].ctx = call[c].ctx
  BY <1>1, ReturnIs DEF BrainInv
<1>5. Hand(c) BY <1>1, <1>4, NobodyCalls DEF Hand, Inside
<1>6. BrainTypes' BY <1>1, <1>4 DEF BrainInv, BrainTypes, Calls
<1>7. PointOf(c)' BY <1>3, <1>4 DEF PointOf, Inside
<1>8. AllPoints' BY <1>1, <1>4, <1>7, Alone, PointsStay DEF BrainInv
<1>9. Mutex' BY <1>4, <1>5, MutexStays DEF BrainInv
<1>10. Owned'
  <2> SUFFICES ASSUME NEW g \in Generations, Alive(g)' \/ g \in backends' PROVE FALSE BY DEF Owned
  <2>1. g # call[c].gen BY <1>1 DEF Alive, BrainInv, BrainTypes
  <2>2. Alive(g) \/ g \in backends BY <1>1, <2>1 DEF Alive, BrainInv, BrainTypes
  <2>3. g # process BY <1>3, NoneIsNone
  <2>4. Ready(g) BY <2>2, <2>3 DEF BrainInv, Owned
  <2>5. QED BY <1>1, <2>1, <2>4, ReadyIsAlone
<1>11. Moves(c) BY <1>1, <1>3, <1>4 DEF Moves
<1>12. QED BY <1>6, <1>8, <1>9, <1>10, <1>11 DEF BrainInv

\* Outside operationMu: the question to the gateway and its end.
LEMMA TurnMoves == ASSUME BrainInv, NEW c \in Callers, Post(c) \/ TurnEnds(c) PROVE BrainInv' /\ Moves(c)
<1>1. /\ call[c].pc \in {"post", "turn"} /\ UNCHANGED <<gateway, process, baseURL, mcpServer, intentionalStop, backends, operationMu>>
      /\ (call' = [call EXCEPT ![c].pc = "turn", ![c].gen = baseURL] \/ \E ok \in BOOLEAN : Return(c, ok))
  BY DEF Post, TurnEnds
<1>2. call[c].op # "close" BY <1>1 DEF BrainInv, AllPoints, PointOf
<1>3. "turn" \in Points /\ baseURL \in 0 .. MaxGateways BY DEF Points, BrainInv, BrainTypes
<1>4. /\ Calls /\ OthersWait(c) /\ call'[c].pc \in {"turn", "done"} /\ call'[c].op = call[c].op
      /\ call'[c].ctx = call[c].ctx
  BY <1>1, <1>3, GenIs, ReturnIs DEF BrainInv
<1>5. operationMu # c BY <1>1 DEF BrainInv, Mutex, Inside
<1>6. Hand(c) BY <1>1, <1>4, <1>5 DEF Hand, Inside
<1>7. PointOf(c)' BY <1>2, <1>4 DEF PointOf, Inside
<1>8. BrainInv' BY <1>1, <1>4, <1>6, <1>7, SameGateways
<1>9. Moves(c) BY <1>1, <1>2, <1>4 DEF Moves
<1>10. QED BY <1>8, <1>9

LEMMA BrainMoves == ASSUME BrainInv, NEW c \in Callers, BrainStep(c) PROVE BrainInv' /\ Moves(c)
BY LockMoves, ProbeMoves, StopMoves, DrainMoves, DrainedMoves, ReapMoves, ClearMoves, StartMoves, RegisterMoves,
   DiscardMoves, CheckMoves, TurnMoves DEF BrainStep

\* A call begins, or the component's own call is begun and forgotten.
LEMMA BeginMoves ==
    ASSUME BrainInv, NEW c \in Callers, call[c].pc \in {"idle", "done"}, NEW r \in CallRec, r.pc \in {"idle", "lock"},
           call' = [call EXCEPT ![c] = r],
           UNCHANGED <<gateway, process, baseURL, mcpServer, intentionalStop, backends, operationMu>>
    PROVE  BrainInv'
<1>1. Calls /\ OthersWait(c) /\ call'[c] = r BY OneCall DEF BrainInv
<1>2. operationMu # c BY DEF BrainInv, Mutex, Inside
<1>3. Hand(c) BY <1>1, <1>2 DEF Hand, Inside
<1>4. PointOf(c)' BY <1>1 DEF PointOf, Inside
<1>5. QED BY <1>1, <1>3, <1>4, SameGateways

\* Only contexts end.
SamePoints == \A c \in Callers : /\ call'[c].pc = call[c].pc /\ call'[c].op = call[c].op /\ call'[c].next = call[c].next
                                 /\ call'[c].gen = call[c].gen

LEMMA ContextsEnd ==
    ASSUME BrainInv, Calls, SamePoints,
           UNCHANGED <<gateway, process, baseURL, mcpServer, intentionalStop, backends, operationMu>>
    PROVE  BrainInv'
<1>1. BrainTypes' BY DEF BrainInv, BrainTypes, Calls
<1>2. Mutex' BY DEF BrainInv, Mutex, SamePoints
<1>3. AllPoints' BY DEF BrainInv, AllPoints, PointOf, SamePoints
<1>4. \A g \in Generations : Ready(g) => Ready(g)' BY DEF Ready, SamePoints
<1>5. Owned' BY <1>4 DEF BrainInv, Owned, Alive
<1>6. QED BY <1>1, <1>2, <1>3, <1>5 DEF BrainInv

LEMMA OneContextEnds ==
    ASSUME BrainInv, NEW c \in Callers, call' = [call EXCEPT ![c].ctx = FALSE],
           UNCHANGED <<gateway, process, baseURL, mcpServer, intentionalStop, backends, operationMu>>
    PROVE  BrainInv' /\ OthersWait(c) /\ SamePoints
<1> DEFINE r == [call[c] EXCEPT !.ctx = FALSE]
<1>1. call' = [call EXCEPT ![c] = r] BY DEF BrainInv, BrainTypes
<1>2. call[c] \in CallRec BY DEF BrainInv, BrainTypes
<1>3. r \in CallRec BY <1>2, CallFields
<1>4. r.pc = call[c].pc /\ r.op = call[c].op /\ r.next = call[c].next /\ r.gen = call[c].gen BY <1>2 DEF CallRec
<1> HIDE DEF r
<1>5. Calls /\ OthersWait(c) /\ call'[c] = r BY <1>1, <1>3, OneCall DEF BrainInv
<1>6. SamePoints BY <1>4, <1>5 DEF SamePoints, OthersWait
<1>7. QED BY <1>5, <1>6, ContextsEnd

LEMMA LifecycleCtxEnds ==
    ASSUME BrainInv, EndLifecycleCtx,
           UNCHANGED <<gateway, process, baseURL, mcpServer, intentionalStop, backends, operationMu>>
    PROVE  /\ BrainInv' /\ SamePoints
           /\ \A c \in Callers : (c \in LifecycleCalls => ~call'[c].ctx) /\ (c \notin LifecycleCalls => call'[c] = call[c])
<1>1. call' = [c \in Callers |-> IF c \in LifecycleCalls THEN [call[c] EXCEPT !.ctx = FALSE] ELSE call[c]] BY DEF EndLifecycleCtx
<1>2. \A c \in Callers : call[c] \in CallRec BY DEF BrainInv, BrainTypes
<1>3. \A r \in CallRec : /\ [r EXCEPT !.ctx = FALSE] \in CallRec /\ [r EXCEPT !.ctx = FALSE].pc = r.pc
                         /\ [r EXCEPT !.ctx = FALSE].op = r.op /\ [r EXCEPT !.ctx = FALSE].next = r.next
                         /\ [r EXCEPT !.ctx = FALSE].gen = r.gen /\ [r EXCEPT !.ctx = FALSE].ctx = FALSE
  <2>1. \A r \in CallRec : [r EXCEPT !.ctx = FALSE] \in CallRec BY CallFields
  <2>2. QED BY <2>1 DEF CallRec
<1> DEFINE WithoutCtx(c) == [call[c] EXCEPT !.ctx = FALSE]
<1>4. \A c \in Callers : /\ WithoutCtx(c) \in CallRec /\ WithoutCtx(c).pc = call[c].pc /\ WithoutCtx(c).op = call[c].op
                         /\ WithoutCtx(c).next = call[c].next /\ WithoutCtx(c).gen = call[c].gen /\ WithoutCtx(c).ctx = FALSE
  BY <1>2, <1>3
<1>5. call' = [c \in Callers |-> IF c \in LifecycleCalls THEN WithoutCtx(c) ELSE call[c]] BY <1>1
<1> HIDE DEF WithoutCtx
<1>6. Calls BY <1>2, <1>4, <1>5 DEF Calls
<1>7. SamePoints BY <1>4, <1>5 DEF SamePoints
<1>8. QED BY <1>4, <1>5, <1>6, <1>7, ContextsEnd

LEMMA GatewayMoves ==
    ASSUME BrainInv, NEW g \in Generations, UNCHANGED <<process, baseURL, mcpServer, intentionalStop, backends, operationMu, call>>,
           \/ gateway[g] = "booting" /\ gateway' = [gateway EXCEPT ![g] = "up"]
           \/ gateway' = [gateway EXCEPT ![g] = "dead"]
    PROVE  BrainInv'
<1>1. /\ gateway' \in [Generations -> {"none", "booting", "up", "draining", "dead"}]
      /\ \A h \in Generations : (Alive(h)' => Alive(h)) /\ (gateway[h] = "dead" => gateway'[h] = "dead")
  BY DEF Alive, BrainInv, BrainTypes
<1>2. BrainTypes' BY <1>1 DEF BrainInv, BrainTypes
<1>3. Mutex' BY DEF BrainInv, Mutex
<1>4. Owned' BY <1>1 DEF BrainInv, Owned, Ready
<1>5. AllPoints'
  <2> SUFFICES ASSUME NEW c \in Callers PROVE PointOf(c)' BY DEF AllPoints
  <2>1. PointOf(c) BY DEF BrainInv, AllPoints
  <2>2. call[c].pc = "clear" => process \in Generations BY <2>1, SomeGeneration DEF PointOf, BrainInv, BrainTypes
  <2>3. QED BY <1>1, <2>1, <2>2 DEF PointOf
<1>6. QED BY <1>2, <1>3, <1>4, <1>5 DEF BrainInv

LEMMA WaitMoves == ASSUME BrainInv, NEW g \in Generations, WaitProcess(g) PROVE BrainInv'
<1>1. gateway[g] = "dead" /\ UNCHANGED <<gateway, baseURL, intentionalStop, operationMu, call>> BY DEF WaitProcess
<1>2. Mutex' BY <1>1 DEF BrainInv, Mutex
<1>3. \A h \in Generations : Ready(h)' = Ready(h) BY <1>1 DEF Ready
<1>4. CASE UNCHANGED <<process, mcpServer, backends>>
  <2>1. BrainTypes' BY <1>1, <1>4 DEF BrainInv, BrainTypes
  <2>2. Owned' BY <1>1, <1>3, <1>4 DEF BrainInv, Owned, Alive
  <2>3. AllPoints' BY <1>1, <1>4 DEF BrainInv, AllPoints, PointOf
  <2>4. QED BY <1>2, <2>1, <2>2, <2>3 DEF BrainInv
<1>5. CASE process = g /\ ~intentionalStop /\ process' = None /\ mcpServer' = None /\ backends' = backends \ {mcpServer}
  <2>1. BrainTypes' BY <1>1, <1>5, NoneIsNone DEF BrainInv, BrainTypes
  <2>2. mcpServer = g BY <1>5 DEF BrainInv, BrainTypes
  <2>3. Owned' BY <1>1, <1>3, <1>5, <2>2 DEF BrainInv, Owned, Alive
  <2>4. AllPoints' BY <1>1, <1>5 DEF BrainInv, AllPoints, PointOf
  <2>5. QED BY <1>2, <2>1, <2>3, <2>4 DEF BrainInv
<1>6. QED BY <1>4, <1>5 DEF WaitProcess

LEMMA BrainStands == ASSUME BrainInv, UNCHANGED brainVars PROVE BrainInv'
BY DEF BrainInv, BrainTypes, Mutex, Owned, Ready, AllPoints, PointOf, Alive, brainVars

LEMMA BrainStarts == ASSUME BrainInit PROVE BrainInv
<1>1. NoCall \in CallRec BY NoneIsNone DEF NoCall, CallRec, Points
<1>2. \A c \in Callers : call[c] = NoCall BY DEF BrainInit
<1>a. NoCall.pc = "idle" /\ NoCall.op = "" BY DEF NoCall
<1>3. \A c \in Callers : call[c].pc = "idle" /\ call[c].op = "" BY <1>2, <1>a
<1>4. BrainTypes BY <1>1, NoneIsNone DEF BrainInit, BrainTypes
<1>5. Mutex BY <1>3, NobodyCalls DEF BrainInit, Mutex, Inside
<1>6. Owned BY DEF BrainInit, Owned, Alive
<1>7. AllPoints BY <1>3 DEF AllPoints, PointOf, Inside
<1>8. QED BY <1>4, <1>5, <1>6, <1>7 DEF BrainInv

LEMMA MainCalls == "main" \in Callers
BY DEF Callers

LEMMA BeginIs ==
    ASSUME BrainInv, NEW c \in Callers, NEW op \in {"reply", "restart", "start", "close"}
    PROVE  /\ [call[c] EXCEPT !.pc = "lock", !.op = op] \in CallRec
           /\ [call[c] EXCEPT !.pc = "lock", !.op = op].pc = "lock" /\ [call[c] EXCEPT !.pc = "lock", !.op = op].op = op
<1>1. call[c] \in CallRec /\ "lock" \in Points BY DEF BrainInv, BrainTypes, Points
<1> DEFINE s == [call[c] EXCEPT !.pc = "lock"]
<1>2. s \in CallRec BY <1>1, CallFields
<1>3. s.pc = "lock" BY <1>1 DEF CallRec
<1> HIDE DEF s
<1> DEFINE r == [s EXCEPT !.op = op]
<1>4. r \in CallRec BY <1>2, CallFields
<1>5. r.pc = "lock" /\ r.op = op BY <1>2, <1>3 DEF CallRec
<1>6. r = [call[c] EXCEPT !.pc = "lock", !.op = op] BY DEF r, s
<1> HIDE DEF r
<1>7. QED BY <1>4, <1>5, <1>6

LEMMA NoCallIs == NoCall \in CallRec /\ NoCall.pc = "idle"
BY NoneIsNone DEF NoCall, CallRec, Points

LEMMA CallMoves ==
    ASSUME BrainInv, NEW c \in Callers, NEW op \in {"reply", "restart"}, Call(c, op)
    PROVE  BrainInv' /\ OthersWait(c) /\ call[c].pc = "idle" /\ call'[c].pc = "lock" /\ call'[c].op = op /\ process' = process
<1> DEFINE r == [call[c] EXCEPT !.pc = "lock", !.op = op]
<1>1. call[c].pc = "idle" /\ UNCHANGED <<gateway, process, baseURL, mcpServer, intentionalStop, backends, operationMu>>
      /\ call' = [call EXCEPT ![c] = r]
  BY DEF Call, BrainInv, BrainTypes
<1>a. op \in {"reply", "restart", "start", "close"} OBVIOUS
<1>2. r \in CallRec /\ r.pc = "lock" /\ r.op = op BY <1>a, BeginIs, Zenon
<1> HIDE DEF r
<1>3. OthersWait(c) /\ call'[c] = r BY <1>1, <1>2, OneCall DEF BrainInv
<1>4. QED BY <1>1, <1>2, <1>3, BeginMoves

LEMMA BrainStandsFault ==
    ASSUME BrainInv, UNCHANGED <<gateway, process, baseURL, mcpServer, intentionalStop, backends, operationMu, call>>
    PROVE  BrainInv'
BY DEF BrainInv, BrainTypes, Mutex, Owned, Ready, AllPoints, PointOf, Alive

\* The component starts or closes the supervisor as one caller more.
LEMMA MainCallMoves ==
    ASSUME BrainInv, NEW op \in {"start", "close"}, NEW ctx \in BOOLEAN, call["main"].pc = "idle",
           call' = [call EXCEPT !["main"].pc = "lock", !["main"].op = op, !["main"].ctx = ctx],
           UNCHANGED <<gateway, process, baseURL, mcpServer, intentionalStop, backends, operationMu>>
    PROVE  BrainInv' /\ OthersWait("main") /\ call'["main"].pc = "lock" /\ call'["main"].op = op
<1> DEFINE s == [call["main"] EXCEPT !.pc = "lock", !.op = op]
           r == [s EXCEPT !.ctx = ctx]
<1>1. call' = [call EXCEPT !["main"] = r] BY MainCalls DEF BrainInv, BrainTypes
<1>2. op \in {"reply", "restart", "start", "close"} /\ "main" \in Callers BY MainCalls
<1>a. s \in CallRec /\ s.pc = "lock" /\ s.op = op BY <1>2, BeginIs, Zenon
<1> HIDE DEF s
<1>b. r \in CallRec BY <1>a, CallFields
<1>3. r \in CallRec /\ r.pc = "lock" /\ r.op = op BY <1>a, <1>b DEF CallRec
<1> HIDE DEF r
<1>4. OthersWait("main") /\ call'["main"] = r BY <1>1, <1>2, <1>3, OneCall DEF BrainInv
<1>5. BrainInv' BY <1>1, <1>2, <1>3, BeginMoves
<1>6. QED BY <1>3, <1>4, <1>5

LEMMA MainCallOver ==
    ASSUME BrainInv, call["main"].pc = "done", call' = [call EXCEPT !["main"] = NoCall],
           UNCHANGED <<gateway, process, baseURL, mcpServer, intentionalStop, backends, operationMu>>
    PROVE  BrainInv' /\ OthersWait("main") /\ call'["main"].pc = "idle"
<1>1. OthersWait("main") /\ call'["main"] = NoCall BY NoCallIs, MainCalls, OneCall DEF BrainInv
<1>2. BrainInv' BY NoCallIs, MainCalls, BeginMoves
<1>3. QED BY <1>1, <1>2, NoCallIs

ProcessInv == BrainInv /\ lifecycleCtx \in BOOLEAN

LEMMA ProcessMoves == ASSUME ProcessInv, [Next]_vars PROVE ProcessInv'
<1>1. lifecycleCtx' \in BOOLEAN
  BY DEF ProcessInv, Next, vars, MainStep, StartBrowser, StartWorkers, StartBrain, BrainStarted, Serve, StopHttp,
         CancelLifecycle, CloseBrain, BrainClosed, CloseWorkers, CloseBrowsers, Signal, HttpStops, ServeFails, BudgetSpent,
         BeginTurn, BeginRequest, BeginRecovery, CallStep, Cancel, ProcessStep, Crash, RecoveryStep, Abandon, EndLifecycleCtx
<1>2. BrainInv'
  <2>1. CASE UNCHANGED brainVars BY <2>1, BrainStands DEF ProcessInv
  <2>2. CASE StartBrain BY <2>2, MainCallMoves DEF ProcessInv, StartBrain
  <2>3. CASE BrainStarted \/ BrainClosed BY <2>3, MainCallOver DEF ProcessInv, BrainStarted, BrainClosed
  <2>4. CASE CloseBrain
    <3>1. (budget = "live") \in BOOLEAN OBVIOUS
    <3>2. QED BY <2>4, <3>1, MainCallMoves DEF ProcessInv, CloseBrain
  <2>5. CASE Signal \/ CancelLifecycle BY <2>5, LifecycleCtxEnds DEF ProcessInv, Signal, CancelLifecycle
  <2>6. CASE BudgetSpent BY <2>6, MainCalls, OneContextEnds DEF ProcessInv, BudgetSpent
  <2>7. CASE ServeFails \/ (\E a \in Accounts : Abandon(a))
    BY <2>7, BrainStandsFault DEF ProcessInv, ServeFails, Abandon, BrainFault
  <2>8. ASSUME NEW c \in Turns, BeginTurn(c) PROVE BrainInv' BY <2>8, CallMoves DEF ProcessInv, BeginTurn, Callers
  <2>9. ASSUME NEW c \in Admins, BeginRequest(c) PROVE BrainInv' BY <2>9, CallMoves DEF ProcessInv, BeginRequest, Callers
  <2>10. ASSUME NEW c \in Callers, Cancel(c) PROVE BrainInv' BY <2>10, OneContextEnds DEF ProcessInv, Cancel, CancelCall
  <2>11. ASSUME NEW c \in Callers, CallStep(c) PROVE BrainInv' BY <2>11, BrainMoves DEF ProcessInv, CallStep
  <2>12. ASSUME NEW g \in Generations, ProcessStep(g) \/ Crash(g) PROVE BrainInv'
    <3>1. CASE WaitProcess(g) BY <3>1, WaitMoves DEF ProcessInv
    <3>2. CASE GatewayReady(g) \/ GatewayDrained(g) \/ GatewayCrashes(g)
      BY <3>2, GatewayMoves DEF ProcessInv, GatewayReady, GatewayDrained, GatewayCrashes
    <3>3. QED BY <2>12, <3>1, <3>2 DEF ProcessStep, Crash, GatewayStep
  <2>13. CASE StartBrowser \/ StartWorkers \/ Serve \/ StopHttp \/ CloseWorkers \/ CloseBrowsers \/ HttpStops
    BY <2>1, <2>13 DEF StartBrowser, StartWorkers, Serve, StopHttp, CloseWorkers, CloseBrowsers, HttpStops
  <2>14. ASSUME NEW a \in Accounts, BeginRecovery(a) \/ RecoveryStep(a) PROVE BrainInv'
    BY <2>1, <2>14 DEF BeginRecovery, RecoveryStep
  <2>15. CASE UNCHANGED vars BY <2>1, <2>15 DEF vars
  <2>16. \A c \in Turns \cup Admins : c \in Callers BY DEF Callers
  <2>17. QED BY <2>2, <2>3, <2>4, <2>5, <2>6, <2>7, <2>8, <2>9, <2>10, <2>11, <2>12, <2>13, <2>14, <2>15, <2>16 DEF Next, MainStep
<1>3. QED BY <1>1, <1>2 DEF ProcessInv

\* Whoever starts, asks, restarts, gives up or closes in whatever order, and whatever dies, the supervisor keeps
\* account of every gateway and every backend (supervisor.go:263-445).
THEOREM ProcessHolds == Spec => []ProcessInv
<1>1. Init => ProcessInv BY BrainStarts DEF Init, ProcessInv
<1>2. ProcessInv /\ [Next]_vars => ProcessInv' BY ProcessMoves
<1>3. QED BY <1>1, <1>2, PTL DEF Spec

\* Two gateways that live are both registered, or both the one a start waits for, or one of each: none of it happens.
LEMMA AliveIsOne == ASSUME BrainInv, NEW g \in Generations, NEW h \in Generations, Alive(g), Alive(h) PROVE g = h
<1>1. (g = process \/ Ready(g)) /\ (h = process \/ Ready(h)) BY DEF BrainInv, Owned
<1>2. \A k \in Generations, c \in Callers : call[c].pc = "ready" /\ call[c].gen = k => process = None /\ k # process
  BY NoneIsNone DEF BrainInv, AllPoints, PointOf
<1>3. CASE g = process /\ h = process BY <1>3
<1>4. CASE Ready(g) /\ Ready(h)
  <2>1. PICK c \in Callers : call[c].pc = "ready" /\ call[c].gen = g BY <1>4 DEF Ready
  <2>2. call[c].pc \in Inside BY <2>1 DEF Inside
  <2>3. QED BY <1>4, <2>1, <2>2, ReadyIsAlone
<1>5. QED BY <1>1, <1>2, <1>3, <1>4, NoneIsNone DEF Ready

\* At no time do two gateways run, whoever starts, restarts or gives up (supervisor.go:263-445).
THEOREM OneGatewayHolds == Spec => []OneGateway
<1>1. ProcessInv => OneGateway
  <2> SUFFICES ASSUME ProcessInv PROVE OneGateway OBVIOUS
  <2> DEFINE A == {g \in Generations : Alive(g)}
  <2>1. \A g, h \in A : g = h BY AliveIsOne DEF ProcessInv
  <2>2. CASE A = {} BY <2>2, FS_EmptySet DEF OneGateway
  <2>3. CASE A # {}
    <3>1. PICK g \in A : TRUE BY <2>3
    <3>2. A = {g} BY <2>1, <3>1
    <3>3. Cardinality({g}) = 1 BY FS_Singleton
    <3>4. QED BY <3>2, <3>3 DEF OneGateway
  <2>4. QED BY <2>2, <2>3
<1>2. QED BY <1>1, ProcessHolds, PTL

\* A backend that listens belongs to the registered gateway or to the one a start waits for (process_helpers.go:19-41).
THEOREM BackendHasOwnerHolds == Spec => []BackendHasOwner
<1>1. ProcessInv => BackendHasOwner
  BY DEF ProcessInv, BrainInv, BrainTypes, Owned, Ready, BackendHasOwner
<1>2. QED BY <1>1, ProcessHolds, PTL

-----------------------------------------------------------------------------
(* ServerProcess: what a close finds and leaves. *)

MainRec == [pc : {"start", "listen", "wait", "cancel", "close", "exit"}, at : 1 .. 4, rollback : BOOLEAN, errs : BOOLEAN]
RecoveryRec == [pc : {"idle", "begin", "lock", "slot", "init", "browse", "refetch", "done"},
                job : {"", "primary", "fallback", "snapshot"}, tries : Nat, ctx : BOOLEAN, browser : BOOLEAN]

Closing    == main.pc \in {"close", "exit"}
QuietBrain == process = None /\ \A c \in Callers : call[c].pc # "ready"
NoneBegan  == /\ QuietBrain /\ \A c \in Callers : call[c].pc = "idle"
              /\ \A a \in Accounts : recovery[a].pc = "idle"
              /\ "accounts" \notin running

Placed ==
    /\ main \in MainRec
    /\ main.pc \in {"listen", "wait"} => main.at = 4
    /\ main.pc = "exit" => main.at = 1
    /\ http.state = "serving" => main.pc = "wait"
    /\ Closing => ~lifecycleCtx

\* Until the accounts have started, or where their start failed, nothing has been begun.
NotYet == (main.pc = "start" /\ main.at <= 2) \/ (main.pc = "cancel" /\ main.at <= 3) => NoneBegan

\* The coordinator calls the supervisor when the brain is at hand and at no other time; a turn is a Reply.
OwnCall   == call["main"].pc # "idle" => main.at = 4 /\ main.pc \in {"start", "close"} /\ call["main"].op = main.pc
TurnsAsk  == \A c \in Turns : call[c].pc # "idle" => call[c].op = "reply"

\* Nobody who still runs when the components close has a live context, but requests the shutdown did not wait for.
GivenUp   == Closing /\ drained => \A c \in Turns \cup Admins : call[c].pc \in {"idle", "done"} \/ ~call[c].ctx
BrainGone == Closing /\ drained /\ (main.at <= 3 \/ call["main"].pc = "done") => QuietBrain

SessionsGone == Closing /\ main.at = 1 /\ ~main.errs => \A a \in Accounts : recovery[a].pc \in {"idle", "done"}
Recoveries   == recovery \in [Accounts -> RecoveryRec] /\ \A a \in Accounts : recovery[a].browser => recovery[a].pc = "browse"

Shutdown    == Placed /\ NotYet /\ OwnCall /\ TurnsAsk /\ GivenUp /\ BrainGone /\ SessionsGone /\ Recoveries
ShutdownInv == ProcessInv /\ Shutdown

LEMMA MainAlone == "main" \notin Turns \cup Admins /\ Turns \cup Admins \subseteq Callers /\ Turns \cap Admins = {}
BY BrainAssumption DEF Callers

\* Nothing begins and nothing goes on, but contexts end and a gateway is given up.
LEMMA Still ==
    ASSUME Shutdown, UNCHANGED <<main, running, drained>>, http'.state = "serving" => http.state = "serving",
           lifecycleCtx' => lifecycleCtx, process' \in {process, None}, SamePoints,
           \A c \in Callers : call'[c].ctx => call[c].ctx,
           recovery' \in [Accounts -> RecoveryRec],
           \A a \in Accounts : recovery'[a].pc = recovery[a].pc /\ recovery'[a].browser = recovery[a].browser
    PROVE  Shutdown'
<1>1. Placed' BY DEF Shutdown, Placed, Closing
<1>2. QuietBrain => QuietBrain' BY DEF QuietBrain, SamePoints
<1>3. NotYet' BY <1>2 DEF Shutdown, NotYet, NoneBegan, SamePoints
<1>4. OwnCall' BY MainCalls DEF Shutdown, OwnCall, SamePoints
<1>5. TurnsAsk' BY MainAlone DEF Shutdown, TurnsAsk, SamePoints
<1>6. GivenUp' BY MainAlone DEF Shutdown, GivenUp, Closing, SamePoints
<1>7. BrainGone' BY <1>2, MainCalls DEF Shutdown, BrainGone, Closing, SamePoints
<1>8. SessionsGone' BY DEF Shutdown, SessionsGone, Closing
<1>9. Recoveries' BY DEF Shutdown, Recoveries
<1>10. QED BY <1>1, <1>3, <1>4, <1>5, <1>6, <1>7, <1>8, <1>9 DEF Shutdown

LEMMA ComponentIs ==
    ASSUME main \in MainRec
    PROVE  /\ Component = "browser" => main.at = 1
           /\ Component = "accounts" => main.at = 2
           /\ Component = "workers" => main.at = 3
           /\ Component = "brain" => main.at = 4
           /\ Len(components) = 4
<1>1. main.at \in {1, 2, 3, 4} BY DEF MainRec
<1>2. components[1] = "browser" /\ components[2] = "accounts" /\ components[3] = "workers" /\ components[4] = "brain"
      /\ Len(components) = 4
  BY DEF components
<1>3. QED BY <1>1, <1>2 DEF Component

LEMMA MainFields ==
    /\ \A r \in MainRec, pc \in {"start", "listen", "wait", "cancel", "close", "exit"} : [r EXCEPT !.pc = pc] \in MainRec
    /\ \A r \in MainRec, at \in 1 .. 4 : [r EXCEPT !.at = at] \in MainRec
    /\ \A r \in MainRec, b \in BOOLEAN : [r EXCEPT !.rollback = b] \in MainRec
    /\ \A r \in MainRec, b \in BOOLEAN : [r EXCEPT !.errs = b] \in MainRec
<1>1. \A r \in MainRec, pc \in {"start", "listen", "wait", "cancel", "close", "exit"} : [r EXCEPT !.pc = pc] \in MainRec
  BY Zenon DEF MainRec
<1>2. \A r \in MainRec, at \in 1 .. 4 : [r EXCEPT !.at = at] \in MainRec BY Zenon DEF MainRec
<1>3. \A r \in MainRec, b \in BOOLEAN : [r EXCEPT !.rollback = b] \in MainRec BY Zenon DEF MainRec
<1>4. \A r \in MainRec, b \in BOOLEAN : [r EXCEPT !.errs = b] \in MainRec BY Zenon DEF MainRec
<1>5. QED BY <1>1, <1>2, <1>3, <1>4

LEMMA StartedIs ==
    ASSUME main \in MainRec, main.pc = "start", Started
    PROVE  /\ main' \in MainRec
           /\ main.at < 4 => main'.pc = "start" /\ main'.at = main.at + 1
           /\ main.at = 4 => main'.pc = "listen" /\ main'.at = 4
<1>1. Len(components) = 4 /\ main.at \in 1 .. 4 BY ComponentIs DEF MainRec
<1>2. CASE main.at < 4
  <2> DEFINE n == main.at + 1
             r == [main EXCEPT !.at = n]
  <2>1. n \in 1 .. 4 /\ main' = r BY <1>1, <1>2 DEF Started
  <2>2. n = main.at + 1 OBVIOUS
  <2> HIDE DEF n
  <2>3. r \in MainRec BY <2>1, MainFields
  <2>4. r.pc = main.pc /\ r.at = n BY DEF MainRec
  <2> HIDE DEF r
  <2>5. QED BY <1>2, <2>1, <2>2, <2>3, <2>4
<1>3. CASE main.at = 4
  <2> DEFINE r == [main EXCEPT !.pc = "listen"]
  <2>1. main' = r BY <1>1, <1>3 DEF Started
  <2>2. r \in MainRec BY MainFields
  <2>3. r.pc = "listen" /\ r.at = main.at BY DEF MainRec
  <2> HIDE DEF r
  <2>4. QED BY <1>3, <2>1, <2>2, <2>3
<1>4. QED BY <1>1, <1>2, <1>3

LEMMA RollBackIs ==
    ASSUME main \in MainRec, RollBack
    PROVE  main' \in MainRec /\ main'.pc = "cancel" /\ main'.at = main.at
<1> DEFINE s == [main EXCEPT !.pc = "cancel"]
           r == [s EXCEPT !.rollback = TRUE]
<1>1. main' = r BY DEF RollBack
<1>2. s \in MainRec BY MainFields
<1>3. s.pc = "cancel" /\ s.at = main.at BY DEF MainRec
<1> HIDE DEF s
<1>4. r \in MainRec BY <1>2, MainFields
<1>5. r.pc = s.pc /\ r.at = s.at BY <1>2 DEF MainRec
<1> HIDE DEF r
<1>6. QED BY <1>1, <1>3, <1>4, <1>5

LEMMA PcIs ==
    ASSUME main \in MainRec, NEW pc \in {"start", "listen", "wait", "cancel", "close", "exit"}, main' = [main EXCEPT !.pc = pc]
    PROVE  main' \in MainRec /\ main'.pc = pc /\ main'.at = main.at /\ main'.errs = main.errs
<1> DEFINE r == [main EXCEPT !.pc = pc]
<1>1. main' = r OBVIOUS
<1>2. r \in MainRec BY MainFields
<1>3. r.pc = pc /\ r.at = main.at /\ r.errs = main.errs BY DEF MainRec
<1> HIDE DEF r
<1>4. QED BY <1>1, <1>2, <1>3

LEMMA ClosedIs ==
    ASSUME main \in MainRec, main.pc = "close", NEW ok, Closed(ok)
    PROVE  /\ main' \in MainRec /\ (main'.errs <=> main.errs \/ ~ok)
           /\ main.at = 1 => main'.pc = "exit" /\ main'.at = 1
           /\ main.at # 1 => main'.pc = "close" /\ main'.at = main.at - 1
<1> DEFINE e  == main.errs \/ ~ok
           pc == IF main.at = 1 THEN "exit" ELSE "close"
           at == IF main.at = 1 THEN 1 ELSE main.at - 1
           q  == [main EXCEPT !.errs = e]
           s  == [q EXCEPT !.pc = pc]
           r  == [s EXCEPT !.at = at]
<1>1. main' = r BY DEF Closed
<1>2. main.at \in 1 .. 4 BY DEF MainRec
<1>3. /\ at \in 1 .. 4 /\ pc \in {"close", "exit"}
      /\ main.at = 1 => pc = "exit" /\ at = 1
      /\ main.at # 1 => pc = "close" /\ at = main.at - 1
  BY <1>2
<1>4. e \in BOOLEAN OBVIOUS
<1>5. e <=> main.errs \/ ~ok OBVIOUS
<1> HIDE DEF e, pc, at
<1>6. q \in MainRec BY <1>4, MainFields
<1>7. q.errs = e BY DEF MainRec
<1> HIDE DEF q
<1>8. s \in MainRec BY <1>3, <1>6, MainFields
<1>9. s.errs = q.errs /\ s.pc = pc BY <1>6 DEF MainRec
<1> HIDE DEF s
<1>10. r \in MainRec BY <1>3, <1>8, MainFields
<1>11. r.errs = s.errs /\ r.pc = s.pc /\ r.at = at BY <1>8 DEF MainRec
<1> HIDE DEF r
<1>12. main'.errs = e BY <1>1, <1>7, <1>9, <1>11
<1>13. QED BY <1>1, <1>3, <1>5, <1>9, <1>10, <1>11, <1>12

\* A component starts, or its start fails.
LEMMA StartKeeps ==
    ASSUME Shutdown, main.pc = "start", UNCHANGED <<http, lifecycleCtx, drained, process, recovery>>,
           \/ main.at <= 3 /\ call' = call
           \/ main.at = 4 /\ OthersWait("main") /\ call'["main"].pc = "idle",
           \/ Started /\ running' = running \cup {Component}
           \/ RollBack /\ running' = running /\ main.at # 3
    PROVE  Shutdown'
<1>1. main \in MainRec /\ main.at \in 1 .. 4 /\ Len(components) = 4 BY ComponentIs DEF Shutdown, Placed, MainRec
<1>2. /\ main' \in MainRec /\ main'.pc \in {"start", "listen", "cancel"}
      /\ main'.pc = "start" => main.at < 4 /\ main'.at = main.at + 1 /\ running' = running \cup {Component}
      /\ main'.pc = "listen" => main.at = 4 /\ main'.at = 4
      /\ main'.pc = "cancel" => main'.at = main.at /\ main.at # 3 /\ running' = running
  BY <1>1, StartedIs, RollBackIs
<1>3. main'.at \in 1 .. 4 BY <1>2 DEF MainRec
<1>4. Placed' BY <1>2 DEF Shutdown, Placed, Closing
<1>5. call'["main"].pc = "idle" BY <1>1 DEF Shutdown, OwnCall
<1>6. OwnCall' BY <1>5 DEF OwnCall
<1>7. TurnsAsk' BY MainAlone DEF Shutdown, TurnsAsk, OthersWait
<1>8. ~Closing' BY <1>2 DEF Closing
<1>9. GivenUp' /\ BrainGone' /\ SessionsGone' BY <1>8 DEF GivenUp, BrainGone, SessionsGone
<1>10. Recoveries' BY DEF Shutdown, Recoveries
<1>11. NotYet'
  <2> SUFFICES ASSUME (main'.pc = "start" /\ main'.at <= 2) \/ (main'.pc = "cancel" /\ main'.at <= 3) PROVE NoneBegan'
    BY DEF NotYet
  <2>1. main.at <= 2 BY <1>1, <1>2, <1>3
  <2>2. NoneBegan /\ call' = call BY <1>1, <2>1 DEF Shutdown, NotYet
  <2>3. "accounts" \notin running'
    <3>1. CASE main'.pc = "start"
      <4>1. main.at = 1 BY <1>1, <1>2, <3>1
      <4>2. Component # "accounts" BY <1>1, <4>1, ComponentIs
      <4>3. QED BY <1>2, <2>2, <3>1, <4>2 DEF NoneBegan
    <3>2. CASE main'.pc = "cancel" BY <1>2, <2>2, <3>2 DEF NoneBegan
    <3>3. QED BY <3>1, <3>2
  <2>4. QED BY <2>2, <2>3 DEF NoneBegan, QuietBrain
<1>12. QED BY <1>4, <1>6, <1>7, <1>9, <1>10, <1>11 DEF Shutdown

LEMMA StartBrowserKeeps == ASSUME Shutdown, StartBrowser PROVE Shutdown'
<1>1. main.pc = "start" /\ Component = "browser" /\ main \in MainRec BY DEF StartBrowser, Shutdown, Placed
<1>2. main.at = 1 BY <1>1, ComponentIs
<1>3. UNCHANGED <<http, lifecycleCtx, drained, process, recovery, call>> BY DEF StartBrowser, InitializeContext, brainVars
<1>4. (Started /\ running' = running \cup {Component}) \/ (RollBack /\ running' = running /\ main.at # 3)
  BY <1>1, <1>2 DEF StartBrowser
<1>5. main.at <= 3 BY <1>2
<1>6. QED BY <1>1, <1>3, <1>4, <1>5, StartKeeps

LEMMA StartWorkersKeeps == ASSUME Shutdown, StartWorkers PROVE Shutdown'
<1>1. main.pc = "start" /\ Component \in {"accounts", "workers"} /\ main \in MainRec BY DEF StartWorkers, Shutdown, Placed
<1>2. main.at <= 3 /\ (Component = "accounts" => main.at = 2) BY <1>1, ComponentIs
<1>3. UNCHANGED <<http, lifecycleCtx, drained, process, recovery, call>> BY DEF StartWorkers, brainVars, browserVars
<1>4. (Started /\ running' = running \cup {Component}) \/ (RollBack /\ running' = running /\ main.at # 3)
  BY <1>2 DEF StartWorkers
<1>5. QED BY <1>1, <1>2, <1>3, <1>4, StartKeeps

LEMMA BrainStartedKeeps == ASSUME ShutdownInv, BrainStarted PROVE Shutdown'
<1>1. main.pc = "start" /\ Component = "brain" /\ main \in MainRec /\ Shutdown BY DEF BrainStarted, ShutdownInv, Shutdown, Placed
<1>2. main.at = 4 BY <1>1, ComponentIs
<1>3. UNCHANGED <<http, lifecycleCtx, drained, process, recovery>> BY DEF BrainStarted, browserVars
<1>4. OthersWait("main") /\ call'["main"].pc = "idle" BY MainCallOver DEF ShutdownInv, ProcessInv, BrainStarted
<1>5. (Started /\ running' = running \cup {Component}) \/ (RollBack /\ running' = running /\ main.at # 3)
  BY <1>1, <1>2 DEF BrainStarted
<1>6. QED BY <1>1, <1>2, <1>3, <1>4, <1>5, StartKeeps

\* The coordinator asks the supervisor to start or to close.
LEMMA MainAsks ==
    ASSUME Shutdown, main.pc \in {"start", "close"}, main.at = 4, OthersWait("main"),
           call'["main"].pc = "lock", call'["main"].op = main.pc,
           UNCHANGED <<main, http, lifecycleCtx, running, drained, process, recovery>>
    PROVE  Shutdown'
<1>1. Placed' BY DEF Shutdown, Placed, Closing
<1>2. NotYet' BY DEF NotYet
<1>3. OwnCall' BY DEF OwnCall
<1>4. TurnsAsk' BY MainAlone DEF Shutdown, TurnsAsk, OthersWait
<1>5. GivenUp' BY MainAlone DEF Shutdown, GivenUp, Closing, OthersWait
<1>6. BrainGone' BY DEF BrainGone
<1>7. SessionsGone' BY DEF SessionsGone
<1>8. Recoveries' BY DEF Shutdown, Recoveries
<1>9. QED BY <1>1, <1>2, <1>3, <1>4, <1>5, <1>6, <1>7, <1>8 DEF Shutdown

LEMMA StartBrainKeeps == ASSUME ShutdownInv, StartBrain PROVE Shutdown'
<1>1. main.pc = "start" /\ Component = "brain" /\ main \in MainRec /\ Shutdown BY DEF StartBrain, ShutdownInv, Shutdown, Placed
<1>2. main.at = 4 BY <1>1, ComponentIs
<1>3. UNCHANGED <<main, http, lifecycleCtx, running, drained, process, recovery>> BY DEF StartBrain, browserVars
<1>4. OthersWait("main") /\ call'["main"].pc = "lock" /\ call'["main"].op = "start"
  BY MainCallMoves DEF ShutdownInv, ProcessInv, StartBrain
<1>5. QED BY <1>1, <1>2, <1>3, <1>4, MainAsks

LEMMA CloseBrainKeeps == ASSUME ShutdownInv, CloseBrain PROVE Shutdown'
<1>1. main.pc = "close" /\ Component = "brain" /\ main \in MainRec /\ Shutdown BY DEF CloseBrain, ShutdownInv, Shutdown, Placed
<1>2. main.at = 4 BY <1>1, ComponentIs
<1>3. UNCHANGED <<main, http, lifecycleCtx, running, drained, process, recovery>> BY DEF CloseBrain, browserVars
<1>4. (budget = "live") \in BOOLEAN OBVIOUS
<1>5. OthersWait("main") /\ call'["main"].pc = "lock" /\ call'["main"].op = "close"
  BY <1>4, MainCallMoves DEF ShutdownInv, ProcessInv, CloseBrain
<1>6. QED BY <1>1, <1>2, <1>3, <1>5, MainAsks

LEMMA ServeKeeps == ASSUME Shutdown, Serve \/ StopHttp PROVE Shutdown'
<1>1. /\ main \in MainRec /\ main.at = 4 /\ main'.at = 4 /\ main' \in MainRec
      /\ main'.pc \in {"wait", "cancel"} /\ (http'.state = "serving" => main'.pc = "wait")
      /\ main.pc \in {"listen", "wait"}
  <2>1. CASE Serve
    <3>1. main.pc = "listen" /\ main' = [main EXCEPT !.pc = "wait"] /\ main \in MainRec /\ main.at = 4
      BY <2>1 DEF Serve, Shutdown, Placed
    <3>2. QED BY <3>1, PcIs
  <2>2. CASE StopHttp
    <3> DEFINE e == ~http.stopped /\ InFlight # {}
               s == [main EXCEPT !.pc = "cancel"]
               r == [s EXCEPT !.errs = e]
    <3>1. main.pc = "wait" /\ main' = r /\ main \in MainRec /\ main.at = 4 /\ http.state = "closed"
          /\ http' = [http EXCEPT !.stopped = TRUE]
      BY <2>2 DEF StopHttp, Shutdown, Placed
    <3>2. e \in BOOLEAN OBVIOUS
    <3> HIDE DEF e
    <3>3. s \in MainRec BY <3>1, MainFields
    <3>4. s.pc = "cancel" /\ s.at = main.at BY <3>1 DEF MainRec
    <3> HIDE DEF s
    <3>5. r \in MainRec BY <3>2, <3>3, MainFields
    <3>6. r.pc = s.pc /\ r.at = s.at BY <3>3 DEF MainRec
    <3> HIDE DEF r
    <3>7. http'.state # "serving" BY <3>1
    <3>8. QED BY <3>1, <3>4, <3>5, <3>6, <3>7
  <2>3. QED BY <2>1, <2>2
<1>2. UNCHANGED <<lifecycleCtx, running, drained, process, call, recovery>> BY DEF Serve, StopHttp, brainVars, browserVars
<1>3. Placed' BY <1>1 DEF Placed, Closing
<1>4. NotYet' BY <1>1 DEF NotYet
<1>5. OwnCall' BY <1>1, <1>2 DEF Shutdown, OwnCall
<1>6. TurnsAsk' /\ Recoveries' BY <1>2 DEF Shutdown, TurnsAsk, Recoveries
<1>7. GivenUp' /\ BrainGone' /\ SessionsGone' BY <1>1 DEF GivenUp, BrainGone, SessionsGone, Closing
<1>8. QED BY <1>3, <1>4, <1>5, <1>6, <1>7 DEF Shutdown

\* The contexts of the lifecycle end, those of the sessions' recoveries too.
LEMMA RecoveriesEnd ==
    ASSUME Shutdown, EndLifecycleCtx
    PROVE  /\ recovery' \in [Accounts -> RecoveryRec]
           /\ \A a \in Accounts : recovery'[a].pc = recovery[a].pc /\ recovery'[a].browser = recovery[a].browser
<1> DEFINE WithoutCtx(a) == [recovery[a] EXCEPT !.ctx = FALSE]
<1>1. recovery' = [a \in Accounts |-> WithoutCtx(a)] BY DEF EndLifecycleCtx
<1>2. \A r \in RecoveryRec : [r EXCEPT !.ctx = FALSE] \in RecoveryRec BY Zenon DEF RecoveryRec
<1>3. \A r \in RecoveryRec : [r EXCEPT !.ctx = FALSE].pc = r.pc /\ [r EXCEPT !.ctx = FALSE].browser = r.browser BY DEF RecoveryRec
<1>4. \A a \in Accounts : recovery[a] \in RecoveryRec BY DEF Shutdown, Recoveries
<1>5. \A a \in Accounts : WithoutCtx(a) \in RecoveryRec /\ WithoutCtx(a).pc = recovery[a].pc /\ WithoutCtx(a).browser = recovery[a].browser
  BY <1>2, <1>3, <1>4
<1> HIDE DEF WithoutCtx
<1>6. QED BY <1>1, <1>5

LEMMA CancelLifecycleKeeps == ASSUME ShutdownInv, CancelLifecycle PROVE Shutdown'
<1>1. /\ main.pc = "cancel" /\ main' = [main EXCEPT !.pc = "close"] /\ EndLifecycleCtx /\ drained' = (InFlight = {})
      /\ UNCHANGED <<gateway, process, baseURL, mcpServer, intentionalStop, backends, operationMu, http, running>>
      /\ lifecycleCtx' = FALSE /\ BrainInv /\ Shutdown
  BY DEF CancelLifecycle, EndLifecycleCtx, ShutdownInv, ProcessInv
<1>2. main' \in MainRec /\ main'.pc = "close" /\ main'.at = main.at BY <1>1, PcIs DEF Shutdown, Placed
<1>3. /\ SamePoints
      /\ \A c \in Callers : (c \in LifecycleCalls => ~call'[c].ctx) /\ (c \notin LifecycleCalls => call'[c] = call[c])
  BY <1>1, LifecycleCtxEnds
<1>4. Placed' BY <1>1, <1>2 DEF Shutdown, Placed, Closing
<1>5. NotYet' BY <1>2 DEF NotYet
<1>6. call["main"].pc = "idle" BY <1>1 DEF Shutdown, OwnCall
<1>7. OwnCall' BY <1>3, <1>6, MainCalls DEF OwnCall, SamePoints
<1>8. TurnsAsk' BY <1>1, <1>3, MainAlone DEF Shutdown, TurnsAsk, SamePoints
<1>9. GivenUp'
  <2> SUFFICES ASSUME drained', NEW c \in Turns \cup Admins PROVE call'[c].pc \in {"idle", "done"} \/ ~call'[c].ctx
    BY DEF GivenUp
  <2>1. call'[c].pc = call[c].pc BY <1>3, MainAlone DEF SamePoints
  <2>2. CASE c \in Admins BY <1>1, <2>1, <2>2 DEF InFlight
  <2>3. CASE c \in Turns
    <3>1. call[c].pc = "idle" \/ call[c].op = "reply" BY <1>1, <2>3 DEF Shutdown, TurnsAsk
    <3>2. call[c].op = "reply" => c \in LifecycleCalls BY <2>3 DEF LifecycleCalls
    <3>3. QED BY <1>3, <2>1, <3>1, <3>2, MainAlone
  <2>4. QED BY <2>2, <2>3
<1>10. main.at <= 3 => NoneBegan BY <1>1 DEF Shutdown, NotYet
<1>11. BrainGone'
  <2> SUFFICES ASSUME main'.at <= 3 \/ call'["main"].pc = "done" PROVE QuietBrain' BY DEF BrainGone
  <2>1. call'["main"].pc # "done" BY <1>3, <1>6, MainCalls DEF SamePoints
  <2>2. QuietBrain BY <1>2, <1>10, <2>1 DEF NoneBegan
  <2>3. QED BY <1>1, <1>3, <2>2 DEF QuietBrain, SamePoints
<1>12. /\ recovery' \in [Accounts -> RecoveryRec]
       /\ \A a \in Accounts : recovery'[a].pc = recovery[a].pc /\ recovery'[a].browser = recovery[a].browser
  BY <1>1, RecoveriesEnd
<1>13. SessionsGone' BY <1>2, <1>10, <1>12 DEF SessionsGone, NoneBegan
<1>14. Recoveries' BY <1>1, <1>12 DEF Shutdown, Recoveries
<1>15. QED BY <1>4, <1>5, <1>7, <1>8, <1>9, <1>11, <1>13, <1>14 DEF Shutdown

\* A component has been closed, or was not in time.
LEMMA CloseKeeps ==
    ASSUME Shutdown, main.pc = "close", NEW ok, Closed(ok), UNCHANGED <<http, lifecycleCtx, drained, process, recovery>>,
           \/ main.at <= 3 /\ call' = call
           \/ main.at = 4 /\ OthersWait("main") /\ call["main"].pc = "done" /\ call'["main"].pc = "idle",
           main.at = 2 /\ ok => \A a \in Accounts : recovery[a].pc \in {"idle", "done"}
    PROVE  Shutdown'
<1>1. main \in MainRec /\ main.at \in 1 .. 4 BY DEF Shutdown, Placed, MainRec
<1>2. /\ main' \in MainRec /\ (main'.errs <=> main.errs \/ ~ok)
      /\ main.at = 1 => main'.pc = "exit" /\ main'.at = 1
      /\ main.at # 1 => main'.pc = "close" /\ main'.at = main.at - 1
  BY <1>1, ClosedIs
<1>3. Placed' BY <1>1, <1>2 DEF Shutdown, Placed, Closing
<1>4. NotYet' BY <1>2 DEF NotYet
<1>5. call'["main"].pc = "idle" BY <1>1 DEF Shutdown, OwnCall
<1>6. OwnCall' BY <1>5 DEF OwnCall
<1>7. TurnsAsk' BY MainAlone DEF Shutdown, TurnsAsk, OthersWait
<1>8. GivenUp' BY MainAlone DEF Shutdown, GivenUp, Closing, OthersWait
<1>9. BrainGone'
  <2>1. drained' => QuietBrain BY DEF Shutdown, BrainGone, Closing
  <2>2. QuietBrain => QuietBrain' BY <1>5 DEF QuietBrain, OthersWait
  <2>3. QED BY <2>1, <2>2 DEF BrainGone
<1>10. SessionsGone'
  <2> SUFFICES ASSUME main'.at = 1, ~main'.errs PROVE \A a \in Accounts : recovery[a].pc \in {"idle", "done"}
    BY DEF SessionsGone
  <2>1. main.at = 1 \/ main.at = 2 BY <1>1, <1>2
  <2>2. QED BY <1>2, <2>1 DEF Shutdown, SessionsGone, Closing
<1>11. Recoveries' BY DEF Shutdown, Recoveries
<1>12. QED BY <1>3, <1>4, <1>6, <1>7, <1>8, <1>9, <1>10, <1>11 DEF Shutdown

LEMMA BrainClosedKeeps == ASSUME ShutdownInv, BrainClosed PROVE Shutdown'
<1>1. main.pc = "close" /\ Component = "brain" /\ main \in MainRec /\ Shutdown /\ call["main"].pc = "done"
  BY DEF BrainClosed, ShutdownInv, Shutdown, Placed
<1>2. main.at = 4 BY <1>1, ComponentIs
<1>3. UNCHANGED <<http, lifecycleCtx, drained, process, recovery>> /\ Closed(call["main"].ok) BY DEF BrainClosed, browserVars
<1>4. OthersWait("main") /\ call'["main"].pc = "idle" BY MainCallOver DEF ShutdownInv, ProcessInv, BrainClosed
<1>5. QED BY <1>1, <1>2, <1>3, <1>4, CloseKeeps

LEMMA CloseWorkersKeeps == ASSUME Shutdown, CloseWorkers PROVE Shutdown'
<1>1. main.pc = "close" /\ Component \in {"accounts", "workers"} /\ main \in MainRec BY DEF CloseWorkers, Shutdown, Placed
<1>2. main.at <= 3 /\ (main.at = 2 => Component = "accounts") BY <1>1, ComponentIs
<1>3. UNCHANGED <<http, lifecycleCtx, drained, process, call, recovery>> BY DEF CloseWorkers, brainVars, browserVars
<1>4. CASE Closed(TRUE) /\ (Component = "accounts" => SessionsEnded)
  BY <1>1, <1>2, <1>3, <1>4, CloseKeeps DEF SessionsEnded
<1>5. CASE Closed(FALSE) BY <1>1, <1>2, <1>3, <1>5, CloseKeeps
<1>6. QED BY <1>4, <1>5 DEF CloseWorkers

LEMMA CloseBrowsersKeeps == ASSUME Shutdown, CloseBrowsers PROVE Shutdown'
<1>1. main.pc = "close" /\ Component = "browser" /\ main \in MainRec BY DEF CloseBrowsers, Shutdown, Placed
<1>2. main.at = 1 BY <1>1, ComponentIs
<1>3. UNCHANGED <<http, lifecycleCtx, drained, process, call, recovery>>
  BY DEF CloseBrowsers, brainVars, browserVars, RefuseOperations, StopDriver
<1>4. CASE \E ok \in BOOLEAN : Closed(ok)
  <2>1. PICK ok \in BOOLEAN : Closed(ok) BY <1>4
  <2>2. main.at <= 3 /\ main.at # 2 BY <1>2
  <2>3. QED BY <1>1, <1>3, <2>1, <2>2, CloseKeeps
<1>5. CASE UNCHANGED <<main, running>>
  <2>1. /\ recovery' \in [Accounts -> RecoveryRec]
        /\ \A a \in Accounts : recovery'[a].pc = recovery[a].pc /\ recovery'[a].browser = recovery[a].browser
    BY <1>3 DEF Shutdown, Recoveries
  <2>2. SamePoints BY <1>3 DEF SamePoints
  <2>3. QED BY <1>3, <1>5, <2>1, <2>2, Still
<1>6. QED BY <1>4, <1>5 DEF CloseBrowsers

\* A caller other than the coordinator begins, while nothing closes.
LEMMA BeginKeeps ==
    ASSUME Shutdown, NEW c \in Turns \cup Admins, OthersWait(c), c \in Turns => call'[c].op = "reply",
           ~Closing, NotYet', UNCHANGED <<main, http, lifecycleCtx, running, drained, process, recovery>>
    PROVE  Shutdown'
<1>1. Placed' /\ Recoveries' BY DEF Shutdown, Placed, Recoveries, Closing
<1>2. OwnCall' BY MainAlone, MainCalls DEF Shutdown, OwnCall, OthersWait
<1>3. TurnsAsk' BY MainAlone DEF Shutdown, TurnsAsk, OthersWait
<1>4. GivenUp' /\ BrainGone' /\ SessionsGone' BY DEF GivenUp, BrainGone, SessionsGone, Closing
<1>5. QED BY <1>1, <1>2, <1>3, <1>4 DEF Shutdown

LEMMA BeginTurnKeeps == ASSUME ShutdownInv, NEW c \in Turns, BeginTurn(c) PROVE Shutdown'
<1>1. /\ c \in Callers /\ Call(c, "reply") /\ "accounts" \in running /\ lifecycleCtx /\ Shutdown /\ BrainInv
      /\ UNCHANGED <<main, http, lifecycleCtx, running, drained, recovery>>
  BY DEF BeginTurn, browserVars, ShutdownInv, ProcessInv, Callers
<1>2. OthersWait(c) /\ call'[c].op = "reply" /\ process' = process BY <1>1, CallMoves
<1>3. ~Closing BY <1>1 DEF Shutdown, Placed
<1>4. NotYet' BY <1>1 DEF Shutdown, NotYet, NoneBegan
<1>5. QED BY <1>1, <1>2, <1>3, <1>4, BeginKeeps

LEMMA BeginRequestKeeps == ASSUME ShutdownInv, NEW c \in Admins, BeginRequest(c) PROVE Shutdown'
<1>1. PICK op \in {"reply", "restart"} : Call(c, op) BY DEF BeginRequest
<1>2. /\ c \in Callers /\ http.state = "serving" /\ Shutdown /\ BrainInv
      /\ UNCHANGED <<main, http, lifecycleCtx, running, drained, recovery>>
  BY DEF BeginRequest, browserVars, ShutdownInv, ProcessInv, Callers
<1>3. OthersWait(c) /\ process' = process BY <1>1, <1>2, CallMoves
<1>4. main.pc = "wait" BY <1>2 DEF Shutdown, Placed
<1>5. ~Closing BY <1>4 DEF Closing
<1>6. NotYet' BY <1>2, <1>4 DEF NotYet
<1>7. c \notin Turns BY MainAlone
<1>8. QED BY <1>2, <1>3, <1>5, <1>6, <1>7, BeginKeeps

\* A step of a call: with a dead context it begins no gateway, and the supervisor's close leaves none.
LEMMA CallStepKeeps == ASSUME ShutdownInv, NEW c \in Callers, CallStep(c) PROVE Shutdown'
<1>1. /\ BrainStep(c) /\ Shutdown /\ BrainInv /\ UNCHANGED <<main, http, lifecycleCtx, running, drained, recovery>>
  BY DEF CallStep, browserVars, ShutdownInv, ProcessInv
<1>2. Moves(c) BY <1>1, BrainMoves
<1>3. /\ OthersWait(c) /\ call[c].pc \notin {"idle", "done"} /\ call'[c].pc # "idle"
      /\ call'[c].op = call[c].op /\ call'[c].ctx = call[c].ctx
  BY <1>2 DEF Moves
<1>4. Placed' /\ Recoveries' /\ SessionsGone' BY <1>1 DEF Shutdown, Placed, Recoveries, SessionsGone, Closing
<1>5. NotYet' BY <1>1, <1>3 DEF Shutdown, NotYet, NoneBegan
<1>6. OwnCall' BY <1>1, <1>3, MainCalls DEF Shutdown, OwnCall, OthersWait
<1>7. TurnsAsk' BY <1>1, <1>3, MainAlone DEF Shutdown, TurnsAsk, OthersWait
<1>8. GivenUp' BY <1>1, <1>3, MainAlone DEF Shutdown, GivenUp, Closing, OthersWait
<1>9. BrainGone'
  <2> SUFFICES ASSUME Closing, drained, main.at <= 3 \/ call'["main"].pc = "done" PROVE QuietBrain'
    BY <1>1 DEF BrainGone, Closing
  <2>1. CASE c # "main"
    <3>1. call'["main"] = call["main"] BY <1>3, <2>1, MainCalls DEF OthersWait
    <3>2. QuietBrain BY <1>1, <3>1 DEF Shutdown, BrainGone
    <3>3. c \in Turns \cup Admins BY <2>1 DEF Callers
    <3>4. ~call[c].ctx BY <1>1, <1>3, <3>3 DEF Shutdown, GivenUp
    <3>5. process' = None /\ call'[c].pc # "ready" BY <1>2, <3>2, <3>4 DEF Moves, QuietBrain
    <3>6. QED BY <1>3, <3>2, <3>5 DEF QuietBrain, OthersWait
  <2>2. CASE c = "main"
    <3>1. call["main"].pc \notin {"idle", "done"} BY <1>3, <2>2
    <3>2. main.at = 4 /\ main.pc = "close" /\ call["main"].op = "close"
      BY <1>1, <3>1 DEF Shutdown, OwnCall, Closing
    <3>3. call'[c].pc = "done" BY <2>2, <3>2
    <3>4. process' = None /\ call[c].pc \in Inside BY <1>2, <2>2, <3>2, <3>3 DEF Moves
    <3>5. \A d \in Callers : d # c => call[d].pc \notin Inside BY <1>1, <3>4, Alone DEF BrainInv
    <3>6. \A d \in Callers : call'[d].pc # "ready" BY <1>3, <3>3, <3>5 DEF OthersWait, Inside
    <3>7. QED BY <3>4, <3>6 DEF QuietBrain
  <2>3. QED BY <2>1, <2>2
<1>10. QED BY <1>4, <1>5, <1>6, <1>7, <1>8, <1>9 DEF Shutdown

-----------------------------------------------------------------------------
(* The recoveries' browsers. *)

Recovers(a) ==
    /\ recovery' \in [Accounts -> RecoveryRec]
    /\ \A b \in Accounts : b # a => recovery'[b] = recovery[b]
    /\ recovery'[a].browser => recovery'[a].pc = "browse"

LEMMA RecoveryFields ==
    /\ \A r \in RecoveryRec, pc \in {"idle", "begin", "lock", "slot", "init", "browse", "refetch", "done"} :
         [r EXCEPT !.pc = pc] \in RecoveryRec
    /\ \A r \in RecoveryRec, engine \in {"", "primary", "fallback", "snapshot"} : [r EXCEPT !.job = engine] \in RecoveryRec
    /\ \A r \in RecoveryRec, n \in Nat : [r EXCEPT !.tries = n] \in RecoveryRec
    /\ \A r \in RecoveryRec, b \in BOOLEAN : [r EXCEPT !.ctx = b] \in RecoveryRec
    /\ \A r \in RecoveryRec, b \in BOOLEAN : [r EXCEPT !.browser = b] \in RecoveryRec
<1>1. \A r \in RecoveryRec, pc \in {"idle", "begin", "lock", "slot", "init", "browse", "refetch", "done"} :
        [r EXCEPT !.pc = pc] \in RecoveryRec
  BY Zenon DEF RecoveryRec
<1>2. \A r \in RecoveryRec, engine \in {"", "primary", "fallback", "snapshot"} : [r EXCEPT !.job = engine] \in RecoveryRec
  BY Zenon DEF RecoveryRec
<1>3. \A r \in RecoveryRec, n \in Nat : [r EXCEPT !.tries = n] \in RecoveryRec BY Zenon DEF RecoveryRec
<1>4. \A r \in RecoveryRec, b \in BOOLEAN : [r EXCEPT !.ctx = b] \in RecoveryRec BY Zenon DEF RecoveryRec
<1>5. \A r \in RecoveryRec, b \in BOOLEAN : [r EXCEPT !.browser = b] \in RecoveryRec BY Zenon DEF RecoveryRec
<1>6. QED BY <1>1, <1>2, <1>3, <1>4, <1>5

LEMMA OneRecovery ==
    ASSUME Recoveries, NEW a \in Accounts, NEW r \in RecoveryRec, recovery' = [recovery EXCEPT ![a] = r], r.browser => r.pc = "browse"
    PROVE  Recovers(a)
BY DEF Recoveries, Recovers

LEMMA MoveIs ==
    ASSUME Recoveries, NEW a \in Accounts, ~recovery[a].browser,
           NEW pc \in {"idle", "begin", "lock", "slot", "init", "browse", "refetch", "done"}, Move(a, pc)
    PROVE  Recovers(a)
<1> DEFINE r == [recovery[a] EXCEPT !.pc = pc]
<1>1. recovery' = [recovery EXCEPT ![a] = r] BY DEF Move, Recoveries
<1>2. recovery[a] \in RecoveryRec BY DEF Recoveries
<1>3. r \in RecoveryRec BY <1>2, RecoveryFields
<1>4. r.browser = recovery[a].browser BY <1>2 DEF RecoveryRec
<1> HIDE DEF r
<1>5. QED BY <1>1, <1>3, <1>4, OneRecovery

LEMMA JobIs ==
    ASSUME Recoveries, NEW a \in Accounts, ~recovery[a].browser, NEW engine \in {"primary", "fallback"}, Job(a, engine)
    PROVE  Recovers(a)
<1> DEFINE pc == IF engine = "fallback" THEN "slot" ELSE "begin"
           s  == [recovery[a] EXCEPT !.job = engine]
           r  == [s EXCEPT !.pc = pc]
<1>1. recovery' = [recovery EXCEPT ![a] = r] BY DEF Job, Recoveries
<1>2. recovery[a] \in RecoveryRec BY DEF Recoveries
<1>3. s \in RecoveryRec BY <1>2, RecoveryFields
<1>4. s.browser = recovery[a].browser BY <1>2 DEF RecoveryRec
<1> HIDE DEF s
<1>5. pc \in {"slot", "begin"} OBVIOUS
<1> HIDE DEF pc
<1>6. r \in RecoveryRec BY <1>3, <1>5, RecoveryFields
<1>7. r.browser = s.browser BY <1>3 DEF RecoveryRec
<1> HIDE DEF r
<1>8. QED BY <1>1, <1>4, <1>6, <1>7, OneRecovery

\* The browser is opened, or closed with whatever follows it.
LEMMA LaunchedIs ==
    ASSUME Recoveries, NEW a \in Accounts, recovery' = [recovery EXCEPT ![a].pc = "browse", ![a].browser = TRUE]
    PROVE  Recovers(a)
<1> DEFINE s == [recovery[a] EXCEPT !.pc = "browse"]
           r == [s EXCEPT !.browser = TRUE]
<1>1. recovery' = [recovery EXCEPT ![a] = r] BY DEF Recoveries
<1>2. recovery[a] \in RecoveryRec BY DEF Recoveries
<1>3. s \in RecoveryRec BY <1>2, RecoveryFields
<1>4. s.pc = "browse" BY <1>2 DEF RecoveryRec
<1> HIDE DEF s
<1>5. r \in RecoveryRec BY <1>3, RecoveryFields
<1>6. r.pc = s.pc BY <1>3 DEF RecoveryRec
<1> HIDE DEF r
<1>7. QED BY <1>1, <1>4, <1>5, <1>6, OneRecovery

LEMMA BrowserClosed ==
    ASSUME Recoveries, NEW a \in Accounts, NEW s \in RecoveryRec, recovery' = [recovery EXCEPT ![a] = [s EXCEPT !.browser = FALSE]]
    PROVE  Recovers(a)
<1> DEFINE r == [s EXCEPT !.browser = FALSE]
<1>1. r \in RecoveryRec BY RecoveryFields
<1>2. r.browser = FALSE BY DEF RecoveryRec
<1>3. recovery' = [recovery EXCEPT ![a] = r] OBVIOUS
<1> HIDE DEF r
<1>4. QED BY <1>1, <1>2, <1>3, OneRecovery

LEMMA OutcomeIs == ASSUME Recoveries, NEW a \in Accounts, Outcome(a) PROVE Recovers(a)
<1>1. recovery[a] \in RecoveryRec BY DEF Recoveries
<1>2. ASSUME NEW pc \in {"refetch", "done"}, recovery' = [recovery EXCEPT ![a].pc = pc, ![a].browser = FALSE]
      PROVE  Recovers(a)
  <2> DEFINE s == [recovery[a] EXCEPT !.pc = pc]
  <2>1. s \in RecoveryRec BY <1>1, RecoveryFields
  <2>2. recovery' = [recovery EXCEPT ![a] = [s EXCEPT !.browser = FALSE]] BY <1>2 DEF Recoveries
  <2> HIDE DEF s
  <2>3. QED BY <2>1, <2>2, BrowserClosed
<1>3. CASE recovery' = [recovery EXCEPT ![a].pc = "begin", ![a].job = "snapshot", ![a].browser = FALSE]
  <2> DEFINE q == [recovery[a] EXCEPT !.pc = "begin"]
             s == [q EXCEPT !.job = "snapshot"]
  <2>1. q \in RecoveryRec BY <1>1, RecoveryFields
  <2>2. recovery' = [recovery EXCEPT ![a] = [s EXCEPT !.browser = FALSE]] BY <1>3 DEF Recoveries
  <2> HIDE DEF q
  <2>3. s \in RecoveryRec BY <2>1, RecoveryFields
  <2> HIDE DEF s
  <2>4. QED BY <2>2, <2>3, BrowserClosed
<1>4. CASE recovery' = [recovery EXCEPT ![a].pc = "begin", ![a].tries = @ + 1, ![a].browser = FALSE]
  <2> DEFINE n == recovery[a].tries + 1
             q == [recovery[a] EXCEPT !.pc = "begin"]
             s == [q EXCEPT !.tries = n]
  <2>1. q \in RecoveryRec BY <1>1, RecoveryFields
  <2>2. recovery[a].tries \in Nat BY <1>1 DEF RecoveryRec
  <2>3. n \in Nat BY <2>2
  <2>4. q.tries = recovery[a].tries BY <1>1 DEF RecoveryRec
  <2>5. recovery' = [recovery EXCEPT ![a] = [s EXCEPT !.browser = FALSE]] BY <1>4, <2>4 DEF Recoveries
  <2> HIDE DEF q, n
  <2>6. s \in RecoveryRec BY <2>1, <2>3, RecoveryFields
  <2> HIDE DEF s
  <2>7. QED BY <2>5, <2>6, BrowserClosed
<1>5. QED BY <1>2, <1>3, <1>4 DEF Outcome

LEMMA BrowserSteps ==
    ASSUME Recoveries, NEW a \in Accounts, BrowserStep(a)
    PROVE  Recovers(a) /\ recovery[a].pc \notin {"idle", "done"}
<1>1. recovery[a].pc \notin {"idle", "done"}
  BY DEF BrowserStep, BeginOperation, LockAccount, AcquireRenewSlot, Launch, Browse, Refetch, At
<1>2. ASSUME Browse(a) PROVE Recovers(a)
  <2>1. Outcome(a) BY <1>2 DEF Browse
  <2>2. QED BY <2>1, OutcomeIs
<1>3. ASSUME ~Browse(a) PROVE Recovers(a)
  <2>1. ~recovery[a].browser
    BY <1>3 DEF Recoveries, BrowserStep, BeginOperation, LockAccount, AcquireRenewSlot, Launch, Refetch, At
  <2>2. \/ \E pc \in {"idle", "begin", "lock", "slot", "init", "browse", "refetch", "done"} : Move(a, pc)
        \/ Job(a, "fallback")
        \/ recovery' = [recovery EXCEPT ![a].pc = "browse", ![a].browser = TRUE]
    BY <1>3 DEF BrowserStep, BeginOperation, LockAccount, AcquireRenewSlot, Launch, Refetch, AfterFailure, Over, Move
  <2>3. ASSUME NEW pc \in {"idle", "begin", "lock", "slot", "init", "browse", "refetch", "done"}, Move(a, pc) PROVE Recovers(a)
    BY <2>1, <2>3, MoveIs
  <2>4. CASE Job(a, "fallback")
    <3>1. "fallback" \in {"primary", "fallback"} OBVIOUS
    <3>2. QED BY <2>1, <2>4, <3>1, JobIs, Zenon
  <2>5. CASE recovery' = [recovery EXCEPT ![a].pc = "browse", ![a].browser = TRUE] BY <2>5, LaunchedIs
  <2>6. QED BY <2>2, <2>3, <2>4, <2>5
<1>4. QED BY <1>1, <1>2, <1>3

\* A recovery begins while nothing closes, and goes on while the sessions are waited for.
LEMMA RecoveryKeeps ==
    ASSUME Shutdown, NEW a \in Accounts, Recovers(a), NotYet',
           recovery[a].pc \notin {"idle", "done"} \/ ~Closing,
           UNCHANGED <<main, http, lifecycleCtx, running, drained, process, call>>
    PROVE  Shutdown'
<1>1. Placed' /\ OwnCall' /\ TurnsAsk' /\ GivenUp' BY DEF Shutdown, Placed, OwnCall, TurnsAsk, GivenUp, Closing
<1>2. BrainGone' BY DEF Shutdown, BrainGone, QuietBrain, Closing
<1>3. SessionsGone' BY DEF Shutdown, SessionsGone, Closing
<1>4. Recoveries' BY DEF Shutdown, Recoveries, Recovers
<1>5. QED BY <1>1, <1>2, <1>3, <1>4 DEF Shutdown

LEMMA BeginRecoveryKeeps == ASSUME Shutdown, NEW a \in Accounts, BeginRecovery(a) PROVE Shutdown'
<1>1. /\ "accounts" \in running /\ lifecycleCtx /\ recovery[a].pc = "idle" /\ Job(a, "primary")
      /\ UNCHANGED <<main, http, lifecycleCtx, running, drained, process, call>>
  BY DEF BeginRecovery, Recover, At, brainVars
<1>2. ~recovery[a].browser BY <1>1 DEF Shutdown, Recoveries
<1>3. Recovers(a) BY <1>1, <1>2, JobIs DEF Shutdown
<1>4. ~Closing BY <1>1 DEF Shutdown, Placed
<1>5. NotYet' BY <1>1 DEF Shutdown, NotYet, NoneBegan
<1>6. QED BY <1>1, <1>3, <1>4, <1>5, RecoveryKeeps

LEMMA RecoveryStepKeeps == ASSUME Shutdown, NEW a \in Accounts, RecoveryStep(a) PROVE Shutdown'
<1>1. BrowserStep(a) /\ UNCHANGED <<main, http, lifecycleCtx, running, drained, process, call>> BY DEF RecoveryStep, brainVars
<1>2. Recovers(a) /\ recovery[a].pc \notin {"idle", "done"} BY <1>1, BrowserSteps DEF Shutdown
<1>3. NotYet' BY <1>1, <1>2 DEF Shutdown, NotYet, NoneBegan
<1>4. QED BY <1>1, <1>2, <1>3, RecoveryKeeps

LEMMA AbandonKeeps == ASSUME Shutdown, NEW a \in Accounts, Abandon(a) PROVE Shutdown'
<1>1. recovery' = [recovery EXCEPT ![a].ctx = FALSE] /\ UNCHANGED <<main, http, lifecycleCtx, running, drained, process, call>>
  BY DEF Abandon, CancelRecovery
<1> DEFINE r == [recovery[a] EXCEPT !.ctx = FALSE]
<1>2. recovery[a] \in RecoveryRec /\ recovery' = [recovery EXCEPT ![a] = r] BY <1>1 DEF Shutdown, Recoveries
<1>3. r \in RecoveryRec BY <1>2, RecoveryFields
<1>4. r.pc = recovery[a].pc /\ r.browser = recovery[a].browser BY <1>2 DEF RecoveryRec
<1> HIDE DEF r
<1>5. /\ recovery' \in [Accounts -> RecoveryRec]
      /\ \A b \in Accounts : recovery'[b].pc = recovery[b].pc /\ recovery'[b].browser = recovery[b].browser
  BY <1>2, <1>3, <1>4 DEF Shutdown, Recoveries
<1>6. SamePoints BY <1>1 DEF SamePoints
<1>7. QED BY <1>1, <1>5, <1>6, Still

\* Steps of the gateway, of the HTTP server and of the contexts.
LEMMA OthersKeep ==
    ASSUME ShutdownInv,
           \/ HttpStops \/ ServeFails \/ BudgetSpent \/ Signal \/ UNCHANGED vars
           \/ \E c \in Callers : Cancel(c)
           \/ \E g \in Generations : ProcessStep(g) \/ Crash(g)
    PROVE  Shutdown'
<1>1. Shutdown /\ BrainInv BY DEF ShutdownInv, ProcessInv
<1>2. CASE Signal
  <2>1. SamePoints /\ \A c \in Callers : call'[c].ctx => call[c].ctx
    BY <1>1, <1>2, LifecycleCtxEnds DEF Signal
  <2>2. /\ recovery' \in [Accounts -> RecoveryRec]
        /\ \A a \in Accounts : recovery'[a].pc = recovery[a].pc /\ recovery'[a].browser = recovery[a].browser
    BY <1>1, <1>2, RecoveriesEnd DEF Signal
  <2>3. UNCHANGED <<main, running, drained, http, process>> /\ lifecycleCtx' = FALSE BY <1>2 DEF Signal, EndLifecycleCtx
  <2>4. QED BY <1>1, <2>1, <2>2, <2>3, Still
<1>3. CASE ~Signal
  <2>1. UNCHANGED <<main, running, drained, lifecycleCtx, recovery>> /\ (http'.state = "serving" => http.state = "serving")
    BY <1>3 DEF HttpStops, ServeFails, BudgetSpent, vars, Cancel, ProcessStep, Crash, browserVars
  <2>2. process' \in {process, None}
    BY <1>3 DEF HttpStops, ServeFails, BudgetSpent, vars, Cancel, CancelCall, ProcessStep, Crash, GatewayStep, GatewayReady,
                GatewayDrained, WaitProcess, GatewayCrashes, brainVars
  <2>3. SamePoints /\ \A c \in Callers : call'[c].ctx => call[c].ctx
    <3>1. CASE call' = call BY <3>1 DEF SamePoints
    <3>2. ASSUME NEW c \in Callers, call' = [call EXCEPT ![c].ctx = FALSE],
                 UNCHANGED <<gateway, process, baseURL, mcpServer, intentionalStop, backends, operationMu>>
          PROVE  SamePoints /\ \A d \in Callers : call'[d].ctx => call[d].ctx
      <4>1. SamePoints /\ OthersWait(c) BY <1>1, <3>2, OneContextEnds
      <4>2. call'[c].ctx = FALSE BY <1>1, <3>2 DEF BrainInv, BrainTypes, CallRec
      <4>3. QED BY <4>1, <4>2 DEF OthersWait
    <3>3. \/ call' = call
          \/ \E c \in Callers : /\ call' = [call EXCEPT ![c].ctx = FALSE]
                                /\ UNCHANGED <<gateway, process, baseURL, mcpServer, intentionalStop, backends, operationMu>>
      BY <1>3, MainCalls DEF HttpStops, ServeFails, BudgetSpent, vars, Cancel, CancelCall, ProcessStep, Crash, GatewayStep,
                GatewayReady, GatewayDrained, WaitProcess, GatewayCrashes, brainVars
    <3>4. QED BY <3>1, <3>2, <3>3
  <2>4. /\ recovery' \in [Accounts -> RecoveryRec]
        /\ \A a \in Accounts : recovery'[a].pc = recovery[a].pc /\ recovery'[a].browser = recovery[a].browser
    BY <1>1, <2>1 DEF Shutdown, Recoveries
  <2>5. QED BY <1>1, <2>1, <2>2, <2>3, <2>4, Still
<1>4. QED BY <1>2, <1>3

LEMMA ShutdownMoves == ASSUME ShutdownInv, [Next]_vars PROVE ShutdownInv'
<1>1. ProcessInv' BY ProcessMoves DEF ShutdownInv
<1>2. Shutdown BY DEF ShutdownInv
<1>3. Shutdown'
  <2>1. CASE StartBrowser \/ StartWorkers BY <1>2, <2>1, StartBrowserKeeps, StartWorkersKeeps
  <2>2. CASE StartBrain \/ BrainStarted BY <2>2, StartBrainKeeps, BrainStartedKeeps
  <2>3. CASE Serve \/ StopHttp BY <1>2, <2>3, ServeKeeps
  <2>4. CASE CancelLifecycle \/ CloseBrain \/ BrainClosed BY <2>4, CancelLifecycleKeeps, CloseBrainKeeps, BrainClosedKeeps
  <2>5. CASE CloseWorkers \/ CloseBrowsers BY <1>2, <2>5, CloseWorkersKeeps, CloseBrowsersKeeps
  <2>6. CASE HttpStops \/ ServeFails \/ BudgetSpent \/ Signal \/ UNCHANGED vars BY <2>6, OthersKeep
  <2>7. ASSUME NEW c \in Turns, BeginTurn(c) \/ Cancel(c) PROVE Shutdown'
    <3>1. c \in Callers BY DEF Callers
    <3>2. QED BY <2>7, <3>1, BeginTurnKeeps, OthersKeep
  <2>8. ASSUME NEW c \in Admins, BeginRequest(c) \/ Cancel(c) PROVE Shutdown'
    <3>1. c \in Callers BY DEF Callers
    <3>2. QED BY <2>8, <3>1, BeginRequestKeeps, OthersKeep
  <2>9. ASSUME NEW c \in Callers, CallStep(c) PROVE Shutdown' BY <2>9, CallStepKeeps
  <2>10. ASSUME NEW g \in Generations, ProcessStep(g) \/ Crash(g) PROVE Shutdown' BY <2>10, OthersKeep
  <2>11. ASSUME NEW a \in Accounts, BeginRecovery(a) \/ RecoveryStep(a) \/ Abandon(a) PROVE Shutdown'
    BY <1>2, <2>11, BeginRecoveryKeeps, RecoveryStepKeeps, AbandonKeeps
  <2>12. QED BY <2>1, <2>2, <2>3, <2>4, <2>5, <2>6, <2>7, <2>8, <2>9, <2>10, <2>11 DEF Next, MainStep
<1>4. QED BY <1>1, <1>3 DEF ShutdownInv

LEMMA ShutdownStarts == ASSUME Init PROVE ShutdownInv
<1>1. ProcessInv BY BrainStarts DEF Init, ProcessInv
<1>2. main \in MainRec /\ main.pc = "start" /\ main.at = 1 /\ http.state = "bound" BY DEF Init, MainRec
<1>3. NoRecovery \in RecoveryRec /\ NoRecovery.pc = "idle" /\ NoRecovery.browser = FALSE BY DEF NoRecovery, RecoveryRec
<1>4. \A a \in Accounts : recovery[a] = NoRecovery BY DEF Init, BrowserInit
<1>5. Recoveries BY <1>3, <1>4 DEF Init, BrowserInit, Recoveries
<1>6. NoCall.pc = "idle" BY DEF NoCall
<1>7. \A c \in Callers : call[c].pc = "idle" BY <1>6 DEF Init, BrainInit
<1>8. NoneBegan BY <1>3, <1>4, <1>7 DEF Init, BrainInit, NoneBegan, QuietBrain
<1>9. Placed /\ NotYet BY <1>2, <1>8 DEF Placed, NotYet, Closing
<1>10. OwnCall /\ TurnsAsk BY <1>7, MainCalls, MainAlone DEF OwnCall, TurnsAsk
<1>11. GivenUp /\ BrainGone /\ SessionsGone BY <1>2 DEF GivenUp, BrainGone, SessionsGone, Closing
<1>12. QED BY <1>1, <1>5, <1>9, <1>10, <1>11 DEF ShutdownInv, Shutdown

\* A shutdown that reports no error, and found no request in flight, leaves nothing behind: no gateway, no
\* backend, no browser of an account (main.go:509, coordinator.go:214-306).
THEOREM CleanExitHolds == Spec => []CleanExit
<1>1. Init => ShutdownInv BY ShutdownStarts
<1>2. ShutdownInv /\ [Next]_vars => ShutdownInv' BY ShutdownMoves
<1>3. ShutdownInv => CleanExit
  <2> SUFFICES ASSUME ShutdownInv, main.pc = "exit", ~main.errs, drained
               PROVE  (\A g \in Generations : ~Alive(g)) /\ backends = {} /\ \A a \in Accounts : ~recovery[a].browser
    BY DEF CleanExit
  <2>1. Shutdown /\ BrainInv /\ main.at = 1 /\ Closing BY DEF ShutdownInv, ProcessInv, Shutdown, Placed, Closing
  <2>2. QuietBrain
    <3>1. main.at <= 3 BY <2>1
    <3>2. QED BY <2>1, <3>1 DEF Shutdown, BrainGone
  <2>3. \A g \in Generations : g # process /\ ~Ready(g) BY <2>2, NoneIsNone DEF QuietBrain, Ready
  <2>4. \A g \in Generations : ~Alive(g) /\ g \notin backends BY <2>1, <2>3 DEF BrainInv, Owned
  <2>5. backends = {} BY <2>1, <2>4 DEF BrainInv, BrainTypes
  <2>6. \A a \in Accounts : ~recovery[a].browser BY <2>1 DEF Shutdown, SessionsGone, Recoveries
  <2>7. QED BY <2>4, <2>5, <2>6
<1>4. QED BY <1>1, <1>2, <1>3, PTL DEF Spec

=============================================================================
