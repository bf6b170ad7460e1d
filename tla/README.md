# Verification of the marketplace server

This directory holds a TLA+ development of the server under `src/`: modules that
model what its components do, TLC configurations that check them on small
instances, and theorems about them whose proofs TLAPS checks for every value of
the constants. `PROJECT.json` lists the components, the runs, the hazards, the
theorems and, for every definition, the lines of source it stands for.

## 1. The system

A Go server (`src/internal`, `src/cmd/server`) manages seller accounts of a
marketplace. Each account has a connection to the platform's message service.
Events that arrive there (an order was created, paid, reviewed) and scans start
*automation runs*, which deliver goods, change prices and confirm shipments.
Messages of buyers are stored for the chat page and answered, if the operator
wants it, by keywords, by an API, by the Brain or by a default text. Several
processes may share one database (SQLite, MySQL or PostgreSQL); a child process,
the Brain gateway, and a browser belong to one server.

| Component | State | Operations | Talks to | Hard behaviour |
| --- | --- | --- | --- | --- |
| Run rows (`db/automation*.go`) | `automation_runs` | TryStartRun, reclaim, StartRunAction, AdvanceRunAction, AbortRunAction, QuarantineRun*, FinishRun, PostponeRecoveryRun | every worker | conditional UPDATEs are the only mutual exclusion |
| Run coordinator (`automation/run_coordinator.go`) | the worker's snapshot of a run | executeRule, executeRunActions | rows, executors, deferred tasks | crash between call and checkpoint, lost lease, failed statement |
| Center, scheduler (`automation/center.go`, `scheduler.go`) | none of their own | handleTask, ManualFullDelivery, scan, runRecoveryTasks, runDeferredTasks | coordinator, rows, queue | four kinds of workers on one run |
| Deferred tasks (`db/automation_recovery.go`) | `automation_pending_tasks` | DeferTask, ClaimDueDeferredTasks, FinishDeferredTask, ResolveDeferredIssue | scheduler, operator | claim versions, lost claims, budget of five |
| Issue resolution, rules (`db/automation*.go`, `application/automation`) | `automation_rules` | ListIssues, ResolveRunIssue, Match, Update, Delete | rows, center | a decision on one read, the write in another statement; deletion with open runs |
| Executors, card stock (`automation/*_executor.go`, `db/delivery.go`, `db/orders_ext.go`) | mutex per card group, `cards.data_content` | sendCard, sendTemplate, adjustOrderPrice, confirmShipment; consume, restore, append, form save | platform, card pages | outcomes unknown after a timeout; read, compare, write by three kinds of writers |
| Orders (`db/orders.go`, `application/orders`, `reconciliation`) | `orders`, `order_reconciliations` | Upsert, list and detail sync, manual shipping, edit, delete, import, reconciliation | platform, center | versioned and unversioned writers of one row |
| Refresh jobs (`application/orders`, `db/order_refresh_jobs.go`) | `order_refresh_jobs` | CreateAndStart, RunJob, CancelJob, RunRecovery, Stop | platform | recovery, cancel against complete, timeout |
| Batch publishing (`application/items`, `db/item_publish_batches*.go`) | batch and its rows, registry of workers | StartBatch, RetryFailedBatch, CancelBatch, Delete, recovery, Run | platform | remote step between two checkpoints, displaced workers |
| Notification outbox (`notify`, `db/notifications.go`) | `notification_outbox`, channels, bindings | EnqueueOutbox, ClaimOutbox, CompleteOutbox, MarkOutboxUncertain, RetryOutbox | every component | lease over a batch, uncertain sends |
| Account runtime (`account`, `engine`, `renewal`, `adapter`) | instances, credential, fences, gates | Start, Stop, Restart, login, edit, enable, disable, delete, renewal, token refresh | platform, browser | platform calls without the credential lock; stop against start |
| Connection (`xianyu/ws`, `engine/connection_*.go`, `message_dispatcher.go`) | socket, queue of pushes, slots | dial, read pump, receive, acknowledge, dispatch, heartbeat, rotation | center, chat, replies | acknowledgement before work, congestion, dead lines |
| Chat (`chat`, `db/chat.go`, `application/chat`) | `chat_sessions`, `chat_messages` | pushed messages, list and history pages, sends, receipts, reads | engine, web page | two sources of one message, counts computed and written apart |
| Buyer replies, AI pricing (`engine/reply.go`, `db/reply.go`, `db/ai_reply.go`, `automation/ai_pricing.go`) | `brain_turns`, `default_reply_records`, `ai_bargain_quotes` | Handle, BeginTurn, reuseExistingTurn, SaveQuote, ClaimPendingQuote | Brain, platform | repeated messages, overlapping answers, a quote claimed once |
| Brain supervisor (`brainruntime`) | child process, token, backend | Start, Reply, Restart, UpdateSettings, Close, waitProcess | gateway, accounts | an exit at any time, a stop that somebody waits for |
| Browser manager (`browser`) | installation, driver, locks and slots | Install, beginOperation, Recover, Close | accounts | closing against work in progress |
| Process (`cmd/server`, `server`, `application/lifecycle`) | started components, HTTP server | start in order, rollback, signal, close in reverse, exit | all | one budget for all, requests in flight |
| Account tasks, authentication, secrets, migrations, frontend, gateway, packaging | | | | mostly I/O or other languages; see section 7 |

How they interact: *calls* (a handler calls the center, which calls the
coordinator, which calls an executor), *shared rows* (everything that must
survive a crash is a row, claimed with a token or a version and a lease),
*in-process registries* (instances of accounts, workers of batches and refresh
jobs, mutexes of card groups), *queues* (pushes of a connection, slots of the
dispatcher, deferred tasks, the outbox) and *contexts* (whose end stops
goroutines and, as it also carries statements, may keep an outcome from being
saved).

What makes them correct: nothing is sent, published, priced or announced twice
without a reason somebody can name; nothing is done behind an unknown result;
shipment is confirmed only for what was delivered; no card line, acknowledged
event, deferred task or message of the outbox vanishes; late workers, late
answers and slow pages do not overwrite what others have done since; and
whatever was begun ends where somebody can see it, also across a crash, a stop
and a shutdown.

## 2. Modules

| Module | Models |
| --- | --- |
| `RunRow` | one row of `automation_runs`; each SQL statement as a WHERE clause (`CanX(r, ...)`) and a SET list (what the row becomes). No variables. |
| `AutomationRuns` | extends `RunRow`: one run, its workers, its deferred task, operators, the rule, time and failures |
| `DeliveryPromise` | the abstract specification: what a run promises, without leases, attempts, workers or checkpoints; `AutomationRuns` implements it |
| `CardStock` | one data card group: sellers, uploads, form saves, the in-process lock |
| `OrderFacts` | one order's row, its paid event and replays, syncs, manual shipping, edits, rules and the reconciliation of its shipment |
| `DeferredTasks` | one row of `automation_pending_tasks` and the schedulers that claim it |
| `Connection` | one account's socket, read pump, receive loop, heartbeat, token timer and handler slots |
| `EventIntake` | composes `Connection` and `DeferredTasks`: a pushed event from the socket to its run or its deferred task |
| `RefreshJobs` | one row of `order_refresh_jobs` and the runner of one process |
| `BatchPublish` | one batch of items, its requests, workers and recovery |
| `NotifyOutbox` | channels, bindings, the outbox's rows and the worker of each process |
| `AccountRuntime` | one account: row, instances, and everybody who changes its credential or restarts it |
| `BuyerReplies` | one conversation's answers, turns, default replies and quotes, and the orders that claim a quote |
| `Chat` | one conversation on the platform and the program's copy of it |
| `BrainSupervisor` | the gateway process, its backend and its callers |
| `BrowserManager` | installation, recoveries of accounts, closing |
| `ServerProcess` | composes `BrainSupervisor` and `BrowserManager` with the HTTP server and the lifecycle coordinator |
| `MCAutomationRuns`, `MCCardStock` | plans, stocks and symmetry sets for TLC |
| `AutomationRunsProofs`, `StockAndOutboxProofs` (`CardStock`, `NotifyOutbox`), `MessagesProofs` (`EventIntake`, `Chat`), `ShutdownProofs` (`RefreshJobs`, `ServerProcess`), `BatchPublishProofs`, `OrderFactsProofs`, `AccountRuntimeProofs`, `BuyerRepliesProofs` | the theorems of section 5 |

Conventions of all modules. One action is one SQL statement, one external call
or one stretch of code under one lock, so whatever interleaves in the program
interleaves here. A goroutine or request is a record whose `pc` names the
statement it executes next. What an external system does is chosen together with
what the caller hears of it, and the two may disagree. Time is abstracted to what
conditions compare: a lease is live or has lapsed, a retry is due or not. History
variables (marked `history`) serve properties only. Modules that one proof module
extends together name their specifications apart: `OutboxSpec` and `FairOutbox`,
`RefreshSpec` and `FairRefresh`, `IntakeSpec` and `FairIntake`, `ChatSpec` and
`FairChat`. Faults, acts of users and
sizes of histories are bounded by constants whose comment says `bound`.

**AutomationRuns.** `row`, `rule`, `pend` are the three rows; `work[w]` is a
goroutine with its local copy of the run; `op[o]` is a request of the
resolution endpoint. The program points: `load` (GetRun), `loop` (the head of
the loop over actions), `exec` (executeActionNow), `advance`, `abort`,
`uncertain` (the three checkpoints after the call), `stuck` (QuarantineRun after
a failed checkpoint), `partial` (QuarantineRunResult), `finish`, `finishq`
(FinishRun and its fallback), `count` (IncrementReviewRequest), `defer`
(DeferTask), `settle` (FinishDeferredTask), and for the scans `recover`, `gone`,
`claim`, `replay`. `StatementFails(w)` makes the next statement fail without
effect and follows the code's error path; `Crash(w)` forgets the worker. Error
messages are abstracted to the classes the code tells apart: `[safe_retry]`,
`[no_retry]`, "rule gone" and others. `delivery_proof` is the set of plan
positions whose content it holds.

**CardStock.** A card line is a model value. Consume, restore and append read
the column and write it back if it is unchanged, at most `MaxTries` (20 in the
code) times. A definitely unsent line is restored; a line delivered, or whose
delivery is unknown, stays consumed. All sellers run in one process, which is
what the in-process lock of `lockCard` assumes.

**OrderFacts.** A writer of the order reads status and version and updates where
the version is unchanged; the version appears as the flag "nothing was written
since I read", which every write that raises the version takes from the others.
Three writers do not raise it (edit, deletion, event times), as in the code. The
loop that reconciles a confirmed but unrecorded shipment has a slot of its own.

**DeferredTasks, Connection, EventIntake.** Selection and claim of a deferred
task are two statements; a row's id never comes back after its deletion, its claim
counter does after a deferral or a revival. A connection acknowledges a push
before it dispatches it. A system event waits for a slot in the receive loop, a
chat message is dropped when none is free. In the composition a handler runs the
automation of the event (`Handled`), defers it into the row of `DeferredTasks`, or
fails, which is only logged.

**RefreshJobs.** A worker is named by the token it was claimed with. `job` is the
row, `registry` the map `runner.workers` at the job's id, `active` the counter
Close waits for, `workers[t].live` says that the worker's Context is not done:
it is ended by the 30-minute timeout, a newer StartJob, a cancellation and the
shutdown, and from then on `complete` writes nothing, because the statement runs
under the same Context. `phase` follows closeServerRuntime and the coordinator:
the Context of all workers is canceled first, then the runner is stopped, then
Close waits. Requests may outlive the draining of the HTTP server.

**BatchPublish.** Batch and rows are as stored; a worker is named by the token of
its claim, drawn from a counter. Between the checkpoint `remote_started` and the
saved item number the item may or may not be on the platform, and a row found
there is `uncertain_remote`. Start, retry and the recovery scan claim and start a
worker in separate steps; a cancellation marks, then signals.

**NotifyOutbox.** A keyed event has one row per channel while its row exists. A
worker claims its due rows with one lease and sends them one after the other;
after a send it confirms, and if that fails it isolates the row as uncertain.

**AccountRuntime.** A credential is the login it descends from and a stamp that
every write renews. What happens under LockAccountCredentials is one step; a
platform call is two, the lock released between them. `fence` is
`Manager.stopping`, `turn` the transition lock of the settings service, `rescue`
the protocol renewal that several callers share.

**BuyerReplies.** Workers are calls of `ReplyService.Handle`; `turn` is the
ledger of Brain turns per message; `quotes` the rows an order of the same buyer
claims before it changes the price. Answers may overlap, since only part of the
chain holds the conversation's lock.

**Chat.** Times are ticks of one clock, because the code orders by them. An own
message may have two rows, under its local and under its platform key. A page of
the list is read, merged and written in steps that pushes and reads interleave.

**BrainSupervisor, BrowserManager, ServerProcess.** A generation is one start of
the gateway with its token and its backend. A recovery holds the account's lock
and a slot and uses up to three engines. `components` is the order of
registration with the goroutine-only components summed up as `workers` and
`accounts`. A gateway that the process leaves behind lives on, goroutines do not.

## 3. Runs

| Run | Checks | Instance |
| --- | --- | --- |
| `runs_paid` | AtMostOnce, ConfirmAfterDelivery, KeepsPromise, OutcomeIsFinal, ProofIsWhatWasSent | card then confirmation; 2 workers (symmetric), 2 operators with 2 decisions, 3 attempts, 5 claims, 1 fault, 1 edit of the rule; 6.0 million states |
| `runs_reminder` | Settles | a delayed reminder that is counted; 2 workers, 1 operator, 1 fault, 1 claim of the deferred task |
| `stock` | OnePlace, OrdersEnd | 2 lines and an upload of 1; 2 sellers, 1 upload, 1 form, 3 orders, 1 crash, 2 tries; 0.6 million states |
| `orders` | AnotherRuleNeedsAReason, ConfirmedIsRecorded, NoWayBack | every pair of ten kinds of writers, the reconciliation loop, 1 command, 1 fault; an account rule and two item rules |
| `intake` | EventsAreKept, OnlyHolderFinishes, EventsSettle, DeadLineIsLeft | 1 event, 1 chat, 1 slot, 1 place in the queue, 2 schedulers, 2 claims, 1 deferral, and one fault of each module; 0.5 million states |
| `refresh` | OneLiveWorker, ClosedIsQuiet, JobsEnd | one job, 3 disturbances and a cancellation; 0.3 million states |
| `batch` | PublishedOnce, OneOwner, Closes | 2 rows, 2 acts of the user, 1 fault |
| `outbox` | DuplicatesAreFew, UncertainStays, LiveLeaseIsRespected, Resolves | 2 processes, 1 channel, 1 keyed event reported twice, 1 alert, 2 attempts, 1 act, 1 fault; 0.8 million states |
| `account` | OneLiveInstance, NoSessionBehindDisable, OnlyUnlockedWritesLose, DisabledGoesQuiet | every pair of nine kinds of flows, up to 3 instances, 1 fault |
| `replies` | BrainAtMostOnce, ChangedAtMostOnce, ClaimedQuoteEnds, HandlersEnd | 2 bargaining messages, one pushed twice, 1 order pushed twice, 2 calls at a time, 1 upset |
| `chat` | ToldOnce, SyncKeepsNewer, SendsSettle | 2 messages of the buyer (one a notice), 1 own message, 1 page at a time, 2 acts |
| `process` | OneGateway, BackendHasOwner, CleanExit, ShutdownEnds | 1 turn, 1 administrator, or 1 account's recoveries; 2 gateways, 1 fault of the gateway |

What they show, by concern:

- *Nothing twice.* AtMostOnce: no action of a run reaches the outside twice,
  except what an operator decided against the rules of resolution, and templates.
  PublishedOnce: no item of a batch is published twice. ChangedAtMostOnce and
  BrainAtMostOnce: no price change and no answer of the Brain happens twice.
  DuplicatesAreFew: over all notifications together, the deliveries beyond those
  asked for are at most as many as there were faults and acts of an operator,
  however long the batch a fault interrupts. ToldOnce: a message is announced
  once. AnotherRuleNeedsAReason: a second rule delivers for the same order only when
  rules were switched or the first match did not know the item.
- *Nothing behind an unknown result.* KeepsPromise: a run implements
  `DeliveryPromise`: actions in plan order, none after it was skipped, success
  only at the end of the plan. OutcomeIsFinal: a finished or canceled run is never
  revived and only an operator leaves a review. ConfirmAfterDelivery and
  ProofIsWhatWasSent: shipment is confirmed after every earlier card was recorded
  as sent, or knowingly skipped, with a proof that names nothing but earlier cards
  that went out as recorded, or positions an operator overruled. UncertainStays: no
  worker takes an isolated message out of isolation.
- *Nothing vanishes.* OnePlace: a card line is in the stock, in one hand or with
  one buyer. EventsAreKept: an acknowledged event whose handler ended without an
  error was handled or is a deferred task. ConfirmedIsRecorded: a shipment the
  platform confirmed is recorded, or a reconciliation waits for it.
- *Late parties are harmless.* OneOwner, OneLiveWorker, OnlyHolderFinishes and
  LiveLeaseIsRespected fence displaced workers. NoWayBack: no late writer takes an
  order back, and a quote that an order claimed stays that order's with a final end
  (ClaimedQuoteEnds). SyncKeepsNewer: a page of the list takes no newer message away,
  as long as one page is applied at a time. OnlyUnlockedWritesLose: an answer to
  an older login overwrites a newer one only at the places that write without the
  credential lock. OneLiveInstance, NoSessionBehindDisable, OneGateway,
  BackendHasOwner, ClosedIsQuiet and CleanExit: restarts, stops and shutdowns leave
  one or none of what there should be one or none of; CleanExit speaks of shutdowns
  that report no error and found no request in flight.
- *Everything ends.* Settles, OrdersEnd, EventsSettle, JobsEnd, Closes, Resolves,
  DisabledGoesQuiet, HandlersEnd, SendsSettle, DeadLineIsLeft,
  ShutdownEnds.

**Bounds.** Two workers (sellers, schedulers, processes, calls) are enough for
every race in this code: all of them act through the same statements, and each
conflict needs one party that read before and one that wrote since. One fault
covers what follows a single crash, failed statement, lapse or timeout at any
point; where recovery itself may be disturbed (`refresh`) there are three. Longer
histories are the business of the proofs, which have no bounds. `MaxAttempts` of
the runs is the code's 3 and `MaxClaims` in `runs_paid` the code's 5; elsewhere
limits are lowered (tries 20 to 2, attempts 10 to 2, slots and queues to 1) so
that they are reached. In `orders` and `account` all pairs of writers or flows
meet, not all triples. In `intake` the fault bound is shared by all disturbances
of the connection. In `process`, `Mixed = FALSE` keeps recoveries out of the
behaviours with turns or requests: the two modules share only the shutdown's
budget, and both kinds of behaviours include it. `MaxClaims` of `BatchPublish` and
the number of tokens in `RefreshJobs` follow from the other bounds. Bounds that
end a history early (acts, faults) appear in guards of environment actions. Two of
`AccountRuntime` guard steps of the program, `MaxInst` (instances started, enough
for the acts and faults of the run) and `MaxStamp` (writes of the credential): a
behaviour that has used up its writes takes those alternatives of a step that write
none. The theorems about the module hold for every value of both.

**Fairness.** Weak fairness of the steps of a goroutine says that it runs and that
its calls return, which the code ensures with timeouts.
- `AutomationRuns`: handlers go on; the recovery scan runs every minute, the
  deferred scan every second (`scheduler.go:52-84`); leases and retry times pass.
  Strong fairness of RecoveryCheck and RecoveryClaim while the run is claimable
  says that an account is not paused or offline at every scan.
- `CardStock`: a delivery goes on; strong fairness of StartRestore stands for Go's
  mutex, which serves whoever waits.
- `EventIntake`: each goroutine of the connection, each handler, each scheduler's
  selection and replay, and the clock.
- `RefreshJobs`: goroutines run, Refresh returns (its Context is bounded), the
  ticker ticks, and the service manager starts the process again; a request hangs
  between its claim and its start only as long as the scheduler lets it.
- `BatchPublish`: the scan recurs, leases lapse, callers and workers go on, a
  stopped process ends and is started again.
- `NotifyOutbox`: workers go on, back-off ends, a lease lapses when nobody works on
  the row.
- `AccountRuntime`: engines, late answers, the shared renewal and the flows go on.
- `BuyerReplies`, `Chat`: calls of Handle, orders' handling, and sends go on.
- `OrderFacts`: the reconciliation loop goes on; its properties are safety.
- `ServerProcess`: the main goroutine, the HTTP server's stop, the callers, the
  gateway process and the recoveries go on.

Nothing is assumed of operators, users, crashes, broken lines or what external
systems answer. Deadlock is not checked: a finished run, an empty queue, a
stopped account and a process that has exited are states of rest; that a
component does not stop before is what the liveness properties say.

## 4. Where code and documents differ

These formulas are defined beside the properties, each with the document,
comment or test that suggests it. The model violates them, so no run lists
them; the properties above are stated with the exemption that remains.

| Module | Formula | What happens |
| --- | --- | --- |
| `AutomationRuns` | NeverTwice | `sendTemplate` reports nothing sent when a later message cannot be loaded; the run is retried and the first messages are sent again |
| | NoStaleDecision | `ResolveRunIssue` updates by id and status alone and may apply a decision to a later review, for which it is not allowed |
| | ProofIsComplete | `FinishRun` clears the proof of a failure that a late recovery scan moves to review and an operator retries; of two cards the proof then names the second only |
| | DeletedRuleIsDone | `Delete` overlooks failed runs that may still be retried although part of the plan was delivered; they end in a review nobody sees |
| `CardStock` | SoldOnce | saving the card form restores lines sold since it was opened |
| `BatchPublish` | CancelHolds | a row may begin to be published after the cancellation was accepted |
| `OrderFacts` | AdvancedStays | a paid task deferred with the status "unknown" writes it over what the sync recorded since |
| | OneRunPerOrder | a paid message without the item runs the account's rule, full delivery by hand the item's |
| `AccountRuntime` | LoginHolds | an answer to an older login overwrites a saved one, at the places that write without the lock |
| | DisabledIsOffline | a disabled account stays online until its instance is stopped |
| `BuyerReplies` | PendingIsLastTold | overlapping answers save their quotes in the other order |
| | RoundsAreLimited | bargain rounds are never counted (`docs/wiki/AI、通知与运维.md:9`) |
| | SkippedIsSilent | a call that waited out marks the turn of the one that sends as skipped |
| | OnlyMissingParts | a claim sends the parts of the row it read before |
| `Chat` | ReadWasSeen | a receipt without a matching row marks the newest own message (`db/chat.go:542`) |
| | ReadStaysQuiet | a slow page brings back the red point of what was read (`chat/service_test.go:413`) |
| `ServerProcess` | StartDisturbsNobody | a caller that gave up while it waited takes its failed probe for a dead gateway and kills it (`supervisor.go:262`) |
| | RequestsAreDrained | after a signal the second Stop returns at once, with requests in flight (`main.go:532`) |

Further observations that properties name as exemptions or that reading showed:

- A process that dies during the fifth claim of a deferred task leaves a running
  row that nobody may claim and no list shows, although the list of issues should
  (`docs/wiki/自动化发货与回复.md:41`); EventsSettle exempts it.
- A replay joins a running run without claiming it, so the lease does not give
  exclusive execution (`lifecycle-inventory.md:47`); AtMostOnce shows that the
  checkpoints do.
- A refresh job that is queued when its creator or the recovery is interrupted
  stays queued; JobsEnd names that case.
- An acknowledged event whose handler fails is logged and lost; stopping or
  restarting an account loses the acknowledged events in hand (`excused`).
- A full queue of pushes stops the reading of heartbeat answers: a heartbeat
  failure under load does not mean that the platform is silent.
- A debounced burst of messages stores and announces only the last one until a
  history page brings the others; a history page stored before its push keeps the
  push from being counted.
- Pages of the conversation list may overlap. One that finds the conversation hidden
  deletes its row, a slower one creates it again with its older time, and its count
  then hides a message that was stored in between: the guard of
  `db/chat.go:136` compares with a time that is gone.
- `CompleteOutbox` deletes the row and with it the idempotency key; a graceful
  shutdown between send and confirmation sends the message again.
- An expired session turns one batch row per minute into `uncertain_remote`, as
  recovery begins the batch anew each time.
- After a reconciliation was resolved, a new failure returns the resolved id.
- The list sync undeletes orders an operator deleted.
- `ClaimPendingQuote` without a valid quote rolls back its own expiry of the
  others; a queued turn of a crashed process leaves the re-pushed message
  unanswered.
- An administrator's restart in flight during the shutdown may start a gateway
  after CloseContext; CleanExit names that orphan.

## 5. Proofs

Every theorem holds for all values of the constants that satisfy the named
assumptions (types of the parameters; the plan of a run is a sequence of the
five action types; the lines of a stock are distinct from the value for none).
Every safety property of the runs is one of them. In brackets, results about
formulas that the modules state and no run lists.

| Module | Theorems | Inductive invariant |
| --- | --- | --- |
| `AutomationRunsProofs` | AtMostOnceHolds, OutcomesStay (TypeCorrect, CheckpointsHold) | CheckpointsBracketCalls |
| | ConfirmAfterDeliveryHolds, KeepsPromiseHolds (PromiseHolds) | PromiseInv |
| | ProofIsWhatWasSentHolds (ProofHolds) | ProofInv |
| | (ReminderIsCountedHolds) | CountInv |
| `StockAndOutboxProofs` | OnePlaceHolds | StockInv |
| | UncertainStaysHolds, LiveLeaseIsRespectedHolds | RowsInv |
| | DuplicatesAreFewHolds (NothingLostHolds) | OutboxInv |
| `MessagesProofs` | OnlyHolderFinishesHolds, EventsAreKeptHolds | HolderInv, KeptInv |
| | ToldOnceHolds, SyncKeepsNewerHolds (SentArrivedHolds) | ChatInv |
| `ShutdownProofs` | OneLiveWorkerHolds, ClosedIsQuietHolds (OutcomeStaysHolds) | LiveIsRegistered, Counted |
| | OneGatewayHolds, BackendHasOwnerHolds (ProcessHolds) | ProcessInv |
| | CleanExitHolds | ShutdownInv |
| `BatchPublishProofs` | OneOwnerHolds (CancelingOnlyCancelsHolds) | OwnerInv |
| | PublishedOnceHolds | SentInv |
| `OrderFactsProofs` | NoWayBackHolds, ConfirmedIsRecordedHolds, AnotherRuleHolds (FactsHold) | FactsInv |
| `BuyerRepliesProofs` | BrainAtMostOnceHolds, ChangedAtMostOnceHolds, ClaimedQuoteEndsHolds (OnePendingQuoteHolds, RepliesHold) | RepliesInv |
| | (DefaultPartsAreFewHolds) | PartsInv |
| `AccountRuntimeProofs` | OneLiveInstanceHolds, NoSessionBehindDisableHolds, OnlyUnlockedWritesLoseHolds (AccountHolds) | AccountInv |

All proofs have one shape: a lemma says what a *quiet* step leaves alone, one lemma
per action shows that it is quiet or how it moves what the invariant speaks of, and
the theorem puts the actions together.

**AtMostOnce** is not inductive: from a state in which two workers sit inside one
action it can be violated in one step. `CheckpointsBracketCalls` adds what the
checkpoints around a call ensure. Beyond the row's cursor nobody has begun
anything (`AheadIsUntouched`); at the cursor nobody has either while
action_started is 0 (`UnstartedIsUntouched`), a canceled run apart, which keeps
its late callers but can start nothing any more; and a worker inside an action
that has not been performed is alone there (`OneActor`). It holds although several
workers may share an attempt.

**The refinement.** `PromiseInv` stands on that invariant and adds what the
abstract specification sees: everything before the cursor was passed and no worker
is ahead of the row; nothing whose result is unknown was passed if confirm_shipment
relies on it; success is only at the end of the plan; a worker that records a
success is alone with its action; who is inside an action finds it open or
unknown. `StepMaps` takes Execute to Perform, Advance to Pass, an operator's
decision to Pass, Overrule or Conclude, Finish to Conclude, and every other action
to a stutter.

**The proof of delivery.** `ProofInv`: a position named by the row's proof, or by a
worker's snapshot of it, was recorded as sent and did go out, was overruled, or
nothing relies on it. One exception makes the invariant inductive: the proof may
name the action whose outcome is unknown while the run waits in review for it, and
a worker that has read such a proof cannot get back into the run with it.
`CountInv`, for reminders: whoever is about to report a success has counted.

**Card lines.** `StockInv` is TypeOK with three parts: each line is found at exactly
one of six kinds of place, and once there (`EachKept`); what sellers and requests
hold fits their program point (`Hands`); the snapshot of an open form holds no line
twice (`FormsOnce`). Snapshots of sellers and uploads need nothing, since they are
written only where they still agree with the column.

**The outbox.** `RowsInv`: a live lease belongs to a row that is running.
DuplicatesAreFew counts what may still be delivered besides what was: every worker
that is about to send a message, every answer that is on its way back, and a row
that may be claimed are one *hope* each. `OutboxInv` says that deliveries and hopes
beyond what was asked for, over all messages together, were paid for by a fault or
an act; a crash in the middle of a batch pays once although it leaves the whole
batch to be claimed again, because only one of its messages can have been sent
without its confirmation.

**Events and chat.** `HolderInv`: who replays a task with the row's version holds the
claim. `KeptInv`: an event that left the slots without an error was settled or is the
row's. `ChatInv`: a message is announced only with its row's first insertion, and
what was stored unread since a page was read has moved the conversation's row past
that page. The latter needs one page at a time, which is the hypothesis of
SyncKeepsNewerHolds; section 4 shows what two pages can do.

**Refresh jobs and shutdown.** OneLiveWorker does not say whom the next StartJob
cancels; `LiveIsRegistered` does: a worker whose Context is not done is the registered
one, and the process is up. That is what makes emptying the registry in Stop harmless.
ClosedIsQuiet counts: a live worker is one the wait group waits for. For the gateway,
`ProcessInv` ties operationMu to the caller between its probe and the end of its start
or stop, and every process alive and backend listening to the registered generation or
the one a start waits for. `ShutdownInv` adds what the main goroutine has already done
at each component it closes; the requests that draining gave up are the exemption.

**Batches.** `OwnerInv`: tokens are drawn in order, at most one caller holds a token
whose worker has not started, and a running row is under the batch's claim.
`SentInv` ties each row's checkpoint to the worker between the checkpoint and the
saved item: only one party can be about to publish a row, and only a row without
the checkpoint was never published.

**Orders.** `FactsInv` has three parts. What a writer read and nobody has written over
since is the row's status (`FreshIsTrue`), so the comparison it makes is one with the
row. A confirmed shipment is recorded or on its way (`Recorded`). A rule under way is
the best match for what its task knew of the item (`BestRules`).

**Accounts.** `AccountInv`: a live instance is the current one; behind the fence none is
started, so the one that a disable or a delete waited for is the last (`Fenced`); what
connects does so for an enabled account (`Connected`).

**Replies and prices.** `RepliesInv`: the right to send a turn is given once, because its
send status never becomes pending again, and a call inside the send is alone with the
turn; an order claims one quote ever and has not changed the price before it ends that
quote. `PartsInv` counts for the default reply as `OutboxInv` does for the outbox: parts
sent, parts owed by the calls that hold a claim, and the claim a next call may take, are
at most one more than the disturbances.

Only model-checked is liveness, which is out of the prover's reach, as is ENABLED, and
with it the eleven liveness properties of the runs; TypeOK of the modules other than
`RunRow`'s, `CardStock` and `OrderFacts` is implied in part by the invariants above
and kept as documentation of the state.

## 6. Not modelled

**Components left out.** *Account tasks* (polishing, rating) run by keys of their own
and share only the account's switch and credential with the rest. *Database access,
secrets, migrations*: dialects, encryption and schema. *Frontend*: only the card
form's load and save enters `CardStock`. *Brain gateway*: a service in another
language; what the supervisor sees of it is in `BrainSupervisor`. *Tray, tools,
packaging.* Of the *HTTP server* the routing, authentication and validation; these
handlers are large, have hardly any state and no concurrency of their own. Most of
the source lines outside the map are of these kinds: request and response shapes,
page scripts of the browser, signatures and parsing of the platform's interface,
SQL dialects and lists.

**Abstracted in modelled components.**
- Statements fail without effect; one that commits and still reports an error is
  not modelled.
- `AutomationRuns`: matching and TryStartRun are one step; unreadable snapshots and
  runs without a plan (no matching card) are left out, as is
  `RecoverDefinitelyUnsentReviewRuns`, which repairs rows of an older version.
  `WakeCredentialBlocked` only makes rows due earlier, which is always possible here.
- `CardStock`: API cards, image cards, several reservations of one template, order
  tables. `FirstBatchData`, `CommitFirstBatchData` and `RenewDeferredTaskLease` have
  no caller.
- `OrderFacts`: amounts, receivers, specifications, cookies, lists; a second account
  that claims the order.
- `NotifyOutbox`: wording, protocols of the channels, the test message, lists.
- `AccountRuntime`: StopAll, schedules, cooldowns, notifications; the polling of a QR
  login (what its success does to the account is there). Two account ids that share a
  profile directory (`pureUserID`) while their locks differ.
- `Connection`: encoding, the race of five dials (which takes the first result even
  if it is an error), registration.
- `BrowserManager`: what happens on a page is one step with any outcome; the slider
  code and the remote captcha are part of it. The page pool, FetchOrderDetail,
  BrowserQuickRenew, password login and QRCookieRefresh have no caller in the
  running server. Contention of two accounts for slots is bounded away by one
  account.
- `ServerProcess`: ten registered components are four here; a gateway that fails to
  start at boot fails the start of the server.
- `BuyerReplies`, `Chat`: texts, prompts, amounts, names, media, the price floor.

## 7. Plan

Done, in this order: the delivery core (`RunRow`, `AutomationRuns`,
`DeliveryPromise`, `CardStock`, `DeferredTasks`), `RefreshJobs`, then `NotifyOutbox`,
`BatchPublish`, `AccountRuntime`, `OrderFacts`, `BuyerReplies`, `Chat`, the process
(`BrainSupervisor`, `BrowserManager`, `ServerProcess`) and the intake of events
(`Connection`, `EventIntake`), with the proofs of section 5.

Next, if the development is taken further:

1. OldSessionIsReplaced (`AccountRuntime`): a session of an older login has a restart
   before it. SyncSettlesCount (`Chat`): an applied page leaves at most what the platform
   counts. Neither is in a run or proved; TLC has found no violation of either on the
   instances of section 3.
2. The templates of several messages with their reservations on `CardStock`'s stock.
3. The polling of a QR login and the account tasks, inside `AccountRuntime`.
4. Two accounts in `BrowserManager`, with slots and profile directories shared.
