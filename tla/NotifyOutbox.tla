---------------------------- MODULE NotifyOutbox ----------------------------
(***************************************************************************)
(* The notification outbox: channels and their subscriptions, the rows of  *)
(* notification_outbox and the worker of each process that sends them.     *)
(* Sources: notify/notifier.go, notify/notifier_channels.go,               *)
(* application/notifications/channels.go, db/notifications.go, db/extras.go.*)
(*                                                                         *)
(* A message is an event for a channel; (channel_id, idempotency_key) is   *)
(* unique, so a keyed event has at most one row per channel.  An event     *)
(* without a key is an event of its own each time it is reported.          *)
(***************************************************************************)
EXTENDS Naturals, FiniteSets

CONSTANTS
    Processes,    \* processes that share the database, one worker each
    Channels,
    Keyed,        \* automation outcomes: the key is the run and its status
    Unkeyed,      \* account alerts and the like
    MaxAttempts,  \* 10 in the code
    MaxReports,   \* bound: how often one keyed event is reported
    MaxActs,      \* bound: what operators do: change channels and bindings, stop a process
    MaxFaults     \* bound: crashes, failed statements, leases lost at work

ASSUME OutboxAssumption == /\ MaxAttempts \in Nat \ {0} /\ Keyed \cap Unkeyed = {}
                           /\ {MaxReports, MaxActs, MaxFaults} \subseteq Nat
                           /\ "nobody" \notin Processes

Events == Keyed \cup Unkeyed
Msgs   == Events \X Channels
Nobody == "nobody"

VARIABLES
    channel,   \* notification_channels per id: exists, the events it takes, whether the service answers
    bound,     \* channels message_notifications binds to the account
    rows,      \* notification_outbox
    worker,    \* per process: Context, program point, rows left, row at hand
    reports, acts, faults,
    enqueued,  \* history: rows inserted per message
    accepted   \* history: sends the channel accepted per message

outboxVars == <<channel, bound, rows, worker, reports, acts, faults, enqueued, accepted>>
Bounds == <<reports, acts, faults>>

NoRow   == [status |-> "absent", attempts |-> 0, due |-> FALSE, live |-> FALSE, token |-> Nobody]
Resting == [ctx |-> "on", pc |-> "idle", todo |-> {}, batch |-> {}]

OutboxInit == /\ channel = [c \in Channels |-> [exists |-> TRUE, takes |-> "all", works |-> TRUE]]
              /\ bound = Channels
              /\ rows = [m \in Msgs |-> NoRow]
              /\ worker = [p \in Processes |-> [Resting EXCEPT !.ctx = "new"]]
              /\ reports = [e \in Events |-> 0] /\ acts = 0 /\ faults = 0
              /\ enqueued = [m \in Msgs |-> 0] /\ accepted = [m \in Msgs |-> 0]

Fault == faults < MaxFaults /\ faults' = faults + 1
Act   == acts < MaxActs /\ acts' = acts + 1
Goto(p, pc) == worker' = [worker EXCEPT ![p].pc = pc]

-----------------------------------------------------------------------------
\* notifyEvent.

\* A channel that is not enabled, and one whose event list does not parse, takes none.
EventAllowed(c, e) == channel[c].takes = "all" \/ (channel[c].takes = "keyed" /\ e \in Keyed)

AccountChannels == {c \in bound : channel[c].exists}
Eligible(e)     == {c \in AccountChannels : EventAllowed(c, e)}

Inserted == [status |-> "pending", attempts |-> 0, due |-> TRUE, live |-> FALSE, token |-> Nobody]

\* Wrong: a repeated report puts a row that is there back to pending.
InsertsOver(e, c) == c \in Eligible(e)

\* The unique index ignores the insert while a row of the key is there.
Inserts(e, c) == c \in Eligible(e) /\ rows[<<e, c>>].status = "absent"

EnqueueOutbox(e) ==
    LET new == {e} \X {c \in Channels : Inserts(e, c)}
    IN  /\ rows' = [m \in Msgs |-> IF m \in new THEN Inserted ELSE rows[m]]
        /\ enqueued' = [m \in Msgs |-> IF m \in new THEN enqueued[m] + 1 ELSE enqueued[m]]

\* Before Start an event without a key is sent on the spot, once, whatever comes of it.
NotifyEvent(p, e) ==
    /\ worker[p].ctx # "off"
    /\ reports[e] < (IF e \in Keyed THEN MaxReports ELSE 1)
    /\ reports' = [reports EXCEPT ![e] = @ + 1]
    /\ IF worker[p].ctx # "new" \/ e \in Keyed
       THEN EnqueueOutbox(e) /\ accepted' = accepted
       ELSE /\ accepted' = [m \in Msgs |-> IF m[1] = e /\ m[2] \in Eligible(e) /\ channel[m[2]].works
                                           THEN accepted[m] + 1 ELSE accepted[m]]
            /\ enqueued' = [m \in Msgs |-> IF m[1] = e THEN 1 ELSE enqueued[m]]
            /\ rows' = rows
    /\ UNCHANGED <<channel, bound, worker, acts, faults>>

Start(p) ==
    /\ worker[p].ctx = "new"
    /\ worker' = [worker EXCEPT ![p].ctx = "on"]
    /\ UNCHANGED <<channel, bound, rows, Bounds, enqueued, accepted>>

-----------------------------------------------------------------------------
\* drainOutbox.  Statements run under the worker's Context and fail once it is done; the HTTP call
\* to the channel has a Context of its own.

\* Wrong: rows whose lease lapsed are left alone.
OnlyPending(m) == rows[m].status = "pending" /\ rows[m].due

Due(m) == \/ rows[m].status = "pending" /\ rows[m].due
          \/ rows[m].status = "running" /\ ~rows[m].live

\* Wrong: look at the status alone; take a failed or repeated write for one that holds.
AnyToken(p, m) == rows[m].status = "running"
AnyRow(p, m)   == FALSE

Holds(p, m)  == rows[m].status = "running" /\ rows[m].token = p
CanWrite(p)  == worker[p].ctx = "on"

ClaimList(p) ==
    /\ worker[p].pc = "idle" /\ worker[p].ctx = "on"
    /\ \E m \in Msgs : Due(m)
    /\ worker' = [worker EXCEPT ![p] = [ctx |-> "on", pc |-> "claim", todo |-> {m \in Msgs : Due(m)}, batch |-> {}]]
    /\ UNCHANGED <<channel, bound, rows, Bounds, enqueued, accepted>>

\* One conditional UPDATE per candidate.
ClaimRow(p) ==
    /\ worker[p].pc = "claim" /\ worker[p].todo # {} /\ CanWrite(p)
    /\ \E m \in worker[p].todo :
         IF Due(m)
         THEN /\ rows' = [rows EXCEPT ![m] = [status |-> "running", attempts |-> @.attempts + 1,
                                              due |-> TRUE, live |-> TRUE, token |-> p]]
              /\ worker' = [worker EXCEPT ![p].todo = @ \ {m}, ![p].batch = @ \cup {m}]
         ELSE /\ worker' = [worker EXCEPT ![p].todo = @ \ {m}]
              /\ rows' = rows
    /\ UNCHANGED <<channel, bound, Bounds, enqueued, accepted>>

\* A failed statement gives up the batch: the rows claimed so far wait for their lease.
ClaimFails(p) ==
    /\ worker[p].pc = "claim" /\ worker[p].todo # {}
    /\ IF CanWrite(p) THEN Fault ELSE faults' = faults
    /\ worker' = [worker EXCEPT ![p] = [Resting EXCEPT !.ctx = worker[p].ctx]]
    /\ UNCHANGED <<channel, bound, rows, reports, acts, enqueued, accepted>>

\* The row at hand is the least of the batch; which one that is does not matter here.
Next1(p) == CHOOSE m \in worker[p].batch : TRUE
Done1(p) == worker' = [worker EXCEPT ![p].pc = "row", ![p].batch = @ \ {Next1(p)}]

DrainRow(p) ==
    /\ \/ worker[p].pc = "claim" /\ worker[p].todo = {}
       \/ worker[p].pc = "row"
    /\ IF worker[p].batch = {} THEN Goto(p, "idle") ELSE Goto(p, "load")
    /\ UNCHANGED <<channel, bound, rows, Bounds, enqueued, accepted>>

\* GetChannel; enabled is not looked at again.
LoadChannel(p) ==
    /\ worker[p].pc = "load"
    /\ LET c == Next1(p)[2]
       IN  Goto(p, IF ~CanWrite(p) THEN "retry" ELSE IF channel[c].exists THEN "send" ELSE "complete")
    /\ UNCHANGED <<channel, bound, rows, Bounds, enqueued, accepted>>

LoadFails(p) ==
    /\ worker[p].pc = "load" /\ CanWrite(p) /\ Fault
    /\ Goto(p, "retry")
    /\ UNCHANGED <<channel, bound, rows, reports, acts, enqueued, accepted>>

SendToChannel(p) ==
    /\ worker[p].pc = "send"
    /\ IF channel[Next1(p)[2]].works
       THEN Goto(p, "complete") /\ accepted' = [accepted EXCEPT ![Next1(p)] = @ + 1]
       ELSE Goto(p, "retry") /\ accepted' = accepted
    /\ UNCHANGED <<channel, bound, rows, Bounds, enqueued>>

\* The answer is lost although the channel accepted the message.
SendUnanswered(p) ==
    /\ worker[p].pc = "send" /\ channel[Next1(p)[2]].works /\ Fault
    /\ accepted' = [accepted EXCEPT ![Next1(p)] = @ + 1]
    /\ Goto(p, "retry")
    /\ UNCHANGED <<channel, bound, rows, reports, acts, enqueued>>

Isolated(m) == [status |-> "uncertain", attempts |-> rows[m].attempts, due |-> FALSE, live |-> FALSE, token |-> Nobody]
Retried(m, permanent) ==
    [status |-> IF permanent THEN "dead" ELSE "pending", attempts |-> rows[m].attempts,
     due |-> FALSE, live |-> FALSE, token |-> Nobody]

\* Each of these ends the row at hand, also when the lease has moved on.
CompleteOutbox(p) ==
    /\ worker[p].pc = "complete" /\ CanWrite(p)
    /\ rows' = IF Holds(p, Next1(p)) THEN [rows EXCEPT ![Next1(p)] = NoRow] ELSE rows
    /\ Done1(p)
    /\ UNCHANGED <<channel, bound, Bounds, enqueued, accepted>>

CompleteFails(p) ==
    /\ worker[p].pc = "complete"
    /\ IF CanWrite(p) THEN Fault ELSE faults' = faults
    /\ Goto(p, "isolate")
    /\ UNCHANGED <<channel, bound, rows, reports, acts, enqueued, accepted>>

MarkOutboxUncertain(p) ==
    /\ worker[p].pc = "isolate" /\ CanWrite(p)
    /\ rows' = IF Holds(p, Next1(p)) THEN [rows EXCEPT ![Next1(p)] = Isolated(Next1(p))] ELSE rows
    /\ Done1(p)
    /\ UNCHANGED <<channel, bound, Bounds, enqueued, accepted>>

RetryOutbox(p) ==
    /\ worker[p].pc = "retry" /\ CanWrite(p)
    /\ rows' = IF Holds(p, Next1(p))
               THEN [rows EXCEPT ![Next1(p)] = Retried(Next1(p), rows[Next1(p)].attempts >= MaxAttempts)]
               ELSE rows
    /\ Done1(p)
    /\ UNCHANGED <<channel, bound, Bounds, enqueued, accepted>>

\* The statement fails or its Context is done: the row stays running until its lease lapses.
WriteFails(p) ==
    /\ worker[p].pc \in {"isolate", "retry"}
    /\ IF CanWrite(p) THEN Fault ELSE faults' = faults
    /\ Done1(p)
    /\ UNCHANGED <<channel, bound, rows, reports, acts, enqueued, accepted>>

-----------------------------------------------------------------------------
\* Time, processes, operators.

BackoffEnds(m) ==
    /\ rows[m].status = "pending" /\ ~rows[m].due
    /\ rows' = [rows EXCEPT ![m].due = TRUE]
    /\ UNCHANGED <<channel, bound, worker, Bounds, enqueued, accepted>>

\* The lease is shared by the whole batch, each of whose calls may take ten seconds.
WorkedOn(m) == \E p \in Processes : m \in worker[p].batch /\ Holds(p, m)

LeaseLapses(m) ==
    /\ rows[m].status = "running" /\ rows[m].live
    /\ IF WorkedOn(m) THEN Fault ELSE faults' = faults
    /\ rows' = [rows EXCEPT ![m].live = FALSE]
    /\ UNCHANGED <<channel, bound, worker, reports, acts, enqueued, accepted>>

\* The lifecycle Context ends; the worker returns at its next pass through the loop.
Shutdown(p) ==
    /\ worker[p].ctx = "on" /\ Act
    /\ worker' = [worker EXCEPT ![p].ctx = "ending"]
    /\ UNCHANGED <<channel, bound, rows, reports, faults, enqueued, accepted>>

WorkerReturns(p) ==
    /\ worker[p].ctx = "ending" /\ worker[p].pc = "idle"
    /\ worker' = [worker EXCEPT ![p].ctx = "off"]
    /\ UNCHANGED <<channel, bound, rows, Bounds, enqueued, accepted>>

ProcessCrash(p) ==
    /\ worker[p].ctx # "off" /\ Fault
    /\ worker' = [worker EXCEPT ![p] = [Resting EXCEPT !.ctx = "off"]]
    /\ UNCHANGED <<channel, bound, rows, reports, acts, enqueued, accepted>>

Boot(p) ==
    /\ worker[p].ctx = "off"
    /\ worker' = [worker EXCEPT ![p].ctx = "new"]
    /\ UNCHANGED <<channel, bound, rows, Bounds, enqueued, accepted>>

UpdateChannel(c) ==
    /\ Act /\ channel[c].exists
    /\ \E takes \in {"all", "keyed", "none"}, works \in BOOLEAN :
         channel' = [channel EXCEPT ![c] = [exists |-> TRUE, takes |-> takes, works |-> works]]
    /\ UNCHANGED <<bound, rows, worker, reports, faults, enqueued, accepted>>

\* The rows and the binding go with the channel (ON DELETE CASCADE).
DeleteChannel(c) ==
    /\ Act /\ channel[c].exists
    /\ channel' = [channel EXCEPT ![c].exists = FALSE]
    /\ bound' = bound \ {c}
    /\ rows' = [m \in Msgs |-> IF m[2] = c THEN NoRow ELSE rows[m]]
    /\ UNCHANGED <<worker, reports, faults, enqueued, accepted>>

\* Only channels the account's owner still has can be bound.
SetBindings ==
    /\ Act
    /\ bound' \in SUBSET {c \in Channels : channel[c].exists}
    /\ UNCHANGED <<channel, rows, worker, reports, faults, enqueued, accepted>>

-----------------------------------------------------------------------------
\* What a worker does of its own accord, while its Context lasts and after.
WorkerStep(p) == \/ Start(p) \/ ClaimList(p) \/ ClaimRow(p) \/ DrainRow(p) \/ LoadChannel(p) \/ SendToChannel(p)
                 \/ CompleteOutbox(p) \/ MarkOutboxUncertain(p) \/ RetryOutbox(p) \/ WorkerReturns(p) \/ Boot(p)
Unwritable(p) == ~CanWrite(p) /\ (ClaimFails(p) \/ CompleteFails(p) \/ WriteFails(p))

OutboxNext == \/ \E p \in Processes : \/ \E e \in Events : NotifyEvent(p, e)
                                      \/ WorkerStep(p)
                                      \/ ClaimFails(p) \/ LoadFails(p) \/ SendUnanswered(p)
                                      \/ CompleteFails(p) \/ WriteFails(p)
                                      \/ Shutdown(p) \/ ProcessCrash(p)
              \/ \E m \in Msgs : BackoffEnds(m) \/ LeaseLapses(m)
              \/ \E c \in Channels : UpdateChannel(c) \/ DeleteChannel(c)
              \/ SetBindings

OutboxSpec == OutboxInit /\ [][OutboxNext]_outboxVars

\* The worker's goroutine runs and its ticker ticks, calls end (ten seconds), the clock runs, and a
\* process that went down is started again by its service manager.
FairOutbox == /\ OutboxSpec
              /\ \A p \in Processes : WF_outboxVars(WorkerStep(p) \/ Unwritable(p))
              /\ \A m \in Msgs : WF_outboxVars(BackoffEnds(m)) /\ WF_outboxVars(LeaseLapses(m) /\ ~WorkedOn(m))

-----------------------------------------------------------------------------
(* Properties. *)

Statuses == {"absent", "pending", "running", "uncertain", "dead"}

\* The variables keep their types; a row that is running has a holder and the others have none.
OutboxTypeOK ==
    /\ channel \in [Channels -> [exists : BOOLEAN, takes : {"all", "keyed", "none"}, works : BOOLEAN]]
    /\ bound \in SUBSET Channels
    /\ rows \in [Msgs -> [status : Statuses, attempts : Nat, due : BOOLEAN, live : BOOLEAN, token : Processes \cup {Nobody}]]
    /\ worker \in [Processes -> [ctx : {"new", "on", "ending", "off"},
                                 pc : {"idle", "claim", "row", "load", "send", "complete", "isolate", "retry"},
                                 todo : SUBSET Msgs, batch : SUBSET Msgs]]
    /\ \A m \in Msgs : (rows[m].status = "running") <=> (rows[m].token # Nobody)

\* A row leaves the table only after its channel accepted the message, or with its channel: neither
\* a failed send, a crash nor a late worker loses a notification.
NothingLost ==
    [][\A m \in Msgs : rows[m].status # "absent" /\ rows'[m].status = "absent"
                       => accepted[m] > 0 \/ ~channel'[m[2]].exists]_outboxVars

\* A message that may have been delivered and could not be confirmed is kept as evidence: no later
\* report of the same outcome and no worker revives it (EnqueueOutbox, "uncertain ... never pending").
UncertainStays ==
    [][\A m \in Msgs : rows[m].status = "uncertain" => rows'[m] = rows[m] \/ ~channel'[m[2]].exists]_outboxVars

\* A row under a live lease is changed by its holder alone, so that a worker that was taken for dead
\* cannot close or postpone what its successor is sending.
LiveLeaseIsRespected ==
    [][\A m \in Msgs : rows[m].live /\ [rows'[m] EXCEPT !.live = TRUE] # rows[m]
                       => worker'[rows[m].token] # worker[rows[m].token] \/ ~channel'[m[2]].exists]_outboxVars

Extra(m)   == IF accepted[m] > enqueued[m] THEN accepted[m] - enqueued[m] ELSE 0
Duplicates == UNION {{m} \X (1 .. Extra(m)) : m \in Msgs}

\* Each crash, failed statement, lost answer, lapsed lease or shutdown makes a channel see at most
\* one message twice, however long the batch it interrupts.
DuplicatesAreFew == Cardinality(Duplicates) <= faults + acts

\* Every message gets somewhere: delivered, dead after MaxAttempts claims, isolated, or gone with
\* its channel.
Resolves == \A m \in Msgs : rows[m].status \in {"pending", "running"} ~> rows[m].status \notin {"pending", "running"}
=============================================================================
