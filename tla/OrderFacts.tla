------------------------------ MODULE OrderFacts ------------------------------
(***************************************************************************)
(* The row of one order and everybody who writes it: paid events and their *)
(* replays, full delivery and shipping by hand, the list and detail sync,  *)
(* an operator's edit, deletion and import, and the reconciliation of a    *)
(* confirmed shipment that could not be recorded. Sources: db/orders.go,   *)
(* db/order_reconciliation.go, automation/center.go, event_pipeline.go,    *)
(* action_executor.go, application/orders, reconciliation/service.go.      *)
(*                                                                         *)
(* A write of the row is a read of its status and version and an update    *)
(* that compares the version; the version appears as "fresh", which every  *)
(* write that raises the version takes from the others. What a run sends   *)
(* is AutomationRuns' business; here it starts, and may confirm.           *)
(***************************************************************************)
EXTENDS Naturals, FiniteSets

CONSTANTS
    Kinds,         \* the writers of this instance of the model, a subset of AllKinds
    Slots,         \* how many of them at a time
    Remotes,       \* the statuses the platform gives the order
    Chosen,        \* the statuses an operator or an import sets
    AccountRules,  \* enabled rules of the account, by priority
    ItemRules,     \* enabled rules of the item, by priority
    MaxActs,       \* bound: writers ever begun
    MaxCommands,   \* bound: edits, deletions, imports and switched rules
    MaxTries,      \* attempts of one Upsert (8 in the code)
    MaxFaults      \* bound: crashes, failed statements and calls

AllKinds == {"event", "replay", "full", "status", "refresh", "single", "edit", "delete", "import", "rules"}

Early    == {"processing", "pending_ship"}
Advanced == {"shipped", "completed", "refunding", "cancelled"}
Editable == Early \cup Advanced

ASSUME OrderAssumption ==
    /\ Kinds \subseteq AllKinds /\ Slots \subseteq Nat \ {0} 
    /\ Chosen \subseteq Editable /\ Remotes \subseteq Editable
    /\ AccountRules \subseteq Nat \ {0} /\ ItemRules \subseteq Nat \ {0}
    /\ AccountRules \cap ItemRules = {}
    /\ MaxActs \in Nat /\ MaxCommands \in Nat /\ MaxTries \in Nat \ {0} /\ MaxFaults \in Nat

Statuses == Editable \cup {"unknown"}
Loop     == 0  \* the reconciliation loop has a slot of its own
Rules    == AccountRules \cup ItemRules

VARIABLES
    row,       \* orders: there, status, item known, details complete, deleted_at set
    remote,    \* what the platform says of the order; "none" before the buyer paid
    flow,      \* the writers: kind, program point, status and item of its task, what an Upsert has read
    deferred,  \* automation_pending_tasks: the paid task that waits, or is held by its replay
    rules,     \* enabled automation_rules
    runs,      \* automation_runs of this order: rule, and whether the match knew the item
    recon,     \* order_reconciliations of this order
    confirmed, \* history: a confirmation was answered with yes
    excused,   \* history: the yes was lost, or its record was overwritten with "unknown"
    edited,    \* history: an operator set the status
    switched,  \* history: rules were switched on or off
    acts, commands, faults

vars == <<row, remote, flow, deferred, rules, runs, recon, confirmed, excused, edited, switched, acts, commands, faults>>

NoRow == [there |-> FALSE, status |-> "unknown", item |-> FALSE, full |-> FALSE, deleted |-> FALSE]
Idle  == [kind |-> "", pc |-> "idle", st |-> "", own |-> "", item |-> FALSE, rule |-> 0,
          seen |-> "", hid |-> FALSE, fresh |-> FALSE, tries |-> 0]
NoTask == [at |-> "none", st |-> "", item |-> FALSE]

Init == /\ row = NoRow /\ remote = "none"
        /\ flow = [s \in Slots \cup {Loop} |-> Idle]
        /\ deferred = NoTask /\ rules = Rules /\ runs = {} /\ recon = "none"
        /\ confirmed = FALSE /\ excused = FALSE /\ edited = FALSE /\ switched = FALSE
        /\ acts = 0 /\ commands = 0 /\ faults = 0

Fault   == faults < MaxFaults /\ faults' = faults + 1
\* Orders.Get, FindByIDs: deleted rows are not found.
Visible == row.there /\ ~row.deleted

-----------------------------------------------------------------------------
\* Upsert: its stages, what each writes, and where the writer goes from there.

Stages == {"record", "prep", "save", "ship", "single", "recon"}

\* shouldUpdateOrderStatus.
ShouldUpdate(current, incoming) ==
    \/ current = incoming \/ current = "unknown"
    \/ /\ ~(incoming \in Early /\ current \in Advanced)
       /\ ~(incoming = "shipped" /\ current \in {"completed", "cancelled"})

Incoming(f) == IF f.pc \in {"ship", "recon"} THEN "shipped" ELSE IF f.pc = "prep" THEN "" ELSE f.st

\* orderUpsertAssignments; deleted_at is only cleared where the read had found it set.
Written(f) == [row EXCEPT !.status = IF Incoming(f) # "" /\ ShouldUpdate(f.seen, Incoming(f)) THEN Incoming(f) ELSE @,
                          !.item = @ \/ f.item,
                          !.full = @ \/ f.pc \in {"save", "single"},
                          !.deleted = @ /\ ~f.hid]

\* version+1: what the others have read is no longer fresh.
Bump(s, f) == flow' = [t \in DOMAIN flow |-> IF t = s THEN f ELSE [flow[t] EXCEPT !.fresh = FALSE]]
Goes(f, pc) == [f EXCEPT !.pc = pc, !.seen = "", !.hid = FALSE, !.fresh = FALSE, !.tries = 0]
Go(s, pc)   == flow' = [flow EXCEPT ![s] = IF pc = "idle" THEN Idle ELSE Goes(flow[s], pc)]

After(f) == CASE f.pc = "record" -> "merge" [] f.pc = "prep" -> "detail"
              [] f.pc = "save" -> IF f.kind = "full" THEN "match" ELSE "start"
              [] f.pc = "ship" -> IF f.kind = "status" THEN "idle" ELSE "mark"
              [] f.pc = "recon" -> "resolve" [] OTHER -> "idle"

History  == <<edited, switched, commands>>
Platform == <<remote, rules, runs, confirmed>>

\* INSERT IGNORE with status unknown, then SELECT.
Read(s) ==
    /\ flow[s].pc \in Stages /\ flow[s].seen = ""
    /\ row' = IF row.there THEN row ELSE [NoRow EXCEPT !.there = TRUE, !.item = flow[s].item]
    /\ flow' = [flow EXCEPT ![s] = [@ EXCEPT !.seen = row'.status, !.hid = row'.deleted, !.fresh = TRUE]]
    /\ UNCHANGED <<Platform, History, deferred, recon, excused, acts, faults>>

\* Wrong: the update does not compare the version.
Unchecked(s) == flow[s].pc \in Stages /\ flow[s].seen # ""
Fresh(s) == flow[s].pc \in Stages /\ flow[s].seen # "" /\ flow[s].fresh

\* UPDATE ... WHERE version=? hits the row.
Write(s) ==
    /\ Fresh(s)
    /\ row' = Written(flow[s])
    /\ Bump(s, IF After(flow[s]) = "idle" THEN Idle ELSE Goes(flow[s], After(flow[s])))
    /\ excused' = (excused \/ (row.status \in Advanced /\ row'.status = "unknown"))
    /\ UNCHANGED <<Platform, History, deferred, recon, acts, faults>>

Missed(s)    == flow[s].pc \in Stages /\ flow[s].seen # "" /\ ~flow[s].fresh
Exhausted(s) == flow[s].tries + 1 >= MaxTries

\* It misses the row: read again after a short wait.
Retry(s) ==
    /\ Missed(s) /\ ~Exhausted(s)
    /\ flow' = [flow EXCEPT ![s] = [@ EXCEPT !.seen = "", !.hid = FALSE, !.tries = flow[s].tries + 1]]
    /\ UNCHANGED <<row, Platform, History, deferred, recon, excused, acts, faults>>

\* CreatePending: INSERT IGNORE on the key of order, account and kind.
CreatePending == recon' = IF recon = "none" THEN "pending" ELSE recon
\* Wrong: only statements that fail are recorded, a lost comparison is not.
PendingOnErrors(s) == IF Missed(s) THEN UNCHANGED recon ELSE CreatePending
\* The shipment was confirmed and could not be written: persistConfirmedShipment, manualStatusShip.
Compensates(s) == CreatePending

\* deferTask: the row of this key is inserted or replaced.
Defers(task) == deferred' = [at |-> "waiting", st |-> task.own, item |-> task.item]
\* The replay's claim is given back with the task unchanged, or is gone because the task was replaced.
GivesBack == deferred' = [deferred EXCEPT !.at = IF @ = "held" THEN "waiting" ELSE @]
\* FinishDeferredTask with success, under the claim.
Finishes(f) == deferred' = IF f.kind = "replay" /\ deferred.at = "held" THEN NoTask ELSE deferred

\* What the caller does about an Upsert that returned an error.
Failed(s) ==
    /\ Go(s, "idle")
    /\ CASE flow[s].kind = "replay" /\ flow[s].pc # "ship" -> GivesBack /\ UNCHANGED recon
         [] flow[s].kind = "event" /\ flow[s].pc \in {"prep", "save"} -> Defers(flow[s]) /\ UNCHANGED recon
         [] flow[s].pc = "ship" -> Compensates(s) /\ Finishes(flow[s])
         [] OTHER -> UNCHANGED <<deferred, recon>>

\* ErrOrderConflict.
Conflict(s) ==
    /\ Missed(s) /\ Exhausted(s)
    /\ Failed(s)
    /\ UNCHANGED <<row, Platform, History, excused, acts, faults>>

\* A statement fails.
Breaks(s) ==
    /\ flow[s].pc \in Stages /\ ~Missed(s) /\ Fault
    /\ Failed(s)
    /\ UNCHANGED <<row, Platform, History, excused, acts>>

\* The shipment could not be written, and neither could the reconciliation.
BreaksTwice(s) ==
    /\ flow[s].pc = "ship" /\ Fault
    /\ Go(s, "idle") /\ Finishes(flow[s])
    /\ excused' = TRUE
    /\ UNCHANGED <<row, Platform, History, recon, acts>>

Upsert(s) == Read(s) \/ Write(s) \/ Retry(s) \/ Conflict(s) \/ Breaks(s) \/ BreaksTwice(s)

-----------------------------------------------------------------------------
\* The paid event, its replay and full delivery: handleTask, prepareTask, ManualFullDelivery.

\* Wrong: every enabled rule of the two scopes may be the one.
AnyOf(item) == rules
\* AutomationRules.Match: the highest priority of the item's rules, else of the account's.
Matches(item) ==
    LET scope == IF item /\ rules \cap ItemRules # {} THEN rules \cap ItemRules ELSE rules \cap AccountRules
    IN  {r \in scope : \A other \in scope : r <= other}

\* The facts are recorded; the row's fill the gaps of the task.
Merge(s) ==
    /\ flow[s].pc = "merge"
    /\ LET f    == flow[s]
           st   == IF f.st = "" /\ Visible THEN row.status ELSE f.st
           item == f.item \/ (Visible /\ row.item)
           task == [f EXCEPT !.st = st, !.own = st, !.item = item]
       IN  \/ /\ Defers(task) /\ Go(s, "idle")     \* the account is paused
           \/ /\ Finishes(f) /\ Go(s, "idle")      \* it is disabled, or no rule matches
           \/ \E r \in Matches(item) :
                 flow' = [flow EXCEPT ![s] = [Goes(task, "prep") EXCEPT !.rule = r]] /\ UNCHANGED deferred
    /\ UNCHANGED <<row, Platform, History, recon, excused, acts, faults>>

\* FetchOrderDetail: from a complete row, else from the platform, whose answer may lack the status.
Detail(s) ==
    /\ flow[s].pc = "detail"
    /\ \E st \in IF Visible /\ row.full THEN {row.status} ELSE {remote, flow[s].st} :
          flow' = [flow EXCEPT ![s] = [Goes(@, "save") EXCEPT !.st = st]]
    /\ UNCHANGED <<row, Platform, History, deferred, recon, excused, acts, faults>>

\* The request fails: a preparationError.
DetailFails(s) ==
    /\ flow[s].pc = "detail" /\ Fault
    /\ Go(s, "idle")
    /\ CASE flow[s].kind = "replay" -> GivesBack
         [] flow[s].kind = "event" -> Defers(flow[s])
         [] OTHER -> UNCHANGED deferred
    /\ UNCHANGED <<row, Platform, History, recon, excused, acts>>

\* Full delivery looks for its rule after the preparation.
MatchFull(s) ==
    /\ flow[s].pc = "match"
    /\ \/ \E r \in Matches(TRUE) : flow' = [flow EXCEPT ![s] = [Goes(@, "start") EXCEPT !.rule = r]]
       \/ Matches(TRUE) = {} /\ Go(s, "idle")
    /\ UNCHANGED <<row, Platform, History, deferred, recon, excused, acts, faults>>

\* TryStartRun: one run per rule and order.
Start(s) ==
    /\ flow[s].pc = "start"
    /\ LET f == flow[s]
       IN  \/ /\ \E r \in runs : r.rule = f.rule
              /\ Go(s, "idle") /\ Finishes(f) /\ UNCHANGED runs
           \/ /\ \A r \in runs : r.rule # f.rule
              /\ runs' = runs \cup {[rule |-> f.rule, item |-> f.item]}
              /\ Go(s, "confirm") /\ UNCHANGED deferred
    /\ UNCHANGED <<row, remote, rules, confirmed, History, recon, excused, acts, faults>>

\* confirmShipment, ConfirmShipment: by hand, an order already delivered is a failure.
Confirm(s) ==
    /\ flow[s].pc = "confirm"
    /\ \/ remote = "pending_ship"
       \/ remote \in {"shipped", "completed"} /\ flow[s].kind # "status"
    /\ remote' = IF remote = "pending_ship" THEN "shipped" ELSE remote
    /\ confirmed' = TRUE
    /\ Go(s, "ship")
    /\ UNCHANGED <<row, deferred, rules, runs, History, recon, excused, acts, faults>>

\* The platform refuses, the account does not confirm by itself, or a message before it failed.
Unconfirmed(s) ==
    /\ flow[s].pc = "confirm"
    /\ Go(s, "idle") /\ Finishes(flow[s])
    /\ UNCHANGED <<row, Platform, History, recon, excused, acts, faults>>

\* The platform ships, its answer is lost: a person looks at the run.
AnswerLost(s) ==
    /\ flow[s].pc = "confirm" /\ remote = "pending_ship" /\ Fault
    /\ remote' = "shipped"
    /\ Go(s, "idle") /\ Finishes(flow[s])
    /\ UNCHANGED <<row, rules, runs, confirmed, History, recon, excused, acts>>

\* MarkOrderEventTime, which raises no version; when it fails the shipment is compensated as well.
Mark(s) ==
    /\ flow[s].pc = "mark"
    /\ \/ UNCHANGED <<recon, faults>>
       \/ Fault /\ CreatePending
    /\ Go(s, "idle") /\ Finishes(flow[s])
    /\ UNCHANGED <<row, Platform, History, excused, acts>>

Task(s) == Merge(s) \/ Detail(s) \/ DetailFails(s) \/ MatchFull(s) \/ Start(s)
           \/ Confirm(s) \/ Unconfirmed(s) \/ AnswerLost(s) \/ Mark(s)

-----------------------------------------------------------------------------
\* The sync: discoverAccount, refreshDetailChunk, RefreshSingle.

\* The batch's CASE: as Upsert, but "unknown" never replaces a status.
BatchStatus(st) ==
    IF row.there /\ (st = "unknown" \/ ~ShouldUpdate(row.status, st)) THEN row.status ELSE st

\* upsertManyOrders, in one transaction: no comparison, a deleted row comes back.
Batch(s, st, full, pc) ==
    /\ row' = [there |-> TRUE, status |-> BatchStatus(st), item |-> row.item \/ ~full,
               full |-> row.full \/ full, deleted |-> FALSE]
    /\ Bump(s, IF pc = "idle" THEN Idle ELSE Goes(flow[s], pc))

\* The list has arrived: an order it lacks is hidden, the others are compared with their rows.
Listed(s) ==
    /\ flow[s].pc = "listed"
    /\ \/ /\ flow[s].st = "none"
          /\ row' = [row EXCEPT !.deleted = @ \/ row.there]
          /\ Go(s, "idle")
       \/ /\ flow[s].st # "none"
          /\ \E answer \in {flow[s].st, "unknown"} :
                flow' = [flow EXCEPT ![s] = [Goes(@, "found") EXCEPT
                             !.st = IF answer = "unknown" /\ Visible THEN row.status ELSE answer]]
          /\ UNCHANGED row
    /\ UNCHANGED <<Platform, History, deferred, recon, excused, acts, faults>>

Found(s) ==
    /\ flow[s].pc = "found"
    /\ Batch(s, flow[s].st, FALSE, "scan")
    /\ UNCHANGED <<Platform, History, deferred, recon, excused, acts, faults>>

\* The targets: new orders, those not yet stable and those without an amount.
Scan(s) ==
    /\ flow[s].pc = "scan"
    /\ \/ Visible /\ flow' = [flow EXCEPT ![s] = [Goes(@, "fetch") EXCEPT !.st = row.status]]
       \/ (~Visible \/ row.status \in {"shipped", "completed", "cancelled"}) /\ Go(s, "idle")
    /\ UNCHANGED <<row, Platform, History, deferred, recon, excused, acts, faults>>

\* The detail of the order; without a valid status the one read before the call stands in.
Fetch(s) ==
    /\ flow[s].pc = "fetch"
    /\ \/ \E st \in {remote, flow[s].st} :
             flow' = [flow EXCEPT ![s] = [Goes(@, IF flow[s].kind = "single" THEN "single" ELSE "fetched") EXCEPT !.st = st]]
       \/ Go(s, "idle")
    /\ UNCHANGED <<row, Platform, History, deferred, recon, excused, acts, faults>>

Fetched(s) ==
    /\ flow[s].pc = "fetched"
    /\ Batch(s, flow[s].st, TRUE, "idle")
    /\ UNCHANGED <<Platform, History, deferred, recon, excused, acts, faults>>

Sync(s) == Listed(s) \/ Found(s) \/ Scan(s) \/ Fetch(s) \/ Fetched(s)

-----------------------------------------------------------------------------
\* Reconciliation: Service.RunOnce, every 30 seconds.

\* ListPending and Get; a row that is not found costs an attempt and is looked for again.
Due == recon = "pending" /\ Visible

Look == /\ flow[Loop].pc = "idle" /\ Due
        /\ flow' = [flow EXCEPT ![Loop] = [Idle EXCEPT !.kind = "recon", !.pc = "recon"]]
        /\ UNCHANGED <<row, Platform, History, deferred, recon, excused, acts, faults>>

\* MarkResolved.
Resolve == /\ flow[Loop].pc = "resolve"
           /\ recon' = "resolved" /\ Go(Loop, "idle")
           /\ UNCHANGED <<row, Platform, History, deferred, excused, acts, faults>>

-----------------------------------------------------------------------------
\* Who begins what.

\* Slots are alike: the first idle one is taken.
Begins(s, kind, f) ==
    /\ kind \in Kinds /\ flow[s].pc = "idle" /\ \A t \in Slots : t < s => flow[t].pc # "idle"
    /\ acts < MaxActs
    /\ acts' = acts + 1
    /\ flow' = [flow EXCEPT ![s] = [f EXCEPT !.kind = kind]]

\* A paid message, which may lack the item, may be late and may come again.
Event(s) == /\ remote # "none"
            /\ \E item \in BOOLEAN : Begins(s, "event", [Idle EXCEPT !.pc = "record", !.item = item])
            /\ UNCHANGED <<row, Platform, History, deferred, recon, excused, faults>>

Replay(s) == /\ deferred.at = "waiting"
             /\ Begins(s, "replay", [Idle EXCEPT !.pc = "record", !.st = deferred.st, !.own = deferred.st, !.item = deferred.item])
             /\ deferred' = [deferred EXCEPT !.at = "held"]
             /\ UNCHANGED <<row, Platform, History, recon, excused, faults>>

\* ManualShip in its two modes.
ByHand(s) == /\ Visible /\ row.status = "pending_ship"
             /\ \/ row.item /\ Begins(s, "full", [Idle EXCEPT !.pc = "prep", !.st = row.status, !.own = row.status, !.item = TRUE])
                \/ Begins(s, "status", [Idle EXCEPT !.pc = "confirm", !.item = row.item])
             /\ UNCHANGED <<row, Platform, History, deferred, recon, excused, faults>>

\* The list call; and one order refreshed by hand.
Refresh(s) == /\ \/ Begins(s, "refresh", [Idle EXCEPT !.pc = "listed", !.st = remote])
                 \/ Visible /\ Begins(s, "single", [Idle EXCEPT !.pc = "fetch", !.st = row.status])
              /\ UNCHANGED <<row, Platform, History, deferred, recon, excused, faults>>

Commands(kind) == kind \in Kinds /\ commands < MaxCommands /\ commands' = commands + 1

\* UpdateService: a plain UPDATE, no version.
Edit == /\ Commands("edit") /\ Visible
        /\ \E st \in Chosen : row' = [row EXCEPT !.status = st]
        /\ edited' = TRUE
        /\ UNCHANGED <<Platform, flow, deferred, switched, recon, excused, acts, faults>>

\* SoftDelete.
Delete == /\ Commands("delete") /\ Visible
          /\ row' = [row EXCEPT !.deleted = TRUE]
          /\ UNCHANGED <<Platform, flow, deferred, edited, switched, recon, excused, acts, faults>>

\* importOne: an Upsert inside a transaction, in which nobody else writes.
Import == /\ Commands("import") /\ remote # "none"
          /\ \E st \in Chosen :
                row' = [row EXCEPT !.there = TRUE, !.deleted = FALSE, !.item = TRUE,
                                   !.status = IF ShouldUpdate(row.status, st) THEN st ELSE @]
          /\ flow' = [t \in DOMAIN flow |-> [flow[t] EXCEPT !.fresh = FALSE]]
          /\ UNCHANGED <<Platform, deferred, edited, switched, recon, excused, acts, faults>>

SwitchRule == /\ Commands("rules")
              /\ \E r \in Rules : rules' = IF r \in rules THEN rules \ {r} ELSE rules \cup {r}
              /\ switched' = TRUE
              /\ UNCHANGED <<row, remote, runs, confirmed, flow, deferred, edited, recon, excused, acts, faults>>

\* Buyer, seller's app and platform move the order on.
Course == {<<"none", "pending_ship">>, <<"pending_ship", "shipped">>, <<"shipped", "completed">>,
           <<"pending_ship", "refunding">>, <<"shipped", "refunding">>, <<"refunding", "cancelled">>,
           <<"pending_ship", "cancelled">>}
Remote == /\ \E to \in Remotes : <<remote, to>> \in Course /\ remote' = to
          /\ UNCHANGED <<row, rules, runs, confirmed, flow, deferred, History, recon, excused, acts, faults>>

\* The process dies and starts again: whatever was under way is gone.
Crash == /\ Fault /\ \E s \in DOMAIN flow : flow[s].pc # "idle"
         /\ flow' = [s \in DOMAIN flow |-> Idle]
         /\ GivesBack
         /\ excused' = (excused \/ \E s \in Slots : flow[s].pc = "ship")
         /\ UNCHANGED <<row, Platform, History, recon, acts>>

Next == \/ \E s \in Slots : Upsert(s) \/ Task(s) \/ Sync(s)
        \/ \E s \in Slots : Event(s) \/ Replay(s) \/ ByHand(s) \/ Refresh(s)
        \/ Upsert(Loop) \/ Look \/ Resolve
        \/ Edit \/ Delete \/ Import \/ SwitchRule \/ Remote \/ Crash

\* The loop's ticker keeps going.
Spec == Init /\ [][Next]_vars /\ WF_vars(Upsert(Loop) \/ Look \/ Resolve)

-----------------------------------------------------------------------------
\* The types; what a writer has read is only fresh between its read and its write.
TypeOK ==
    /\ row \in [there : BOOLEAN, status : Statuses, item : BOOLEAN, full : BOOLEAN, deleted : BOOLEAN]
    /\ row.there \/ row = NoRow
    /\ remote \in Statuses \cup {"none"}
    /\ \A s \in Slots \cup {Loop} :
          /\ flow[s].st \in Statuses \cup {"", "none"} /\ flow[s].rule \in Rules \cup {0}
          /\ flow[s].tries \in 0 .. MaxTries - 1
          /\ flow[s].fresh => flow[s].pc \in Stages /\ flow[s].seen \in Statuses
    /\ deferred \in [at : {"none", "waiting", "held"}, st : Statuses \cup {""}, item : BOOLEAN]
    /\ runs \subseteq [rule : Rules, item : BOOLEAN] /\ rules \subseteq Rules
    /\ recon \in {"none", "pending", "resolved"}

\* An order is delivered by a second rule only if rules were switched meanwhile, or if one of the
\* two matches did not know the item and so looked at the account's rules.
AnotherRuleNeedsAReason ==
    \A a, b \in runs : a.rule # b.rule => switched \/ a.item # b.item

\* A shipment the platform has confirmed is in the row, in the reconciliation, or being written,
\* unless a crash or a second failure lost it, an operator changed it or "unknown" overwrote it.
ConfirmedIsRecorded ==
    confirmed /\ ~excused /\ ~edited =>
        \/ row.status \in Advanced \/ recon = "pending"
        \/ \E s \in Slots : flow[s].pc = "ship"

\* Of all the writers, late and concurrent as they are, none takes an order back from shipped to
\* waiting, or from its end to shipped; only an operator does, and the "unknown" of AdvancedStays.
NoWayBack ==
    [][/\ row.status \in Advanced /\ ~edited' => row'.status \notin Early
       /\ row.status \in {"completed", "cancelled"} /\ ~edited' => row'.status # "shipped"]_vars

\* db/orders.go:142: the version keeps concurrent updates from getting round the rule against
\* going back. Does not hold: a paid task deferred with the status "unknown" of a fresh row writes
\* it back over whatever the sync has recorded since.
AdvancedStays == [][row.status \in Advanced /\ ~edited' => row'.status \in Advanced]_vars

\* db/automation.go:268: item rules shadow account rules, so that an order is not delivered twice.
\* Does not hold: a paid message without the item runs the account's rule, and full delivery by
\* hand, which knows the item, runs the item's.
OneRunPerOrder == Cardinality(runs) <= 1
=============================================================================
