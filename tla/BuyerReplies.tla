---------------------------- MODULE BuyerReplies ----------------------------
(***************************************************************************)
(* What an account answers to its buyers, and the price it then gives      *)
(* them: the dispatcher of pushed messages, the chain of replies (API,     *)
(* keyword, Brain, default), the ledger of Brain turns, the records of the *)
(* default reply and the quotes an order claims.                           *)
(* Sources: engine/message_dispatcher.go, engine/reply.go, db/reply.go,    *)
(* adapter/brain_ai_replier.go, db/brain.go, db/ai_reply.go,               *)
(* automation/ai_pricing.go, automation/action_executor.go.                *)
(*                                                                         *)
(* One account, one buyer, one item, one conversation.  A message is its   *)
(* platform id; a quote is named by the message whose answer named it.     *)
(***************************************************************************)
EXTENDS Naturals, SequencesExt

CONSTANTS
    Msgs,           \* messages of the buyer
    Bargains,       \* those that ask for a lower price
    Orders,         \* orders the buyer places
    Workers,        \* bound: calls of Handle at a time
    Slots,          \* handlers of pushed messages at a time, 100 in the code
    MaxRounds,      \* max_bargain_rounds of the account
    MaxTries,       \* 5 attempts to change a price
    MaxPushes,      \* bound: messages and order events pushed
    Repeated,       \* bound: messages and orders that are pushed a second time
    MaxUpsets       \* bound: acts of the operator, stops, failed sends and statements, late workers

ASSUME RepliesAssumption == /\ Bargains \subseteq Msgs /\ "none" \notin Msgs \cup Orders
                            /\ {Slots, MaxTries} \subseteq Nat \ {0}
                            /\ {MaxRounds, MaxPushes, MaxUpsets} \subseteq Nat

Parts == {"image", "text"}
None  == "none"

VARIABLES
    engine,      \* whether the account's engine takes tasks
    processed,   \* ids of the dispatcher's last hour
    debounce,    \* the message the conversation's timer holds
    worker,      \* calls of ReplyService.Handle
    turn,        \* brain_turns per message
    record,      \* the conversation's row of default_reply_records
    bargains,    \* bargain_count of the rows of ai_conversations
    quotes,      \* ai_bargain_quotes, by id
    policy,      \* ai_reply_settings: AI off, AI on, AI on with price changes
    order,       \* per order: the handling of its order_created event
    pushes, upsets,
    sentAI,      \* history: Brain texts that reached the buyer, per message
    sentDefault, \* history: parts of the default reply that reached the buyer
    told,        \* history: answers with a quote, as the buyer saw them
    changed      \* history: price changes the platform carried out, by quote, per order

replying == <<processed, debounce, worker>>
rows     == <<turn, record, bargains, quotes>>
history  == <<sentAI, sentDefault, told, changed>>
Bounds   == <<pushes, upsets>>
vars     == <<engine, replying, rows, policy, order, Bounds, history>>

Idle    == [pc |-> "idle", msg |-> None, kind |-> "plain", left |-> {}, quote |-> FALSE, adjust |-> FALSE]
NoTurn  == [status |-> "absent", send |-> "pending", draft |-> "none"]
NoRecord == [status |-> "absent", sent |-> {}, live |-> FALSE]
NoOrder == [pc |-> "idle", quote |-> 0, tries |-> 0, result |-> "none"]

Init ==
    /\ engine = "on" /\ processed = {} /\ debounce = None
    /\ worker = [w \in Workers |-> Idle]
    /\ turn = [m \in Msgs |-> NoTurn] /\ record = NoRecord
    /\ bargains = {} /\ quotes = <<>>
    /\ policy = "adjust"
    /\ order = [o \in Orders |-> NoOrder]
    /\ pushes = [x \in Msgs \cup Orders |-> 0] /\ upsets = 0
    /\ sentAI = [m \in Msgs |-> 0] /\ sentDefault = [p \in Parts |-> 0]
    /\ told = <<>> /\ changed = [o \in Orders |-> <<>>]

Upset == upsets < MaxUpsets /\ upsets' = upsets + 1
Push(x) == /\ pushes[x] < (IF x \in Repeated THEN 2 ELSE 1) /\ SumFunction(pushes) < MaxPushes
           /\ pushes' = [pushes EXCEPT ![x] = @ + 1]

-----------------------------------------------------------------------------
\* messageDispatcher.

\* Handlers of order events that are at work, each in its slot.
Busy == {o \in Orders : order[o].pc # "idle"}
Full == Cardinality(Busy) >= Slots

\* A chat message that finds no slot is dropped.  Each one has a goroutine, so they come here in any
\* order, and the last one is what the conversation's timer keeps.  An id may have been forgotten:
\* an hour passed, or more than 10 000 came since.
Dispatch(m) ==
    /\ engine = "on" /\ Push(m)
    /\ IF Full THEN UNCHANGED <<processed, debounce>>
       ELSE /\ processed' = processed \cup {m}
            /\ debounce' = m \/ (m \in processed /\ debounce' = debounce)
    /\ UNCHANGED <<engine, worker, rows, policy, order, upsets, history>>

\* Answers that take longer than the timer overlap with the next ones.
DebounceEnds ==
    /\ debounce # None
    /\ \E w \in Workers :
          /\ worker[w].pc = "idle"
          /\ worker' = [worker EXCEPT ![w] = [Idle EXCEPT !.pc = "resolve", !.msg = debounce]]
    /\ debounce' = None
    /\ UNCHANGED <<engine, processed, rows, policy, order, Bounds, history>>

\* The engine stops, or the process dies: every Context is done, so no task writes or sends again.
Stop ==
    /\ engine = "on" /\ Upset
    /\ engine' = "off"
    /\ processed' = {} /\ debounce' = None
    /\ worker' = [w \in Workers |-> Idle]
    /\ order' = [o \in Orders |-> NoOrder]
    /\ UNCHANGED <<rows, policy, pushes, history>>

Start ==
    /\ engine = "off"
    /\ engine' = "on"
    /\ UNCHANGED <<replying, rows, policy, order, Bounds, history>>

-----------------------------------------------------------------------------
\* ReplyService.resolve and brainAIReplier.Reply.

Step(w, r)  == worker' = [worker EXCEPT ![w] = r]
Goto(w, pc) == Step(w, [worker[w] EXCEPT !.pc = pc])
Msg(w)      == worker[w].msg
Replying    == <<engine, processed, debounce, policy, order, pushes>>

\* What goes out, image first: nothing to skip, or to send without a claim (API, keyword, item reply).
PlainReply(w, parts) ==
    /\ worker[w].pc = "resolve"
    /\ IF parts = {} THEN Goto(w, "idle") ELSE Step(w, [worker[w] EXCEPT !.pc = "send", !.left = parts])
    /\ UNCHANGED <<Replying, rows, upsets, history>>

NoAI(w) ==
    /\ worker[w].pc = "resolve" /\ policy = "off"
    /\ Goto(w, "default")
    /\ UNCHANGED <<Replying, rows, upsets, history>>

\* The request id is the message's: the turn of a message delivered again is there already.
CreateTurn(w) ==
    /\ worker[w].pc = "resolve" /\ policy # "off"
    /\ LET r == [worker[w] EXCEPT !.kind = "ai", !.adjust = policy = "adjust"]
       IN  IF turn[Msg(w)].status = "absent"
           THEN /\ Step(w, [r EXCEPT !.pc = "brain"])
                /\ turn' = [turn EXCEPT ![Msg(w)].status = "queued"]
           ELSE Step(w, [r EXCEPT !.pc = "poll"]) /\ turn' = turn
    /\ UNCHANGED <<Replying, record, bargains, quotes, upsets, history>>

\* An error of the AI stage is logged and the default reply answers instead.
ToDefault(w) == Step(w, [worker[w] EXCEPT !.pc = "default", !.kind = "plain", !.adjust = FALSE])

\* MarkTurnSendStatus.
Settle(m, to) == turn' = IF turn[m].send \in {"pending", "sending"} THEN [turn EXCEPT ![m].send = to] ELSE turn

BrainFails(w) ==
    /\ worker[w].pc = "brain"
    /\ turn' = IF turn[Msg(w)].send = "pending"
               THEN [turn EXCEPT ![Msg(w)] = [@ EXCEPT !.status = "failed", !.send = "failed"]] ELSE turn
    /\ ToDefault(w)
    /\ UNCHANGED <<Replying, record, bargains, quotes, upsets, history>>

\* normalizeDraft: the rounds so far, and whether one more may end in a lower price.
CurrentBargainCount == IF bargains = {} THEN 0 ELSE Max(bargains)
WithinLimit(m) == m \in Bargains /\ MaxRounds > 0 => CurrentBargainCount + 1 <= MaxRounds

KeepsQuote(w, draft) == draft = "quote" /\ worker[w].adjust /\ WithinLimit(Msg(w))

Result(w, draft) ==
    Step(w, [worker[w] EXCEPT !.pc = IF draft = "none" THEN "skip" ELSE "claim", !.quote = KeepsQuote(w, draft)])
Kept(w, draft) == IF draft = "quote" /\ ~KeepsQuote(w, draft) THEN "text" ELSE draft

\* FinishTurn works only while nobody sent or gave up the turn.  The rows of the exchange are
\* written without a bargain count.
BrainAnswers(w, draft) ==
    /\ worker[w].pc = "brain"
    /\ IF turn[Msg(w)].send = "pending"
       THEN /\ turn' = [turn EXCEPT ![Msg(w)] = [@ EXCEPT !.status = "completed", !.draft = Kept(w, draft)]]
            /\ \/ Result(w, draft) /\ bargains' = bargains \cup {0} /\ upsets' = upsets
               \/ ToDefault(w) /\ bargains' = bargains /\ Upset
       ELSE ToDefault(w) /\ UNCHANGED <<turn, bargains, upsets>>
    /\ UNCHANGED <<Replying, record, quotes, history>>

\* reuseExistingTurn.
GaveUp(t) == t.status = "failed" \/ t.send \in {"sent", "skipped", "failed"}

Poll(w) ==
    /\ worker[w].pc = "poll"
    /\ LET t == turn[Msg(w)] IN
       \/ t.status = "completed" /\ Result(w, t.draft)
       \/ t.status # "completed" /\ GaveUp(t) /\ Goto(w, "skip")
    /\ UNCHANGED <<Replying, rows, upsets, history>>

\* Wrong: wait for the other call whatever it takes.
WaitsOn(w) == GaveUp(turn[Msg(w)])

\* 30 seconds.
OutOfTime(w) == turn[Msg(w)].status # "completed"

PollEnds(w) ==
    /\ worker[w].pc = "poll" /\ OutOfTime(w)
    /\ Goto(w, "skip")
    /\ UNCHANGED <<Replying, rows, upsets, history>>

Skip(w) ==
    /\ worker[w].pc = "skip"
    /\ Settle(Msg(w), "skipped")
    /\ Step(w, Idle)
    /\ UNCHANGED <<Replying, record, bargains, quotes, upsets, history>>

-----------------------------------------------------------------------------
\* ReplyService.Handle: the claims.

\* Wrong: a turn that was being sent when its call ended is sent again.
ClaimsAgain(t) == t.status = "completed" /\ t.send \in {"pending", "sending"}

Claimable(t) == t.status = "completed" /\ t.send = "pending"

ClaimTurnSend(w) ==
    /\ worker[w].pc = "claim"
    /\ IF Claimable(turn[Msg(w)])
       THEN /\ turn' = [turn EXCEPT ![Msg(w)].send = "sending"]
            /\ Step(w, [worker[w] EXCEPT !.pc = "send", !.left = {"text"}])
       ELSE Step(w, Idle) /\ turn' = turn
    /\ UNCHANGED <<Replying, record, bargains, quotes, upsets, history>>

\* ClaimRecord: insert; else read, and take a failed row or one whose lease ended.  The parts that
\* are left are those of the row as it was read.
InsertRecord(w) ==
    /\ worker[w].pc = "default"
    /\ LET r == [worker[w] EXCEPT !.kind = "once", !.left = Parts \ record.sent] IN
       IF record.status = "absent"
       THEN /\ record' = [status |-> "pending", sent |-> {}, live |-> TRUE]
            /\ Step(w, [r EXCEPT !.pc = "send"])
       ELSE /\ Step(w, IF record.status = "sent" THEN Idle ELSE [r EXCEPT !.pc = "reclaim"])
            /\ record' = record
    /\ UNCHANGED <<Replying, turn, bargains, quotes, upsets, history>>

Reclaimable == record.status = "failed" \/ (record.status = "pending" /\ ~record.live)

ReclaimRecord(w) ==
    /\ worker[w].pc = "reclaim"
    /\ IF Reclaimable
       THEN /\ record' = [record EXCEPT !.status = "pending", !.live = TRUE]
            /\ IF worker[w].left = {} THEN Goto(w, "finish") ELSE Goto(w, "send")
       ELSE Step(w, Idle) /\ record' = record
    /\ UNCHANGED <<Replying, turn, bargains, quotes, upsets, history>>

\* Five minutes: no call takes that long unless something holds it up.
LeaseLapses ==
    /\ record.status = "pending" /\ record.live
    /\ record' = [record EXCEPT !.live = FALSE]
    /\ IF \E w \in Workers : worker[w].kind = "once" /\ worker[w].pc \in {"send", "mark", "finish", "fail"}
       THEN Upset ELSE upsets' = upsets
    /\ UNCHANGED <<Replying, worker, turn, bargains, quotes, history>>

ClearRecords ==
    /\ Upset /\ record.status # "absent"
    /\ record' = NoRecord
    /\ UNCHANGED <<engine, replying, turn, bargains, quotes, policy, order, pushes, history>>

\* A failed statement of the AI stage leads to the default reply, a later one ends the call.
StatementFails(w) ==
    /\ Upset
    /\ \/ worker[w].pc \in {"resolve", "poll"} /\ policy # "off" /\ ToDefault(w)
       \/ worker[w].pc \in {"skip", "claim", "default", "reclaim"} /\ Step(w, Idle)
    /\ UNCHANGED <<Replying, rows, history>>

-----------------------------------------------------------------------------
\* ReplyService.Handle: the sends.

Part(w) == IF "image" \in worker[w].left THEN "image" ELSE "text"

\* The part reached the buyer.
Reached(w) ==
    LET r == worker[w] IN
    CASE r.kind = "ai"   -> /\ sentAI' = [sentAI EXCEPT ![r.msg] = @ + 1]
                            /\ told' = IF r.quote THEN Append(told, r.msg) ELSE told
                            /\ sentDefault' = sentDefault
      [] r.kind = "once" -> sentDefault' = [sentDefault EXCEPT ![Part(w)] = @ + 1] /\ UNCHANGED <<sentAI, told>>
      [] OTHER           -> UNCHANGED <<sentAI, sentDefault, told>>

\* What follows part p, once the buyer has it and the record says so.
After(w, p) ==
    LET r == worker[w] left == r.left \ {p} IN
    Step(w, [r EXCEPT !.left = left, !.pc = IF left # {} THEN "send" ELSE IF r.quote THEN "quote" ELSE "finish"])

Send(w) ==
    /\ worker[w].pc = "send"
    /\ Reached(w)
    /\ IF worker[w].kind = "once" THEN Goto(w, "mark") ELSE After(w, Part(w))
    /\ UNCHANGED <<Replying, rows, upsets, changed>>

AfterError(w)  == Goto(w, "fail")

\* The send reports an error; the part may be out all the same.
SendFails(w) ==
    /\ worker[w].pc = "send" /\ Upset
    /\ Reached(w) \/ UNCHANGED <<sentAI, sentDefault, told>>
    /\ AfterError(w)
    /\ UNCHANGED <<Replying, rows, changed>>

MarkPartSent(w) == IF record.status = "absent" THEN record ELSE [record EXCEPT !.sent = @ \cup {Part(w)}]

MarkPart(w) ==
    /\ worker[w].pc = "mark"
    /\ \/ record' = MarkPartSent(w) /\ After(w, Part(w)) /\ upsets' = upsets
       \/ record' = record /\ Goto(w, "fail") /\ Upset
    /\ UNCHANGED <<Replying, turn, bargains, quotes, history>>

\* Wrong: those an order claimed are superseded too.
SupersedesAll(s) == "superseded"
Supersede(s) == IF s = "pending" THEN "superseded" ELSE s

\* ReplacePendingQuote: one transaction.  If it fails the turn stays in sending.
SaveQuote(w) ==
    /\ worker[w].pc = "quote"
    /\ \/ /\ quotes' = Append([i \in DOMAIN quotes |-> [quotes[i] EXCEPT !.status = Supersede(@)]],
                              [msg |-> Msg(w), status |-> "pending", live |-> TRUE, order |-> None])
          /\ Goto(w, "finish") /\ upsets' = upsets
       \/ quotes' = quotes /\ Step(w, Idle) /\ Upset
    /\ UNCHANGED <<Replying, turn, record, bargains, history>>

\* MarkRecordSent, or the turn's end; an end that could not be written is logged.
Finish(w) ==
    /\ worker[w].pc = "finish"
    /\ CASE worker[w].kind = "once" ->
              /\ \/ /\ record' = IF record.status = "absent" THEN record
                                 ELSE [record EXCEPT !.status = "sent", !.live = FALSE]
                    /\ Step(w, Idle) /\ upsets' = upsets
                 \/ record' = record /\ Goto(w, "fail") /\ Upset
              /\ turn' = turn
         [] worker[w].kind = "ai" ->
              /\ \/ Settle(Msg(w), "sent") /\ upsets' = upsets
                 \/ turn' = turn /\ Upset
              /\ Step(w, Idle) /\ record' = record
         [] OTHER -> Step(w, Idle) /\ UNCHANGED <<turn, record, upsets>>
    /\ UNCHANGED <<Replying, bargains, quotes, history>>

\* markReplyFailure and markBrainSendStatus: their own errors are ignored.
Fail(w) ==
    /\ worker[w].pc = "fail"
    /\ Step(w, Idle)
    /\ \/ /\ record' = IF worker[w].kind = "once" /\ record.status # "absent"
                       THEN [record EXCEPT !.status = "failed", !.live = FALSE] ELSE record
          /\ IF worker[w].kind = "ai" THEN Settle(Msg(w), "failed") ELSE turn' = turn
          /\ upsets' = upsets
       \/ UNCHANGED <<record, turn>> /\ Upset
    /\ UNCHANGED <<Replying, bargains, quotes, history>>

-----------------------------------------------------------------------------
\* handleAIPricingMode, called for an order_created event inside its handler's slot.

Pricing == <<engine, replying, turn, record, bargains, policy, sentAI, sentDefault, told>>
OrderStep(o, r) == order' = [order EXCEPT ![o] = r]

\* An order event waits for a slot, and the read loop with it.  Without AI the rules price the order;
\* with AI but without price changes nobody does.
OrderCreated(o) ==
    /\ engine = "on" /\ ~Full /\ order[o].pc = "idle"
    /\ Push(o)
    /\ OrderStep(o, IF policy = "adjust" THEN [NoOrder EXCEPT !.pc = "claim"] ELSE NoOrder)
    /\ UNCHANGED <<engine, replying, rows, policy, upsets, history>>

QuoteLapses(i) ==
    /\ quotes[i].status = "pending" /\ quotes[i].live
    /\ quotes' = [quotes EXCEPT ![i].live = FALSE]
    /\ UNCHANGED <<Pricing, order, pushes, upsets, changed>>

\* Wrong: an order that claimed a quote before claims the next one.
ClaimsAnother(o) == FALSE
AlreadyClaimed(o) == \E i \in DOMAIN quotes : quotes[i].order = o

Valid(i) == quotes[i].status = "pending" /\ quotes[i].live

\* The newest valid quote; without one the transaction is rolled back, expired quotes included.
ClaimPendingQuote(o) ==
    /\ order[o].pc = "claim"
    /\ LET valid == {i \in DOMAIN quotes : Valid(i)}
       IN  IF AlreadyClaimed(o) \/ valid = {}
           THEN OrderStep(o, NoOrder) /\ quotes' = quotes
           ELSE LET q == CHOOSE i \in valid : \A j \in valid : j <= i
                IN  /\ quotes' = [i \in DOMAIN quotes |->
                                    CASE i = q -> [quotes[i] EXCEPT !.status = "processing", !.order = o]
                                      [] quotes[i].status = "pending" /\ ~quotes[i].live -> [quotes[i] EXCEPT !.status = "expired"]
                                      [] OTHER -> quotes[i]]
                    /\ OrderStep(o, [NoOrder EXCEPT !.pc = "change", !.quote = q])
    /\ UNCHANGED <<Pricing, pushes, upsets, changed>>

Ended(o, result) == [order[o] EXCEPT !.pc = "finish", !.result = result]
Change(o)        == changed' = [changed EXCEPT ![o] = Append(@, quotes[order[o].quote].msg)]

\* One call of the platform: carried out, busy, refused, or with an unknown end.
PriceChanged(o) ==
    /\ order[o].pc = "change"
    /\ Change(o) /\ OrderStep(o, Ended(o, "adjusted"))
    /\ UNCHANGED <<Pricing, quotes, pushes, upsets>>

ChangeUnknown(o) ==
    /\ order[o].pc = "change" /\ Upset
    /\ Change(o) \/ changed' = changed
    /\ OrderStep(o, Ended(o, "needs_review"))
    /\ UNCHANGED <<Pricing, quotes, pushes>>

PlatformBusy(o) ==
    /\ order[o].pc = "change"
    /\ OrderStep(o, IF order[o].tries + 1 < MaxTries THEN [order[o] EXCEPT !.tries = @ + 1] ELSE Ended(o, "failed"))
    /\ UNCHANGED <<Pricing, quotes, pushes, upsets, changed>>

\* Refused, the session lost for good, or more than an order may cost.
ChangeRefused(o) ==
    /\ order[o].pc = "change"
    /\ OrderStep(o, Ended(o, "failed"))
    /\ UNCHANGED <<Pricing, quotes, pushes, upsets, changed>>

FinishQuote(o) ==
    /\ order[o].pc = "finish"
    /\ OrderStep(o, NoOrder)
    /\ \/ quotes' = [quotes EXCEPT ![order[o].quote].status = IF @ = "processing" THEN order[o].result ELSE @] /\ upsets' = upsets
       \/ quotes' = quotes /\ Upset
    /\ UNCHANGED <<Pricing, pushes, changed>>

SetPolicy(p) ==
    /\ Upset /\ p # policy
    /\ policy' = p
    /\ UNCHANGED <<engine, replying, rows, order, pushes, history>>

-----------------------------------------------------------------------------
WorkerStep(w) ==
    \/ CreateTurn(w) \/ NoAI(w) \/ \E parts \in {{}, {"text"}} : PlainReply(w, parts)
    \/ BrainFails(w) \/ \E draft \in {"none", "text", "quote"} : BrainAnswers(w, draft)
    \/ Poll(w) \/ PollEnds(w) \/ Skip(w)
    \/ ClaimTurnSend(w) \/ InsertRecord(w) \/ ReclaimRecord(w)
    \/ Send(w) \/ MarkPart(w) \/ SaveQuote(w) \/ Finish(w) \/ Fail(w)

OrderStepOf(o) ==
    \/ ClaimPendingQuote(o)
    \/ PriceChanged(o) \/ ChangeUnknown(o) \/ PlatformBusy(o) \/ ChangeRefused(o)
    \/ FinishQuote(o)

Next ==
    \/ \E m \in Msgs : Dispatch(m)
    \/ DebounceEnds \/ Stop \/ Start
    \/ \E w \in Workers : WorkerStep(w) \/ SendFails(w) \/ StatementFails(w)
    \/ LeaseLapses \/ ClearRecords
    \/ \E o \in Orders : OrderCreated(o) \/ OrderStepOf(o)
    \/ \E i \in DOMAIN quotes : QuoteLapses(i)
    \/ \E p \in {"off", "talk", "adjust"} : SetPolicy(p)

\* Every statement, send and call has a deadline, so a handler's next step always comes.
Spec     == Init /\ [][Next]_vars
FairSpec == /\ Spec
            /\ \A w \in Workers : WF_vars(WorkerStep(w))
            /\ \A o \in Orders : WF_vars(OrderStepOf(o))

-----------------------------------------------------------------------------
\* The kinds of values the rows and the tasks hold.
TypeOK ==
    /\ engine \in {"on", "off"} /\ processed \subseteq Msgs /\ debounce \in Msgs \cup {None}
    /\ worker \in [Workers -> [pc : {"idle", "resolve", "brain", "poll", "skip", "claim", "default", "reclaim",
                                     "send", "mark", "quote", "finish", "fail"},
                               msg : Msgs \cup {None}, kind : {"plain", "ai", "once"}, left : SUBSET Parts,
                               quote : BOOLEAN, adjust : BOOLEAN]]
    /\ turn \in [Msgs -> [status : {"absent", "queued", "completed", "failed"},
                          send : {"pending", "sending", "sent", "skipped", "failed"},
                          draft : {"none", "text", "quote"}]]
    /\ record \in [status : {"absent", "pending", "failed", "sent"}, sent : SUBSET Parts, live : BOOLEAN]
    /\ \A i \in DOMAIN quotes :
          quotes[i] \in [msg : Msgs, live : BOOLEAN, order : Orders \cup {None},
                         status : {"pending", "superseded", "expired", "processing", "adjusted", "failed", "needs_review"}]
    /\ policy \in {"off", "talk", "adjust"}
    /\ \A o \in Orders : order[o].pc \in {"idle", "claim", "change", "finish"} /\ order[o].tries < MaxTries

\* A message that is pushed again, after a reconnect, a restart or next to its first handling, is
\* answered by the Brain once: the turn's send right is given once (ClaimTurnSend).
BrainAtMostOnce == \A m \in Msgs : sentAI[m] <= 1

\* "Answer once per conversation": a part of the default reply reaches the buyer a second time only
\* for a fault, a record that was cleared or a worker that outlived its lease (ClaimRecord).
DefaultPartsAreFew == \A p \in Parts : sentDefault[p] <= 1 + upsets

\* Whatever is pushed twice, fails or has an unknown end, the price of an order is changed at most
\* once, and to a price that an answer named to the buyer (ClaimPendingQuote, adjustOrderPriceWithRetry).
ChangedAtMostOnce == \A o \in Orders : Len(changed[o]) <= 1 /\ ToSet(changed[o]) \subseteq ToSet(told)

\* Answers that overlap leave one claimable quote (ReplacePendingQuote).
OnePendingQuote == Cardinality({i \in DOMAIN quotes : quotes[i].status = "pending"}) <= 1

\* What an order claimed stays that order's, new answers leave it alone, and its end is final.
Ends == {"adjusted", "failed", "needs_review"}
ClaimedQuoteEnds ==
    [][\A i \in DOMAIN quotes : quotes[i].order # None =>
          /\ quotes'[i].order = quotes[i].order
          /\ quotes'[i].status = quotes[i].status \/ (quotes[i].status = "processing" /\ quotes'[i].status \in Ends)]_vars

\* A call of Handle ends, also one that waits for the answer of a call that died (reuseExistingTurn).
HandlersEnd == \A w \in Workers : worker[w].pc # "idle" ~> worker[w].pc = "idle"

-----------------------------------------------------------------------------
\* What the code does not keep; no run states these.

\* The claimable quote is the last price the buyer was told: two answers that overlap may save
\* their quotes in the other order.
PendingIsLastTold == \A i \in DOMAIN quotes : quotes[i].status = "pending" => quotes[i].msg = told[Len(told)]

\* At most max_bargain_rounds answers offer a lower price: the rounds are never counted.
RoundsAreLimited == MaxRounds > 0 => Cardinality(ToSet(told) \cap Bargains) <= MaxRounds

\* A turn that says skipped was not sent: a call that waited out marks the turn of the one that sends.
SkippedIsSilent == \A m \in Msgs : turn[m].send = "skipped" => sentAI[m] = 0

\* A part the record holds as sent is not sent again: a claim sends the parts of the row it read first.
OnlyMissingParts == [][\A p \in Parts : p \in record.sent => sentDefault'[p] = sentDefault[p]]_vars
=============================================================================
