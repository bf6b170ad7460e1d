-------------------------------- MODULE Chat --------------------------------
(***************************************************************************)
(* The online chat of an account: one conversation on the platform and the *)
(* copy of it that the program keeps (a chat_sessions row and the rows of  *)
(* chat_messages), fed by pushed messages, by pages of the conversation    *)
(* list and of its history, by what the operator sends and reads, by the   *)
(* texts that automation sends, and by read receipts.                      *)
(* Sources: chat/service.go, chat/outgoing.go, db/chat.go,                 *)
(* application/chat/send.go, adapter/adapter_events.go,                    *)
(* server/chat_handlers.go, engine/outgoing_message_coordinator.go.        *)
(*                                                                         *)
(* A time is a tick of one clock.  A message is its platform id; an own    *)
(* message may have two rows, one under the local key it was sent with and *)
(* one under its platform key, which ends in .PNM.                         *)
(***************************************************************************)
EXTENDS Naturals, FiniteSets, FiniteSetsExt

CONSTANTS
    Last,        \* the messages of the buyer are 1 .. Last, in the order they are written
    Systems,     \* those that are notices of the platform
    Sends,       \* own messages, of the operator or of automation
    Pages,       \* refreshes of the conversation list at a time
    MaxActs      \* bound: pages, histories and reads asked for, readings of the buyer, lost
                 \* and repeated pushes, restarts, failed calls and statements

ASSUME ChatAssumption == /\ {Last, MaxActs} \subseteq Nat /\ Systems \subseteq 1 .. Last
                         /\ IsFiniteSet(Sends)

Msgs  == 1 .. Last

Keys  == Sends \X {"local", "platform"}
None  == 0

VARIABLES
    time,
    \* the platform
    wrote,       \* when the buyer wrote each message, 0 before
    arrived,     \* when each own message arrived, 0 before
    seen,        \* messages of the buyer that no longer count for the red point
    hidden,      \* whether the seller's list hides the conversation
    opened,      \* own messages the buyer opened
    incoming,    \* what the socket still has to hand over
    \* the engine
    processed,   \* ids of the dispatcher's last hour
    waiting,     \* the message that the conversation's debounce timer holds
    saving,      \* messages whose handler runs
    \* the tables
    inRow,       \* the row of each message of the buyer
    ownRow,      \* the rows of own messages
    session,     \* the row of the conversation
    \* requests under way
    page, history, mark, send,
    acts,
    told         \* history: message.created events per message of the buyer

platform == <<wrote, arrived, seen, hidden, opened>>
engine   == <<processed, waiting, saving>>
rows     == <<inRow, ownRow, session>>
asked    == <<page, history, mark, send>>
chatVars     == <<time, platform, incoming, engine, rows, asked, acts, told>>

NoRow     == [status |-> "absent", at |-> 0, read |-> FALSE]
NoSession == [there |-> FALSE, lastAt |-> 0, unread |-> 0, blank |-> TRUE]
NoPage    == [step |-> "idle", visible |-> TRUE, at |-> 0, official |-> 0, system |-> FALSE, count |-> 0]
Push(k, x) == [kind |-> k, of |-> x]

ChatInit ==
    /\ time = 1
    /\ wrote = [m \in Msgs |-> 0] /\ arrived = [s \in Sends |-> 0]
    /\ seen = {} /\ hidden = FALSE /\ opened = {} /\ incoming = {}
    /\ processed = {} /\ waiting = None /\ saving = {}
    /\ inRow = [m \in Msgs |-> "absent"] /\ ownRow = [k \in Keys |-> NoRow] /\ session = NoSession
    /\ page = [p \in Pages |-> NoPage] /\ history = {}
    /\ mark = [step |-> "idle", ids |-> {}] /\ send = [s \in Sends |-> "idle"]
    /\ acts = 0
    /\ told = [m \in Msgs |-> 0]

Tick  == time' = time + 1
Act   == acts < MaxActs /\ acts' = acts + 1

-----------------------------------------------------------------------------
\* The tables.

\* The conversation's row after a message of time at was stored; a row that was absent is inserted blank first.
Touch(at, delta) ==
    [there  |-> TRUE,
     lastAt |-> IF session.lastAt <= at THEN at ELSE session.lastAt,
     unread |-> session.unread + delta,
     blank  |-> session.blank /\ session.lastAt > at]

ReadUpTo(rs, at) == [k \in Keys |-> [rs[k] EXCEPT !.read = @ \/ (rs[k].status # "absent" /\ rs[k].at <= at)]]

\* ChatStore.SaveMessage, of a message of the buyer.
SaveIncoming(m, unread) ==
    IF inRow[m] # "absent"
    THEN /\ session' = [session EXCEPT !.there = TRUE]
         /\ UNCHANGED <<inRow, ownRow>>
    ELSE LET counts == unread /\ m \notin Systems IN
         /\ inRow' = [inRow EXCEPT ![m] = IF counts THEN "unread" ELSE "read"]
         /\ ownRow' = IF m \in Systems THEN ownRow ELSE ReadUpTo(ownRow, wrote[m])
         /\ session' = Touch(wrote[m], IF counts THEN 1 ELSE 0)

\* ChatStore.SaveMessage, of an own message: its platform row inherits a receipt of its local row.
SaveOwn(k, status, at) ==
    /\ UNCHANGED inRow
    /\ IF ownRow[k].status # "absent"
       THEN /\ session' = [session EXCEPT !.there = TRUE]
            /\ UNCHANGED ownRow
       ELSE /\ ownRow' = [ownRow EXCEPT ![k] = [status |-> status, at |-> at,
                             read |-> k[2] = "platform" /\ ownRow[<<k[1], "local">>].read]]
            /\ session' = Touch(at, 0)

\* ChatStore.UpdateMessageStatus.
UpdateMessageStatus(k, status) == ownRow' = [ownRow EXCEPT ![k].status = status]

\* Service.RecordOutgoingSent: the row of the key becomes sent, or a sent row is stored with the present time.
RecordOutgoingSent(k) ==
    IF ownRow[k].status # "absent"
    THEN UpdateMessageStatus(k, "sent") /\ UNCHANGED <<inRow, session, time>>
    ELSE SaveOwn(k, "sent", time + 1) /\ Tick

-----------------------------------------------------------------------------
\* The platform.

BuyerWrites(m) ==
    /\ wrote[m] = 0 /\ \A n \in 1 .. m - 1 : wrote[n] > 0
    /\ Tick /\ wrote' = [wrote EXCEPT ![m] = time + 1] /\ hidden' = FALSE
    /\ incoming' = incoming \cup {Push("message", m)}
    /\ UNCHANGED <<arrived, seen, opened, engine, rows, asked, acts, told>>

\* The buyer opens the conversation: the receipt names the newest own message.
BuyerOpens ==
    LET here == {s \in Sends : arrived[s] > 0} IN
    /\ here \ opened # {} /\ Act
    /\ opened' = here
    /\ \E s \in here : /\ \A r \in here : arrived[r] <= arrived[s]
                       /\ incoming' = incoming \cup {Push("receipt", s)}
    /\ UNCHANGED <<time, wrote, arrived, seen, hidden, engine, rows, asked, told>>

\* The seller reads or hides the conversation in the platform's own client.
ReadElsewhere ==
    /\ Act
    /\ \/ seen' = {m \in Msgs : wrote[m] > 0} /\ UNCHANGED hidden
       \/ ~hidden /\ hidden' = TRUE /\ UNCHANGED seen
    /\ UNCHANGED <<time, wrote, arrived, opened, incoming, engine, rows, asked, told>>

\* What the socket still has to hand over is lost with its connection; a message may come again.
Disconnect == /\ Act /\ incoming # {} /\ incoming' = {}
              /\ UNCHANGED <<time, platform, engine, rows, asked, told>>
RepeatPush == /\ Act
              /\ \E m \in Msgs : /\ wrote[m] > 0 /\ Push("message", m) \notin incoming
                                 /\ incoming' = incoming \cup {Push("message", m)}
              /\ UNCHANGED <<time, platform, engine, rows, asked, told>>

Modify   == Max({1} \cup {wrote[m] : m \in Msgs} \cup {arrived[s] : s \in Sends})
RedPoint == {m \in Msgs : wrote[m] > 0} \ seen

-----------------------------------------------------------------------------
\* Pushed messages, echoes and receipts.

\* A message replaces the one that the debounce timer holds.
DispatchMessage(m) ==
    /\ Push("message", m) \in incoming /\ incoming' = incoming \ {Push("message", m)}
    /\ processed' = processed \cup {m}
    /\ waiting' = IF m \in processed THEN waiting ELSE m
    /\ UNCHANGED <<time, platform, saving, rows, asked, acts, told>>

DebounceEnds ==
    /\ waiting # None
    /\ saving' = saving \cup {waiting} /\ waiting' = None
    /\ UNCHANGED <<time, platform, incoming, processed, rows, asked, acts, told>>

\* Wrong: a message that was stored before is announced again.
TellTwice(m) ==
    /\ m \in saving /\ saving' = saving \ {m}
    /\ SaveIncoming(m, TRUE)
    /\ told' = [told EXCEPT ![m] = @ + 1]
    /\ UNCHANGED <<time, platform, incoming, processed, waiting, asked, acts>>

\* Adapter.HandleChatMessage and Service.RecordIncoming, after the replies.
RecordIncoming(m) ==
    /\ m \in saving /\ saving' = saving \ {m}
    /\ SaveIncoming(m, TRUE)
    /\ told' = [told EXCEPT ![m] = @ + (IF inRow[m] = "absent" THEN 1 ELSE 0)]
    /\ UNCHANGED <<time, platform, incoming, processed, waiting, asked, acts>>

\* An own message that the platform pushes back is stored under its platform key.
OwnEcho(s) ==
    /\ Push("echo", s) \in incoming /\ incoming' = incoming \ {Push("echo", s)}
    /\ RecordOutgoingSent(<<s, "platform">>)
    /\ UNCHANGED <<platform, engine, asked, acts, told>>

\* The time of the newest sent row that is not read.
LatestSent == Max({0} \cup {ownRow[k].at : k \in {l \in Keys : ownRow[l].status = "sent" /\ ~ownRow[l].read}})

\* Adapter.HandleMessageRead: by the receipt's key, else from that newest row.
HandleMessageRead(s) ==
    /\ Push("receipt", s) \in incoming /\ incoming' = incoming \ {Push("receipt", s)}
    /\ IF ownRow[<<s, "platform">>].status # "absent"
       THEN ownRow' = ReadUpTo(ownRow, ownRow[<<s, "platform">>].at)
       ELSE ownRow' = ReadUpTo(ownRow, LatestSent)
    /\ UNCHANGED <<time, platform, engine, inRow, session, asked, acts, told>>

-----------------------------------------------------------------------------
\* Refreshing the conversation list.

\* listChatSessions drops empty conversations, then the platform answers with the page.
FetchPage(p) ==
    /\ page[p].step = "idle" /\ Act
    /\ LET last == {m \in Msgs : wrote[m] = Modify} IN
       page' = [page EXCEPT ![p] = [NoPage EXCEPT !.step = "count", !.visible = ~hidden, !.at = Modify,
                                       !.official = Cardinality(RedPoint), !.system = last # {} /\ last \subseteq Systems]]
    /\ session' = IF session.blank /\ \A m \in Msgs : inRow[m] = "absent" /\ \A k \in Keys : ownRow[k] = NoRow
                  THEN NoSession ELSE session
    /\ UNCHANGED <<time, platform, incoming, engine, inRow, ownRow, history, mark, send, told>>

\* A conversation that the page does not show is deleted.
DropHidden(p) ==
    /\ page[p].step = "count" /\ ~page[p].visible
    /\ page' = [page EXCEPT ![p] = NoPage] /\ session' = NoSession
    /\ UNCHANGED <<time, platform, incoming, engine, inRow, ownRow, history, mark, send, acts, told>>

\* Service.conversationUnreadCount.
CountUnread(p) ==
    LET local == Cardinality({m \in Msgs : inRow[m] = "unread"})
        official == page[p].official
        notices == IF page[p].system THEN {0, 1} ELSE {0} IN
    /\ page[p].step = "count" /\ page[p].visible
    /\ \E n \in notices :
         page' = [page EXCEPT ![p].step = "upsert",
                     ![p].count = IF official = 0 THEN 0
                                  ELSE IF local > 0 THEN Min({local, official}) ELSE official - n]
    /\ UNCHANGED <<time, platform, incoming, engine, rows, history, mark, send, acts, told>>

NoText(p) == page[p].at = 1

\* ChatStore.UpsertSession only raises the count.
UpsertSession(p) ==
    LET newer == session.lastAt <= page[p].at IN
    /\ page[p].step = "upsert" /\ page' = [page EXCEPT ![p].step = "sync"]
    /\ session' = [there  |-> TRUE,
                   lastAt |-> IF newer THEN page[p].at ELSE session.lastAt,
                   unread |-> Max({session.unread, page[p].count}),
                   blank  |-> IF newer THEN NoText(p) ELSE session.blank]
    /\ UNCHANGED <<time, platform, incoming, engine, inRow, ownRow, history, mark, send, acts, told>>

\* Wrong: whatever was stored since.
SyncAlways(p) ==
    /\ page[p].step = "sync" /\ page' = [page EXCEPT ![p] = NoPage]
    /\ session' = [session EXCEPT !.lastAt = page[p].at, !.unread = page[p].count, !.blank = NoText(p)]
    /\ UNCHANGED <<time, platform, incoming, engine, inRow, ownRow, history, mark, send, acts, told>>

\* ChatStore.SyncSessionSummary replaces it, unless something newer than the page was stored.
SyncSessionSummary(p) ==
    /\ page[p].step = "sync" /\ page' = [page EXCEPT ![p] = NoPage]
    /\ session' = IF session.there /\ session.lastAt <= page[p].at
                  THEN [session EXCEPT !.lastAt = page[p].at, !.unread = page[p].count, !.blank = NoText(p)]
                  ELSE session
    /\ UNCHANGED <<time, platform, incoming, engine, inRow, ownRow, history, mark, send, acts, told>>

-----------------------------------------------------------------------------
\* Refreshing the history: the page's messages are stored one by one, oldest first.

Entry(x) == IF x.kind = "message" THEN wrote[x.of] ELSE arrived[x.of]

FetchHistory ==
    /\ history = {} /\ time > 1 /\ Act
    /\ history' = {Push("message", m) : m \in {n \in Msgs : wrote[n] > 0}}
                    \cup {Push("own", s) : s \in {r \in Sends : arrived[r] > 0}}
    /\ UNCHANGED <<time, platform, incoming, engine, rows, page, mark, send, told>>

StoreEntry ==
    \E x \in history :
       /\ \A y \in history : Entry(x) <= Entry(y)
       /\ history' = history \ {x}
       /\ \/ x.kind = "message" /\ SaveIncoming(x.of, FALSE)
          \/ x.kind = "own" /\ SaveOwn(<<x.of, "platform">>, "sent", arrived[x.of])
       /\ UNCHANGED <<time, platform, incoming, engine, page, mark, send, acts, told>>

-----------------------------------------------------------------------------
\* markChatRead: the stored ids, the rows, the count, then the report to the platform.

ListIds ==
    /\ mark.step = "idle" /\ Act
    /\ mark' = [step |-> "rows", ids |-> {m \in Msgs \ Systems : inRow[m] # "absent"}]
    /\ UNCHANGED <<time, platform, incoming, engine, rows, page, history, send, told>>

MarkRows ==
    /\ mark.step = "rows" /\ mark' = [mark EXCEPT !.step = "session"]
    /\ inRow' = [m \in Msgs |-> IF inRow[m] = "unread" THEN "read" ELSE inRow[m]]
    /\ UNCHANGED <<time, platform, incoming, engine, ownRow, session, page, history, send, acts, told>>

MarkSession ==
    /\ mark.step = "session" /\ mark' = [mark EXCEPT !.step = "report"]
    /\ session' = [session EXCEPT !.unread = 0]
    /\ UNCHANGED <<time, platform, incoming, engine, inRow, ownRow, page, history, send, acts, told>>

\* A report that fails is only logged.
ReportRead ==
    /\ mark.step = "report" /\ mark' = [step |-> "idle", ids |-> {}]
    /\ \/ seen' = seen \cup mark.ids /\ UNCHANGED acts
       \/ Act /\ UNCHANGED seen
    /\ UNCHANGED <<time, wrote, arrived, hidden, opened, incoming, engine, rows, page, history, send, told>>

-----------------------------------------------------------------------------
\* Sending: Service.SendText of the application and the text of an automation.

\* The operator's message is stored before it is sent; automation stores nothing first and gives no key.
Start(s) ==
    /\ send[s] = "idle" /\ send' = [send EXCEPT ![s] = "calling"]
    /\ \/ SaveOwn(<<s, "local">>, "sending", time + 1) /\ Tick
       \/ UNCHANGED <<rows, time>>
    /\ UNCHANGED <<platform, incoming, engine, page, history, mark, acts, told>>

Stored(s) == ownRow[<<s, "local">>].status # "absent"

Deliver(s) ==
    /\ send[s] = "calling" /\ arrived[s] = 0
    /\ Tick /\ arrived' = [arrived EXCEPT ![s] = time + 1] /\ hidden' = FALSE
    /\ incoming' = incoming \cup {Push("echo", s)}
    /\ UNCHANGED <<wrote, seen, opened, engine, rows, asked, acts, told>>

\* Wrong: a failed call leaves the row as it is.
ReturnOnly(s) ==
    /\ send[s] = "calling"
    /\ \/ /\ arrived[s] > 0 /\ send' = [send EXCEPT ![s] = IF Stored(s) THEN "sent" ELSE "ended"]
          /\ RecordOutgoingSent(<<s, "local">>) /\ UNCHANGED acts
       \/ Act /\ send' = [send EXCEPT ![s] = "ended"] /\ UNCHANGED <<time, rows>>
    /\ UNCHANGED <<platform, incoming, engine, page, history, mark, told>>

\* The call returns and the engine's observer records the message (an error of it is only logged,
\* an image has no observer), or it fails within 5 seconds, whether the message arrived or not.
Return(s) ==
    /\ send[s] = "calling"
    /\ \/ /\ arrived[s] > 0 /\ send' = [send EXCEPT ![s] = IF Stored(s) THEN "sent" ELSE "ended"]
          /\ \/ RecordOutgoingSent(<<s, "local">>) /\ UNCHANGED acts
             \/ Act /\ UNCHANGED <<time, rows>>
       \/ /\ Act /\ send' = [send EXCEPT ![s] = IF Stored(s) THEN "failed" ELSE "ended"]
          /\ UNCHANGED <<time, rows>>
    /\ UNCHANGED <<platform, incoming, engine, page, history, mark, told>>

\* SetOutgoingStatus with a context that outlives the request.
SetStatus(s) ==
    /\ send[s] \in {"sent", "failed"}
    /\ \/ UpdateMessageStatus(<<s, "local">>, send[s]) /\ send' = [send EXCEPT ![s] = "ended"] /\ UNCHANGED acts
       \/ Act /\ send' = [send EXCEPT ![s] = "cut"] /\ UNCHANGED ownRow
    /\ UNCHANGED <<time, platform, incoming, engine, inRow, session, page, history, mark, told>>

-----------------------------------------------------------------------------
\* The process restarts: requests, timers and the ids of the dispatcher are gone.
Restart ==
    /\ Act
    /\ incoming' = {} /\ processed' = {} /\ waiting' = None /\ saving' = {}
    /\ page' = [p \in Pages |-> NoPage] /\ history' = {} /\ mark' = [step |-> "idle", ids |-> {}]
    /\ send' = [s \in Sends |-> IF send[s] \in {"idle", "ended"} THEN send[s] ELSE "cut"]
    /\ UNCHANGED <<time, platform, rows, told>>

Platform == BuyerOpens \/ ReadElsewhere \/ Disconnect \/ RepeatPush \/ \E m \in Msgs : BuyerWrites(m)
Handlers == DebounceEnds \/ \/ \E m \in Msgs : DispatchMessage(m) \/ RecordIncoming(m)
                            \/ \E s \in Sends : OwnEcho(s) \/ HandleMessageRead(s)
Refresh(p) == FetchPage(p) \/ DropHidden(p) \/ CountUnread(p) \/ UpsertSession(p) \/ SyncSessionSummary(p)
Reading  == FetchHistory \/ StoreEntry \/ ListIds \/ MarkRows \/ MarkSession \/ ReportRead
Sending(s) == Deliver(s) \/ Return(s) \/ SetStatus(s)

ChatNext == \/ Platform \/ Handlers \/ Reading \/ Restart
            \/ \E p \in Pages : Refresh(p)
            \/ \E s \in Sends : Start(s) \/ Sending(s)

ChatSpec == ChatInit /\ [][ChatNext]_chatVars

\* A call of the socket ends within 5 seconds and statements end.
FairChat == ChatSpec /\ \A s \in Sends : WF_chatVars(Sending(s))

-----------------------------------------------------------------------------
\* Times, counts and rows are of their types.
ChatTypeOK ==
    /\ time \in Nat \ {0} /\ wrote \in [Msgs -> Nat] /\ arrived \in [Sends -> Nat]
    /\ seen \subseteq Msgs /\ opened \subseteq Sends /\ hidden \in BOOLEAN
    /\ processed \subseteq Msgs /\ saving \subseteq Msgs /\ waiting \in Msgs \cup {None}
    /\ inRow \in [Msgs -> {"absent", "unread", "read"}]
    /\ ownRow \in [Keys -> [status : {"absent", "sending", "sent", "failed"}, at : Nat, read : BOOLEAN]]
    /\ session \in [there : BOOLEAN, lastAt : Nat, unread : Nat, blank : BOOLEAN]
    /\ mark \in [step : {"idle", "rows", "session", "report"}, ids : SUBSET Msgs]
    /\ send \in [Sends -> {"idle", "calling", "sent", "failed", "ended", "cut"}]

\* A message of the buyer is announced at most once, although pushes repeat,
\* the dispatcher forgets its ids in a restart, and the history page may be
\* storing the same message.
ToldOnce == \A m \in Msgs : told[m] <= 1

\* A page of the conversation list never takes an unread message away that was
\* stored from a push after the page was read (db/chat.go:136-139), as long as
\* one page is applied at a time: a second one that finds the conversation
\* hidden deletes its row, and with it the time the guard compares with.
SyncKeepsNewer ==
    [][\A p \in Pages : \A m \in Msgs :
         page[p].step = "sync" /\ page'[p].step = "idle" /\ inRow[m] = "unread" /\ wrote[m] > page[p].at
            /\ acts' = acts
            => session'.unread >= session.unread]_chatVars

\* Once a page that still shows the newest message was applied, the count is at
\* most the platform's, unless an own message is stored with a later time
\* (chat/service.go:140-147).
SyncSettlesCount ==
    [][\A p \in Pages :
         page[p].step = "sync" /\ page'[p].step = "idle" /\ acts' = acts /\ page[p].at = Modify
            /\ (\A k \in Keys : ownRow[k].at <= page[p].at)
            => session'.unread <= page[p].official]_chatVars

\* What is shown as sent did arrive, and what failed was refused by the call.
SentArrived == \A s \in Sends : \A side \in {"local", "platform"} : ownRow[<<s, side>>].status = "sent" => arrived[s] > 0

\* A message of the operator ends as sent or failed, unless its status could
\* not be saved or the process stopped meanwhile (application/chat/send.go:187-203).
SendsSettle == \A s \in Sends : ownRow[<<s, "local">>].status = "sending"
                                  ~> ownRow[<<s, "local">>].status # "sending" \/ send[s] = "cut"

\* The two below are stated by a comment or a test and do not hold.

\* A receipt marks what the buyer opened (MarkLatestOutgoingRead is for receipts
\* without a key, db/chat.go:542): a receipt whose message has no platform row
\* yet marks the newest own message, and a mark reaches rows that never arrived.
ReadWasSeen ==
    \A k \in Keys : ownRow[k].read =>
       k[1] \in opened \/ (arrived[k[1]] > 0 /\ \E m \in Msgs : wrote[m] > arrived[k[1]])

\* A slow page does not bring back the red point of what the operator has read
\* (chat/service_test.go:413): the count is taken before the operator's read
\* and written after it.
ReadStaysQuiet ==
    [][session'.unread > session.unread =>
         \E m \in Msgs \ Systems : inRow'[m] = "unread" \/ (wrote[m] > 0 /\ inRow'[m] = "absent")]_chatVars
=============================================================================
