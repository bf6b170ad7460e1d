--------------------------- MODULE BuyerRepliesProofs ---------------------------
(***************************************************************************)
(* What a buyer gets once, for any number of messages, workers, orders,    *)
(* repeated pushes and disturbances.                                       *)
(*                                                                         *)
(* The Brain's text: the right to send a turn is given once, because the   *)
(* turn's send status never becomes pending again (TurnsInv).  The price:  *)
(* an order claims one quote ever, works on that one, and changes the      *)
(* price only before it has an end (QuotesInv, OrdersInv).  The default    *)
(* reply: whoever owes a part took the record's one claim, or a            *)
(* disturbance gave it out again (PartsInv).                               *)
(***************************************************************************)
EXTENDS BuyerReplies, FiniteSetTheorems, SequenceTheorems, WellFoundedInduction, TLAPS

Worker == [pc : {"idle", "resolve", "brain", "poll", "skip", "claim", "default", "reclaim", "send", "mark", "quote",
                 "finish", "fail"},
           msg : Msgs \cup {None}, kind : {"plain", "ai", "once"}, left : SUBSET Parts,
           quote : BOOLEAN, adjust : BOOLEAN]
Turn   == [status : {"absent", "queued", "completed", "failed"},
           send : {"pending", "sending", "sent", "skipped", "failed"}, draft : {"none", "text", "quote"}]
Quote  == [msg : Msgs, live : BOOLEAN, order : Orders \cup {None},
           status : {"pending", "superseded", "expired", "processing"} \cup Ends]
Task   == [pc : {"idle", "claim", "change", "finish"}, quote : Nat, tries : 0 .. MaxTries - 1, result : Ends \cup {"none"}]
Told   == ToSet(told)

\* Which kind of reply a call is at, and what it carries there.
Fits(r) ==
    /\ r.pc # "idle" => r.msg \in Msgs
    /\ r.pc \in {"resolve", "default"} => r.kind = "plain"
    /\ r.pc \in {"brain", "poll"} => r.kind = "ai"
    /\ r.pc \in {"reclaim", "mark"} => r.kind = "once"
    /\ r.quote => r.kind = "ai" /\ r.pc \in {"skip", "claim", "send", "quote", "finish", "fail"}
    /\ r.kind = "ai" /\ r.pc = "send" => r.left = {"text"}

Types ==
    /\ worker \in [Workers -> Worker] /\ \A w \in Workers : Fits(worker[w])
    /\ turn \in [Msgs -> Turn] /\ sentAI \in [Msgs -> Nat] /\ debounce \in Msgs \cup {None}
    /\ told \in Seq(Msgs) /\ quotes \in Seq(Quote)
    /\ order \in [Orders -> Task] /\ changed \in [Orders -> Seq(Msgs)]

\* A call that has claimed the turn of its message and not yet sent it.
Sends(r) == r.kind = "ai" /\ r.pc = "send"

TurnsInv ==
    /\ \A m \in Msgs : sentAI[m] <= 1 /\ (turn[m].send = "pending" => sentAI[m] = 0)
    /\ \A w \in Workers : Sends(worker[w]) => sentAI[worker[w].msg] = 0 /\ turn[worker[w].msg].send # "pending"
    /\ \A v, w \in Workers : Sends(worker[v]) /\ Sends(worker[w]) /\ worker[v].msg = worker[w].msg => v = w

\* A quote is saved once its answer is out; a claimed one is being worked on or has its end.
QuotesInv ==
    /\ \A w \in Workers : worker[w].pc = "quote" => worker[w].msg \in Told
    /\ \A i \in DOMAIN quotes : /\ quotes[i].msg \in Told
                                /\ quotes[i].order # None => quotes[i].status \in {"processing"} \cup Ends
    /\ \A i, j \in DOMAIN quotes : quotes[i].status = "pending" /\ quotes[j].status = "pending" => i = j

\* An order works on the quote it claimed, and has not changed the price before it ends the quote.
OrdersInv ==
    \A o \in Orders :
        /\ order[o].pc \in {"change", "finish"} => order[o].quote \in DOMAIN quotes /\ quotes[order[o].quote].order = o
        /\ order[o].pc = "change" => changed[o] = <<>>
        /\ order[o].pc = "finish" => order[o].result \in Ends
        /\ changed[o] # <<>> => AlreadyClaimed(o)
        /\ Len(changed[o]) <= 1 /\ ToSet(changed[o]) \subseteq Told

RepliesInv == Types /\ TurnsInv /\ QuotesInv /\ OrdersInv

-----------------------------------------------------------------------------
(* What the invariant says of one call of Handle.                          *)

LEMMA IdleIs == Idle \in Worker /\ Fits(Idle) /\ ~Sends(Idle) /\ Idle.pc = "idle"
BY DEF Idle, Worker, Fits, Sends, None, Parts

LEMMA WorkerIs ==
    ASSUME RepliesInv, NEW w \in Workers, worker[w].pc # "idle"
    PROVE  /\ worker \in [Workers -> Worker] /\ worker[w] \in Worker /\ Fits(worker[w])
           /\ Msg(w) = worker[w].msg /\ Msg(w) \in Msgs /\ Msg(w) # None
           /\ turn \in [Msgs -> Turn] /\ turn[Msg(w)] \in Turn
BY RepliesAssumption DEF RepliesInv, Types, Fits, Msg, None

\* A call goes on: another point, the parts that are left, a kind, the quote.
LEMMA MovedIs ==
    ASSUME NEW r \in Worker, NEW pc, pc \in {"idle", "resolve", "brain", "poll", "skip", "claim", "default", "reclaim",
                                            "send", "mark", "quote", "finish", "fail"}
    PROVE  LET g == [r EXCEPT !.pc = pc]
           IN  /\ g \in Worker /\ g.pc = pc /\ g.msg = r.msg /\ g.kind = r.kind /\ g.left = r.left
               /\ g.quote = r.quote /\ g.adjust = r.adjust
BY DEF Worker

\* The turns: one call moves on, and sends, claims, or does neither.
LEMMA TurnsStep ==
    ASSUME RepliesInv, NEW w \in Workers, NEW r \in Worker, worker' = [worker EXCEPT ![w] = r],
           \A m \in Msgs : turn'[m].send = "pending" => turn[m].send = "pending",
           sentAI' \in [Msgs -> Nat],
           \A m \in Msgs : \/ sentAI'[m] = sentAI[m]
                           \/ Sends(worker[w]) /\ ~Sends(r) /\ m = worker[w].msg /\ sentAI'[m] = sentAI[m] + 1,
           Sends(r) => turn[r.msg].send = "pending" /\ turn'[r.msg].send # "pending" /\ r.msg \in Msgs
                       /\ sentAI' = sentAI
    PROVE  TurnsInv'
<1>1. worker \in [Workers -> Worker] /\ sentAI \in [Msgs -> Nat]
      /\ \A v \in Workers : Sends(worker[v]) => worker[v].msg \in Msgs
  BY DEF RepliesInv, Types, Fits, Sends
<1>2. \A v \in Workers : worker'[v] = IF v = w THEN r ELSE worker[v]  BY <1>1
<1>3. TurnsInv  BY DEF RepliesInv
<1>4. ASSUME NEW m \in Msgs
      PROVE  sentAI'[m] <= 1 /\ (turn'[m].send = "pending" => sentAI'[m] = 0)
  <2>1. CASE sentAI'[m] = sentAI[m]  BY <2>1, <1>3 DEF TurnsInv
  <2>2. CASE Sends(worker[w]) /\ m = worker[w].msg /\ sentAI'[m] = sentAI[m] + 1
    <3>1. sentAI[m] = 0 /\ turn[m].send # "pending"  BY <2>2, <1>3 DEF TurnsInv
    <3>2. QED  BY <2>2, <3>1
  <2>3. QED  BY <2>1, <2>2
<1>5. ASSUME NEW v \in Workers, Sends(worker'[v])
      PROVE  sentAI'[worker'[v].msg] = 0 /\ turn'[worker'[v].msg].send # "pending"
  <2>1. CASE v = w
    <3>1. worker'[v] = r /\ Sends(r)  BY <1>2, <1>5, <2>1
    <3>2. sentAI[r.msg] = 0 /\ sentAI' = sentAI  BY <3>1, <1>3 DEF TurnsInv
    <3>3. QED  BY <3>1, <3>2
  <2>2. CASE v # w
    <3>1. worker'[v] = worker[v] /\ Sends(worker[v])  BY <1>2, <1>5, <2>2
    <3> DEFINE m == worker[v].msg
    <3>2. m \in Msgs /\ sentAI[m] = 0 /\ turn[m].send # "pending"  BY <1>1, <1>3, <3>1 DEF TurnsInv
    <3>3. ~(Sends(worker[w]) /\ m = worker[w].msg)  BY <1>3, <3>1, <2>2 DEF TurnsInv
    <3>4. sentAI'[m] = sentAI[m] /\ turn'[m].send # "pending"  BY <3>2, <3>3
    <3>5. QED  BY <3>1, <3>2, <3>4
  <2>3. QED  BY <2>1, <2>2
<1>6. ASSUME NEW u \in Workers, NEW v \in Workers,
             Sends(worker'[u]), Sends(worker'[v]), worker'[u].msg = worker'[v].msg
      PROVE  u = v
  <2>1. ASSUME NEW x \in Workers, x # w, Sends(worker'[x]), Sends(r), worker'[x].msg = r.msg
        PROVE  FALSE
    <3>1. worker'[x] = worker[x] /\ turn[worker[x].msg].send # "pending"  BY <1>2, <1>3, <2>1 DEF TurnsInv
    <3>2. QED  BY <3>1, <2>1
  <2>2. CASE u = w \/ v = w  BY <1>2, <1>6, <2>1, <2>2
  <2>3. CASE u # w /\ v # w  BY <1>2, <1>3, <1>6, <2>3 DEF TurnsInv
  <2>4. QED  BY <2>2, <2>3
<1>7. QED  BY <1>4, <1>5, <1>6 DEF TurnsInv

\* Nothing happens to the quotes and the orders.
LEMMA QuotesStay ==
    ASSUME RepliesInv, UNCHANGED <<quotes, order, changed>>, Told \subseteq Told',
           \A w \in Workers : worker'[w].pc = "quote" => \/ worker[w].pc = "quote" /\ worker'[w].msg = worker[w].msg
                                                         \/ worker'[w].msg \in Told'
    PROVE  QuotesInv' /\ OrdersInv'
<1>1. QuotesInv /\ OrdersInv  BY DEF RepliesInv
<1>2. QuotesInv'
  <2>1. \A w \in Workers : worker'[w].pc = "quote" => worker'[w].msg \in Told'  BY <1>1 DEF QuotesInv
  <2>2. QED  BY <1>1, <2>1 DEF QuotesInv
<1>3. OrdersInv'
  <2>1. \A o \in Orders : AlreadyClaimed(o)' <=> AlreadyClaimed(o)  BY DEF AlreadyClaimed
  <2>2. QED  BY <1>1, <2>1 DEF OrdersInv
<1>4. QED  BY <1>2, <1>3

\* A step of one call that sends nothing and saves no quote.
LEMMA QuietKeeps ==
    ASSUME RepliesInv, NEW w \in Workers, NEW r \in Worker, Fits(r), ~Sends(r), r.pc # "quote",
           worker' = [worker EXCEPT ![w] = r], turn' \in [Msgs -> Turn],
           \A m \in Msgs : turn'[m].send = "pending" => turn[m].send = "pending",
           debounce' \in Msgs \cup {None}, UNCHANGED <<quotes, order, changed, told, sentAI>>
    PROVE  RepliesInv'
<1>1. worker \in [Workers -> Worker]  BY DEF RepliesInv, Types
<1>2. worker' \in [Workers -> Worker] /\ \A v \in Workers : worker'[v] = IF v = w THEN r ELSE worker[v]
  BY <1>1
<1>3. Types'  BY <1>2 DEF RepliesInv, Types
<1>4. TurnsInv'  BY TurnsStep DEF RepliesInv, Types
<1>5. Told' = Told  BY DEF Told
<1>6. QuotesInv' /\ OrdersInv'  BY <1>2, <1>5, QuotesStay
<1>7. QED  BY <1>3, <1>4, <1>6 DEF RepliesInv

\* The steps of one call change nothing but its own state, its turn, and what they send or save.
LEMMA TurnStays ==
    ASSUME RepliesInv, UNCHANGED turn
    PROVE  turn' \in [Msgs -> Turn] /\ \A m \in Msgs : turn'[m].send = "pending" => turn[m].send = "pending"
BY DEF RepliesInv, Types

\* A turn gets a new status, or an end of its sending: the latter is never pending again.
LEMMA TurnMoves ==
    ASSUME RepliesInv, NEW m \in Msgs, NEW t \in Turn, turn' = [turn EXCEPT ![m] = t],
           t.send = "pending" => turn[m].send = "pending"
    PROVE  turn' \in [Msgs -> Turn] /\ \A n \in Msgs : turn'[n].send = "pending" => turn[n].send = "pending"
BY DEF RepliesInv, Types

LEMMA SettleIs ==
    ASSUME RepliesInv, NEW m \in Msgs, NEW to \in {"sent", "skipped", "failed"}, Settle(m, to)
    PROVE  turn' \in [Msgs -> Turn] /\ \A n \in Msgs : turn'[n].send = "pending" => turn[n].send = "pending"
<1>1. CASE turn' = turn  BY <1>1, TurnStays
<1>2. CASE turn' = [turn EXCEPT ![m].send = to]
  <2> DEFINE t == [turn[m] EXCEPT !.send = to]
  <2>1. turn[m] \in Turn /\ m \in DOMAIN turn  BY DEF RepliesInv, Types
  <2>2. t \in Turn /\ t.send = to  BY <2>1 DEF Turn
  <2>3. turn' = [turn EXCEPT ![m] = t]  BY <1>2, <2>1
  <2> HIDE DEF t
  <2>4. QED  BY <2>2, <2>3, TurnMoves
<1>3. QED  BY <1>1, <1>2 DEF Settle

\* A call goes to a point of its own kind, sends nothing and leaves the turns alone, or not.
LEMMA GotoKeeps ==
    ASSUME RepliesInv, NEW w \in Workers, worker[w].pc # "idle",
           NEW pc \in {"idle", "default", "claim", "skip", "fail", "finish", "send", "mark"}, Goto(w, pc),
           pc = "default" => worker[w].kind = "plain",
           pc = "mark" => worker[w].kind = "once",
           pc = "send" => worker[w].kind # "ai",
           worker[w].quote => pc \in {"fail", "finish"},
           turn' \in [Msgs -> Turn], \A m \in Msgs : turn'[m].send = "pending" => turn[m].send = "pending",
           UNCHANGED <<debounce, quotes, order, changed, told, sentAI>>
    PROVE  RepliesInv'
<1> DEFINE r == [worker[w] EXCEPT !.pc = pc]
<1>1. worker[w] \in Worker /\ Fits(worker[w])  BY WorkerIs
<1>2. r \in Worker /\ r.pc = pc /\ r.msg = worker[w].msg /\ r.kind = worker[w].kind /\ r.left = worker[w].left
      /\ r.quote = worker[w].quote
  BY <1>1, MovedIs
<1>3. worker' = [worker EXCEPT ![w] = r]  BY DEF Goto, Step
<1> HIDE DEF r
<1>4. Fits(r) /\ ~Sends(r) /\ r.pc # "quote"  BY <1>1, <1>2 DEF Fits, Sends
<1>5. debounce' \in Msgs \cup {None}  BY DEF RepliesInv, Types
<1>6. QED  BY <1>2, <1>3, <1>4, <1>5, QuietKeeps

LEMMA EndKeeps ==
    ASSUME RepliesInv, NEW w \in Workers, Step(w, Idle), turn' \in [Msgs -> Turn],
           \A m \in Msgs : turn'[m].send = "pending" => turn[m].send = "pending",
           UNCHANGED <<debounce, quotes, order, changed, told, sentAI>>
    PROVE  RepliesInv'
<1>1. worker' = [worker EXCEPT ![w] = Idle]  BY DEF Step
<1>2. debounce' \in Msgs \cup {None}  BY DEF RepliesInv, Types
<1>3. QED  BY <1>1, <1>2, IdleIs, QuietKeeps

LEMMA ToDefaultKeeps ==
    ASSUME RepliesInv, NEW w \in Workers, worker[w].pc \in {"resolve", "brain", "poll"}, ToDefault(w),
           turn' \in [Msgs -> Turn], \A m \in Msgs : turn'[m].send = "pending" => turn[m].send = "pending",
           UNCHANGED <<debounce, quotes, order, changed, told, sentAI>>
    PROVE  RepliesInv'
<1> DEFINE r == [worker[w] EXCEPT !.pc = "default", !.kind = "plain", !.adjust = FALSE]
<1>1. worker[w] \in Worker /\ Fits(worker[w]) /\ worker[w].msg \in Msgs  BY WorkerIs
<1>2. r \in Worker /\ r.pc = "default" /\ r.msg = worker[w].msg /\ r.kind = "plain" /\ r.quote = worker[w].quote
  BY <1>1 DEF Worker
<1>3. worker' = [worker EXCEPT ![w] = r]  BY DEF ToDefault, Step
<1> HIDE DEF r
<1>4. Fits(r) /\ ~Sends(r) /\ r.pc # "quote"  BY <1>1, <1>2 DEF Fits, Sends
<1>5. debounce' \in Msgs \cup {None}  BY DEF RepliesInv, Types
<1>6. QED  BY <1>2, <1>3, <1>4, <1>5, QuietKeeps

\* The answer of the turn, new or read: nothing to send, or a claim, with the quote or without.
LEMMA ResultKeeps ==
    ASSUME RepliesInv, NEW w \in Workers, worker[w].pc \in {"brain", "poll"}, NEW draft, Result(w, draft),
           turn' \in [Msgs -> Turn], \A m \in Msgs : turn'[m].send = "pending" => turn[m].send = "pending",
           UNCHANGED <<debounce, quotes, order, changed, told, sentAI>>
    PROVE  RepliesInv'
<1> DEFINE pc == IF draft = "none" THEN "skip" ELSE "claim"
           q  == KeepsQuote(w, draft)
           r  == [worker[w] EXCEPT !.pc = pc, !.quote = q]
<1>1. worker[w] \in Worker /\ Fits(worker[w]) /\ worker[w].msg \in Msgs  BY WorkerIs
<1>2. worker' = [worker EXCEPT ![w] = r]  BY DEF Result, Step
<1>3. q \in BOOLEAN
  <2>1. worker[w].adjust \in BOOLEAN  BY <1>1 DEF Worker
  <2>2. WithinLimit(Msg(w)) \in BOOLEAN  BY DEF WithinLimit
  <2>3. QED  BY <2>1, <2>2 DEF KeepsQuote
<1>4. pc \in {"skip", "claim"}  OBVIOUS
<1> HIDE DEF pc, q
<1>5. r \in Worker /\ r.pc = pc /\ r.msg = worker[w].msg /\ r.kind = worker[w].kind
  BY <1>1, <1>3, <1>4 DEF Worker
<1> HIDE DEF r
<1>6. Fits(r) /\ ~Sends(r) /\ r.pc # "quote"  BY <1>1, <1>4, <1>5 DEF Fits, Sends
<1>7. debounce' \in Msgs \cup {None}  BY DEF RepliesInv, Types
<1>8. QED  BY <1>2, <1>5, <1>6, <1>7, QuietKeeps

-----------------------------------------------------------------------------
(* The stages of a reply, up to its claim.                                 *)

LEMMA PlainReplyKeeps ==
    ASSUME RepliesInv, NEW w \in Workers, NEW parts \in {{}, {"text"}}, PlainReply(w, parts)
    PROVE  RepliesInv'
<1>1. /\ worker[w].pc = "resolve" /\ worker[w] \in Worker /\ Fits(worker[w]) /\ worker[w].msg \in Msgs
      /\ UNCHANGED <<debounce, turn, quotes, order, changed, told, sentAI>>
  BY WorkerIs DEF PlainReply, Replying, rows, history
<1>2. ~worker[w].quote /\ worker[w].kind = "plain"  BY <1>1 DEF Fits
<1>3. CASE parts = {}
  <2>1. Goto(w, "idle")  BY <1>3 DEF PlainReply
  <2>2. QED  BY <1>1, <1>2, <2>1, TurnStays, GotoKeeps
<1>4. CASE parts # {}
  <2> DEFINE r == [worker[w] EXCEPT !.pc = "send", !.left = parts]
  <2>1. worker' = [worker EXCEPT ![w] = r]  BY <1>4 DEF PlainReply, Step
  <2>2. parts \in SUBSET Parts  BY DEF Parts
  <2>3. r \in Worker /\ r.pc = "send" /\ r.msg = worker[w].msg /\ r.kind = worker[w].kind /\ r.quote = worker[w].quote
    BY <1>1, <2>2 DEF Worker
  <2> HIDE DEF r
  <2>4. Fits(r) /\ ~Sends(r) /\ r.pc # "quote"  BY <1>1, <1>2, <2>3 DEF Fits, Sends
  <2>5. debounce' \in Msgs \cup {None}  BY <1>1 DEF RepliesInv, Types
  <2>6. QED  BY <1>1, <2>1, <2>3, <2>4, <2>5, TurnStays, QuietKeeps
<1>5. QED  BY <1>3, <1>4

LEMMA NoAIKeeps ==
    ASSUME RepliesInv, NEW w \in Workers, NoAI(w)
    PROVE  RepliesInv'
<1>1. worker[w].pc = "resolve" /\ Fits(worker[w]) /\ Goto(w, "default")
      /\ UNCHANGED <<debounce, turn, quotes, order, changed, told, sentAI>>
  BY WorkerIs DEF NoAI, Replying, rows, history
<1>2. ~worker[w].quote /\ worker[w].kind = "plain"  BY <1>1 DEF Fits
<1>3. QED  BY <1>1, <1>2, TurnStays, GotoKeeps

LEMMA CreateTurnKeeps ==
    ASSUME RepliesInv, NEW w \in Workers, CreateTurn(w)
    PROVE  RepliesInv'
<1> DEFINE r(pc) == [worker[w] EXCEPT !.kind = "ai", !.adjust = (policy = "adjust"), !.pc = pc]
<1>1. /\ worker[w].pc = "resolve" /\ worker[w] \in Worker /\ Fits(worker[w]) /\ worker[w].msg \in Msgs
      /\ Msg(w) = worker[w].msg /\ turn[Msg(w)] \in Turn /\ turn \in [Msgs -> Turn]
      /\ UNCHANGED <<debounce, quotes, order, changed, told, sentAI>>
  BY WorkerIs DEF CreateTurn, Replying, history
<1>2. ASSUME NEW pc \in {"brain", "poll"}
      PROVE  r(pc) \in Worker /\ Fits(r(pc)) /\ ~Sends(r(pc)) /\ r(pc).pc # "quote"
  <2>1. (policy = "adjust") \in BOOLEAN  OBVIOUS
  <2>2. /\ r(pc) \in Worker /\ r(pc).pc = pc /\ r(pc).kind = "ai" /\ r(pc).msg = worker[w].msg
        /\ r(pc).quote = worker[w].quote
    BY <1>1, <2>1 DEF Worker
  <2> HIDE DEF r
  <2>3. QED  BY <1>1, <2>2 DEF Fits, Sends
<1>3. debounce' \in Msgs \cup {None}  BY <1>1 DEF RepliesInv, Types
<1>4. CASE turn[Msg(w)].status = "absent"
  <2> DEFINE t == [turn[Msg(w)] EXCEPT !.status = "queued"]
  <2>1. t \in Turn /\ t.send = turn[Msg(w)].send  BY <1>1 DEF Turn
  <2>2. turn' = [turn EXCEPT ![Msg(w)] = t]  BY <1>1, <1>4 DEF CreateTurn
  <2> HIDE DEF t
  <2>3. turn' \in [Msgs -> Turn] /\ \A m \in Msgs : turn'[m].send = "pending" => turn[m].send = "pending"
    BY <1>1, <2>1, <2>2, TurnMoves
  <2>4. worker' = [worker EXCEPT ![w] = r("brain")]  BY <1>1, <1>4 DEF CreateTurn, Step
  <2> HIDE DEF r
  <2>5. QED  BY <1>1, <1>2, <1>3, <2>3, <2>4, QuietKeeps
<1>5. CASE turn[Msg(w)].status # "absent"
  <2>1. worker' = [worker EXCEPT ![w] = r("poll")] /\ turn' = turn  BY <1>1, <1>5 DEF CreateTurn, Step
  <2> HIDE DEF r
  <2>2. QED  BY <1>1, <1>2, <1>3, <2>1, TurnStays, QuietKeeps
<1>6. QED  BY <1>4, <1>5

LEMMA BrainFailsKeeps ==
    ASSUME RepliesInv, NEW w \in Workers, BrainFails(w)
    PROVE  RepliesInv'
<1>1. /\ worker[w].pc = "brain" /\ ToDefault(w) /\ Msg(w) \in Msgs /\ turn[Msg(w)] \in Turn /\ turn \in [Msgs -> Turn]
      /\ UNCHANGED <<debounce, quotes, order, changed, told, sentAI>>
  BY WorkerIs DEF BrainFails, Replying, history
<1>2. turn' \in [Msgs -> Turn] /\ \A m \in Msgs : turn'[m].send = "pending" => turn[m].send = "pending"
  <2>1. CASE turn[Msg(w)].send = "pending"
    <3> DEFINE t == [turn[Msg(w)] EXCEPT !.status = "failed", !.send = "failed"]
    <3>1. t \in Turn /\ t.send = "failed"  BY <1>1 DEF Turn
    <3>2. turn' = [turn EXCEPT ![Msg(w)] = t]  BY <1>1, <2>1 DEF BrainFails
    <3> HIDE DEF t
    <3>3. QED  BY <1>1, <3>1, <3>2, TurnMoves
  <2>2. CASE turn[Msg(w)].send # "pending"  BY <2>2, TurnStays DEF BrainFails
  <2>3. QED  BY <2>1, <2>2
<1>3. QED  BY <1>1, <1>2, ToDefaultKeeps

LEMMA BrainAnswersKeeps ==
    ASSUME RepliesInv, NEW w \in Workers, NEW draft \in {"none", "text", "quote"}, BrainAnswers(w, draft)
    PROVE  RepliesInv'
<1>1. /\ worker[w].pc = "brain" /\ Msg(w) \in Msgs /\ turn[Msg(w)] \in Turn /\ turn \in [Msgs -> Turn]
      /\ UNCHANGED <<debounce, quotes, order, changed, told, sentAI>>
  BY WorkerIs DEF BrainAnswers, Replying, history
<1>2. CASE turn[Msg(w)].send = "pending"
  <2> DEFINE t == [turn[Msg(w)] EXCEPT !.status = "completed", !.draft = Kept(w, draft)]
  <2>1. Kept(w, draft) \in {"none", "text", "quote"}  BY DEF Kept
  <2>2. t \in Turn /\ t.send = turn[Msg(w)].send  BY <1>1, <2>1 DEF Turn
  <2>3. turn' = [turn EXCEPT ![Msg(w)] = t]  BY <1>1, <1>2 DEF BrainAnswers
  <2> HIDE DEF t
  <2>4. turn' \in [Msgs -> Turn] /\ \A m \in Msgs : turn'[m].send = "pending" => turn[m].send = "pending"
    BY <1>1, <2>2, <2>3, TurnMoves
  <2>5. Result(w, draft) \/ ToDefault(w)  BY <1>2 DEF BrainAnswers
  <2>6. QED  BY <1>1, <2>4, <2>5, ResultKeeps, ToDefaultKeeps
<1>3. CASE turn[Msg(w)].send # "pending"
  <2>1. ToDefault(w) /\ turn' = turn  BY <1>3 DEF BrainAnswers
  <2>2. QED  BY <1>1, <2>1, TurnStays, ToDefaultKeeps
<1>4. QED  BY <1>2, <1>3

LEMMA PollKeeps ==
    ASSUME RepliesInv, NEW w \in Workers, Poll(w) \/ PollEnds(w)
    PROVE  RepliesInv'
<1>1. /\ worker[w].pc = "poll" /\ Fits(worker[w])
      /\ UNCHANGED <<debounce, turn, quotes, order, changed, told, sentAI>>
  BY WorkerIs DEF Poll, PollEnds, Replying, rows, history
<1>2. ~worker[w].quote  BY <1>1 DEF Fits
<1>3. Result(w, turn[Msg(w)].draft) \/ Goto(w, "skip")  BY DEF Poll, PollEnds
<1>4. QED  BY <1>1, <1>2, <1>3, TurnStays, ResultKeeps, GotoKeeps

LEMMA SkipKeeps ==
    ASSUME RepliesInv, NEW w \in Workers, Skip(w)
    PROVE  RepliesInv'
<1>1. /\ worker[w].pc = "skip" /\ Msg(w) \in Msgs /\ Step(w, Idle) /\ Settle(Msg(w), "skipped")
      /\ UNCHANGED <<debounce, quotes, order, changed, told, sentAI>>
  BY WorkerIs DEF Skip, Replying, history
<1>2. QED  BY <1>1, SettleIs, EndKeeps

\* The right to send: given while the turn is pending, which it then never is again.
LEMMA ClaimTurnSendKeeps ==
    ASSUME RepliesInv, NEW w \in Workers, ClaimTurnSend(w)
    PROVE  RepliesInv'
<1>1. /\ worker[w].pc = "claim" /\ worker[w] \in Worker /\ Fits(worker[w]) /\ worker[w].msg \in Msgs
      /\ Msg(w) = worker[w].msg /\ turn[Msg(w)] \in Turn /\ turn \in [Msgs -> Turn] /\ worker \in [Workers -> Worker]
      /\ UNCHANGED <<debounce, quotes, order, changed, told, sentAI>>
  BY WorkerIs DEF ClaimTurnSend, Replying, history
<1>2. CASE Claimable(turn[Msg(w)])
  <2> DEFINE t == [turn[Msg(w)] EXCEPT !.send = "sending"]
             r == [worker[w] EXCEPT !.pc = "send", !.left = {"text"}]
  <2>1. t \in Turn /\ t.send = "sending"  BY <1>1 DEF Turn
  <2>2. turn' = [turn EXCEPT ![Msg(w)] = t] /\ turn[Msg(w)].send = "pending"
    BY <1>1, <1>2 DEF ClaimTurnSend, Claimable
  <2>3. worker' = [worker EXCEPT ![w] = r]  BY <1>2 DEF ClaimTurnSend, Step
  <2>4. {"text"} \in SUBSET Parts  BY DEF Parts
  <2>5. r \in Worker /\ r.pc = "send" /\ r.left = {"text"} /\ r.msg = worker[w].msg /\ r.kind = worker[w].kind
        /\ r.quote = worker[w].quote
    BY <1>1, <2>4 DEF Worker
  <2> HIDE DEF t, r
  <2>6. Fits(r)  BY <1>1, <2>5 DEF Fits
  <2>7. /\ turn' \in [Msgs -> Turn] /\ turn'[Msg(w)].send # "pending"
        /\ \A m \in Msgs : turn'[m].send = "pending" => turn[m].send = "pending"
    BY <1>1, <2>1, <2>2
  <2>8. sentAI \in [Msgs -> Nat]  BY DEF RepliesInv, Types
  <2>9. TurnsInv'  BY <1>1, <2>2, <2>3, <2>5, <2>7, <2>8, TurnsStep
  <2>10. worker' \in [Workers -> Worker] /\ \A v \in Workers : worker'[v] = IF v = w THEN r ELSE worker[v]
    BY <1>1, <2>3, <2>5
  <2>11. Types'  BY <1>1, <2>6, <2>7, <2>10 DEF RepliesInv, Types
  <2>12. QuotesInv' /\ OrdersInv'
    <3>1. Told' = Told  BY <1>1 DEF Told
    <3>2. QED  BY <1>1, <2>5, <2>10, <3>1, QuotesStay
  <2>13. QED  BY <2>9, <2>11, <2>12 DEF RepliesInv
<1>3. CASE ~Claimable(turn[Msg(w)])
  <2>1. Step(w, Idle) /\ turn' = turn  BY <1>3 DEF ClaimTurnSend
  <2>2. QED  BY <1>1, <2>1, TurnStays, EndKeeps
<1>4. QED  BY <1>2, <1>3

LEMMA InsertRecordKeeps ==
    ASSUME RepliesInv, NEW w \in Workers, InsertRecord(w)
    PROVE  RepliesInv'
<1>1. /\ worker[w].pc = "default" /\ worker[w] \in Worker /\ Fits(worker[w]) /\ worker[w].msg \in Msgs
      /\ UNCHANGED <<debounce, turn, quotes, order, changed, told, sentAI>>
  BY WorkerIs DEF InsertRecord, Replying, history
<1> DEFINE r(pc) == [worker[w] EXCEPT !.kind = "once", !.left = Parts \ record.sent, !.pc = pc]
<1>2. Step(w, Idle) \/ \E pc \in {"send", "reclaim"} : worker' = [worker EXCEPT ![w] = r(pc)]
  BY <1>1 DEF InsertRecord, Step
<1>3. ASSUME NEW pc \in {"send", "reclaim"}, worker' = [worker EXCEPT ![w] = r(pc)]  PROVE RepliesInv'
  <2>1. Parts \ record.sent \in SUBSET Parts  OBVIOUS
  <2>2. /\ r(pc) \in Worker /\ r(pc).pc = pc /\ r(pc).kind = "once" /\ r(pc).msg = worker[w].msg
        /\ r(pc).quote = worker[w].quote
    BY <1>1, <2>1 DEF Worker
  <2> HIDE DEF r
  <2>3. Fits(r(pc)) /\ ~Sends(r(pc)) /\ r(pc).pc # "quote"  BY <1>1, <2>2 DEF Fits, Sends
  <2>4. debounce' \in Msgs \cup {None}  BY <1>1 DEF RepliesInv, Types
  <2>5. QED  BY <1>1, <1>3, <2>2, <2>3, <2>4, TurnStays, QuietKeeps
<1>4. QED  BY <1>1, <1>2, <1>3, TurnStays, EndKeeps

LEMMA ReclaimRecordKeeps ==
    ASSUME RepliesInv, NEW w \in Workers, ReclaimRecord(w)
    PROVE  RepliesInv'
<1>1. /\ worker[w].pc = "reclaim" /\ Fits(worker[w])
      /\ UNCHANGED <<debounce, turn, quotes, order, changed, told, sentAI>>
  BY WorkerIs DEF ReclaimRecord, Replying, history
<1>2. ~worker[w].quote /\ worker[w].kind = "once"  BY <1>1 DEF Fits
<1>3. Goto(w, "finish") \/ Goto(w, "send") \/ Step(w, Idle)  BY DEF ReclaimRecord
<1>4. QED  BY <1>1, <1>2, <1>3, TurnStays, GotoKeeps, EndKeeps

LEMMA StatementFailsKeeps ==
    ASSUME RepliesInv, NEW w \in Workers, StatementFails(w)
    PROVE  RepliesInv'
<1>1. UNCHANGED <<debounce, turn, quotes, order, changed, told, sentAI>>
  BY DEF StatementFails, Replying, rows, history
<1>2. CASE worker[w].pc \in {"resolve", "poll"} /\ ToDefault(w)  BY <1>1, <1>2, TurnStays, ToDefaultKeeps
<1>3. CASE Step(w, Idle)  BY <1>1, <1>3, TurnStays, EndKeeps
<1>4. QED  BY <1>2, <1>3 DEF StatementFails

-----------------------------------------------------------------------------
(* The sends.                                                              *)

LEMMA ToldGrows ==
    ASSUME RepliesInv, NEW m \in Msgs, told' = Append(told, m)
    PROVE  told' \in Seq(Msgs) /\ Told \subseteq Told' /\ m \in Told'
<1>1. told \in Seq(Msgs)  BY DEF RepliesInv, Types
<1>2. /\ told' \in Seq(Msgs) /\ Len(told') = Len(told) + 1 /\ told'[Len(told) + 1] = m
      /\ \A i \in 1 .. Len(told) : told'[i] = told[i]
  BY <1>1
<1>3. DOMAIN told = 1 .. Len(told) /\ DOMAIN told' = 1 .. Len(told) + 1 /\ Len(told) \in Nat  BY <1>1, <1>2
<1>4. QED  BY <1>2, <1>3 DEF Told, ToSet

\* The Brain's text goes out, once, and with it the quote.
LEMMA SentKeeps ==
    ASSUME RepliesInv, NEW w \in Workers, Sends(worker[w]), NEW r \in Worker, Fits(r), ~Sends(r), Reached(w),
           r.msg = worker[w].msg, r.pc = "quote" => worker[w].quote, worker' = [worker EXCEPT ![w] = r],
           UNCHANGED <<turn, debounce, quotes, order, changed>>
    PROVE  RepliesInv'
<1> DEFINE m == worker[w].msg
<1>1. m \in Msgs /\ sentAI \in [Msgs -> Nat] /\ told \in Seq(Msgs) /\ worker \in [Workers -> Worker]
  BY WorkerIs DEF Sends, RepliesInv, Types
<1>2. sentAI' = [sentAI EXCEPT ![m] = sentAI[m] + 1]
      /\ told' = (IF worker[w].quote THEN Append(told, m) ELSE told)
  BY DEF Reached, Sends
<1>3. sentAI' \in [Msgs -> Nat] /\ \A n \in Msgs : sentAI'[n] = IF n = m THEN sentAI[n] + 1 ELSE sentAI[n]
  BY <1>1, <1>2
<1>4. told' \in Seq(Msgs) /\ Told \subseteq Told' /\ (worker[w].quote => m \in Told')
  <2>1. CASE worker[w].quote
    <3>1. told' = Append(told, m)  BY <1>2, <2>1
    <3>2. QED  BY <1>1, <3>1, ToldGrows
  <2>2. CASE ~worker[w].quote  BY <1>1, <1>2, <2>2 DEF Told
  <2>3. QED  BY <2>1, <2>2
<1>5. worker' \in [Workers -> Worker] /\ \A v \in Workers : worker'[v] = IF v = w THEN r ELSE worker[v]
  BY <1>1
<1>6. Types'  BY <1>3, <1>4, <1>5 DEF RepliesInv, Types
<1>7. TurnsInv'  BY <1>3, TurnStays, TurnsStep
<1>8. QuotesInv' /\ OrdersInv'  BY <1>4, <1>5, QuotesStay
<1>9. QED  BY <1>6, <1>7, <1>8 DEF RepliesInv

\* A part of another reply: the rest of it, or its end.
LEMMA AfterKeeps ==
    ASSUME RepliesInv, NEW w \in Workers, worker[w].pc \in {"send", "mark"}, worker[w].kind # "ai", NEW p, After(w, p),
           UNCHANGED <<turn, debounce, quotes, order, changed, told, sentAI>>
    PROVE  RepliesInv'
<1> DEFINE r(pc, left) == [worker[w] EXCEPT !.left = left, !.pc = pc]
<1>1. worker[w] \in Worker /\ Fits(worker[w]) /\ worker[w].msg \in Msgs  BY WorkerIs
<1>2. ~worker[w].quote  BY <1>1 DEF Fits
<1>3. worker[w].left \ {p} \in SUBSET Parts /\ {} \in SUBSET Parts  BY <1>1 DEF Worker
<1>4. \/ worker' = [worker EXCEPT ![w] = r("send", worker[w].left \ {p})]
      \/ worker' = [worker EXCEPT ![w] = r("finish", {})]
  BY <1>2 DEF After, Step
<1>5. ASSUME NEW pc \in {"send", "finish"}, NEW left \in SUBSET Parts, worker' = [worker EXCEPT ![w] = r(pc, left)]
      PROVE  RepliesInv'
  <2>1. /\ r(pc, left) \in Worker /\ r(pc, left).pc = pc /\ r(pc, left).kind = worker[w].kind
        /\ r(pc, left).msg = worker[w].msg /\ r(pc, left).quote = worker[w].quote
    BY <1>1 DEF Worker
  <2> HIDE DEF r
  <2>2. Fits(r(pc, left)) /\ ~Sends(r(pc, left)) /\ r(pc, left).pc # "quote"  BY <1>1, <1>2, <2>1 DEF Fits, Sends
  <2>3. debounce' \in Msgs \cup {None}  BY DEF RepliesInv, Types
  <2>4. QED  BY <1>5, <2>1, <2>2, <2>3, TurnStays, QuietKeeps
<1>6. QED  BY <1>3, <1>4, <1>5

LEMMA SendKeeps ==
    ASSUME RepliesInv, NEW w \in Workers, Send(w)
    PROVE  RepliesInv'
<1>1. /\ worker[w].pc = "send" /\ worker[w] \in Worker /\ Fits(worker[w]) /\ Reached(w)
      /\ UNCHANGED <<turn, debounce, quotes, order, changed>>
  BY WorkerIs DEF Send, Replying, rows
<1>2. CASE worker[w].kind = "ai"
  <2>1. worker[w].left = {"text"} /\ Part(w) = "text"  BY <1>1, <1>2 DEF Fits, Part
  <2>2. worker[w].left \ {Part(w)} = {}  BY <2>1
  <2> DEFINE pc == IF worker[w].quote THEN "quote" ELSE "finish"
             r  == [worker[w] EXCEPT !.left = {}, !.pc = pc]
  <2>3. worker' = [worker EXCEPT ![w] = r]  BY <1>2, <2>2 DEF Send, After, Step
  <2>4. {} \in SUBSET Parts /\ worker[w].quote \in BOOLEAN /\ pc \in {"quote", "finish"}  BY <1>1 DEF Worker
  <2>5. pc = "quote" => worker[w].quote  OBVIOUS
  <2> HIDE DEF pc
  <2>6. r \in Worker /\ r.pc = pc /\ r.msg = worker[w].msg /\ r.kind = "ai" /\ r.quote = worker[w].quote
    BY <1>1, <1>2, <2>4 DEF Worker
  <2> HIDE DEF r
  <2>7. Fits(r) /\ ~Sends(r) /\ Sends(worker[w])  BY <1>1, <1>2, <2>4, <2>6 DEF Fits, Sends
  <2>8. QED  BY <1>1, <2>3, <2>5, <2>6, <2>7, SentKeeps
<1>3. CASE worker[w].kind = "once"
  <2>1. UNCHANGED <<sentAI, told>> /\ Goto(w, "mark")  BY <1>1, <1>3 DEF Send, Reached
  <2>2. ~worker[w].quote  BY <1>1, <1>3 DEF Fits
  <2>3. QED  BY <1>1, <1>3, <2>1, <2>2, TurnStays, GotoKeeps
<1>4. CASE worker[w].kind = "plain"
  <2>1. UNCHANGED <<sentAI, told>> /\ After(w, Part(w))  BY <1>1, <1>4 DEF Send, Reached
  <2>2. QED  BY <1>1, <1>4, <2>1, AfterKeeps
<1>5. QED  BY <1>1, <1>2, <1>3, <1>4 DEF Worker

LEMMA SendFailsKeeps ==
    ASSUME RepliesInv, NEW w \in Workers, SendFails(w)
    PROVE  RepliesInv'
<1>1. /\ worker[w].pc = "send" /\ worker[w] \in Worker /\ Fits(worker[w]) /\ Goto(w, "fail")
      /\ UNCHANGED <<turn, debounce, quotes, order, changed>>
  BY WorkerIs DEF SendFails, AfterError, Replying, rows
<1>2. CASE UNCHANGED <<sentAI, told>>  BY <1>1, <1>2, TurnStays, GotoKeeps
<1>3. CASE Reached(w) /\ ~Sends(worker[w])
  <2>1. UNCHANGED <<sentAI, told>>  BY <1>1, <1>3 DEF Reached, Sends
  <2>2. QED  BY <1>2, <2>1
<1>4. CASE Reached(w) /\ Sends(worker[w])
  <2> DEFINE r == [worker[w] EXCEPT !.pc = "fail"]
  <2>1. r \in Worker /\ r.pc = "fail" /\ r.msg = worker[w].msg /\ r.kind = worker[w].kind /\ r.quote = worker[w].quote
    BY <1>1, MovedIs
  <2>2. worker' = [worker EXCEPT ![w] = r]  BY <1>1 DEF Goto, Step
  <2> HIDE DEF r
  <2>3. Fits(r) /\ ~Sends(r)  BY <1>1, <2>1 DEF Fits, Sends
  <2>4. QED  BY <1>1, <1>4, <2>1, <2>2, <2>3, SentKeeps
<1>5. QED  BY <1>2, <1>3, <1>4 DEF SendFails

LEMMA MarkPartKeeps ==
    ASSUME RepliesInv, NEW w \in Workers, MarkPart(w)
    PROVE  RepliesInv'
<1>1. /\ worker[w].pc = "mark" /\ Fits(worker[w])
      /\ UNCHANGED <<turn, debounce, quotes, order, changed, told, sentAI>>
  BY WorkerIs DEF MarkPart, Replying, history
<1>2. worker[w].kind = "once"  BY <1>1 DEF Fits
<1>3. After(w, Part(w)) \/ Goto(w, "fail")  BY DEF MarkPart
<1>4. QED  BY <1>1, <1>2, <1>3, TurnStays, AfterKeeps, GotoKeeps

LEMMA FinishKeeps ==
    ASSUME RepliesInv, NEW w \in Workers, Finish(w)
    PROVE  RepliesInv'
<1>1. /\ worker[w].pc = "finish" /\ worker[w] \in Worker /\ Fits(worker[w]) /\ Msg(w) \in Msgs
      /\ UNCHANGED <<debounce, quotes, order, changed, told, sentAI>>
  BY WorkerIs DEF Finish, Replying, history
<1>2. turn' = turn \/ Settle(Msg(w), "sent")  BY DEF Finish
<1>3. turn' \in [Msgs -> Turn] /\ \A m \in Msgs : turn'[m].send = "pending" => turn[m].send = "pending"
  BY <1>1, <1>2, TurnStays, SettleIs
<1>4. Step(w, Idle) \/ Goto(w, "fail")  BY DEF Finish
<1>5. QED  BY <1>1, <1>3, <1>4, EndKeeps, GotoKeeps

LEMMA FailKeeps ==
    ASSUME RepliesInv, NEW w \in Workers, Fail(w)
    PROVE  RepliesInv'
<1>1. /\ worker[w].pc = "fail" /\ Msg(w) \in Msgs /\ Step(w, Idle)
      /\ UNCHANGED <<debounce, quotes, order, changed, told, sentAI>>
  BY WorkerIs DEF Fail, Replying, history
<1>2. turn' = turn \/ Settle(Msg(w), "failed")  BY DEF Fail
<1>3. QED  BY <1>1, <1>2, TurnStays, SettleIs, EndKeeps

-----------------------------------------------------------------------------
(* The quotes and the orders.                                              *)

\* A claimed quote stays its order's, and its end is final.
Stands ==
    \A i \in DOMAIN quotes : quotes[i].order # None =>
        /\ quotes'[i].order = quotes[i].order
        /\ quotes'[i].status = quotes[i].status \/ (quotes[i].status = "processing" /\ quotes'[i].status \in Ends)

\* The quotes keep their places and messages; no new one is claimable, and who is claimed now is processed.
Marks ==
    /\ quotes' \in Seq(Quote) /\ DOMAIN quotes' = DOMAIN quotes
    /\ \A i \in DOMAIN quotes :
          /\ quotes'[i].msg = quotes[i].msg
          /\ quotes'[i].status = "pending" => quotes[i].status = "pending"
          /\ quotes'[i].order # None => quotes'[i].order = quotes[i].order \/ quotes'[i].status = "processing"

LEMMA SameLength ==
    ASSUME RepliesInv, NEW f, f \in [DOMAIN quotes -> Quote]
    PROVE  f \in Seq(Quote) /\ DOMAIN f = DOMAIN quotes
<1>1. quotes \in Seq(Quote)  BY DEF RepliesInv, Types
<1>2. DOMAIN quotes = 1 .. Len(quotes) /\ Len(quotes) \in Nat  BY <1>1, LenProperties
<1>3. QED  BY <1>2, SeqDef

LEMMA QuoteIs ==
    ASSUME RepliesInv, NEW i \in DOMAIN quotes
    PROVE  /\ quotes[i] \in Quote /\ i \in Nat
           /\ quotes[i].status \in {"pending", "superseded", "expired"} => quotes[i].order = None
<1>1. quotes \in Seq(Quote)  BY DEF RepliesInv, Types
<1>2. DOMAIN quotes = 1 .. Len(quotes) /\ Len(quotes) \in Nat  BY <1>1, LenProperties
<1>3. quotes[i] \in Quote /\ i \in Nat  BY <1>1, <1>2, ElementOfSeq
<1>4. QED  BY <1>3 DEF RepliesInv, QuotesInv, Ends

LEMMA SameQuotes == ASSUME RepliesInv, UNCHANGED quotes PROVE Marks /\ Stands
BY DEF Marks, Stands, RepliesInv, Types

\* One order goes on, and with it, perhaps, its quote and its price.
LEMMA OrderMoves ==
    ASSUME RepliesInv, Marks, Stands, NEW o \in Orders, NEW r \in Task, OrderStep(o, r),
           changed' \in [Orders -> Seq(Msgs)], \A p \in Orders : p # o => changed'[p] = changed[p],
           r.pc \in {"change", "finish"} => r.quote \in DOMAIN quotes /\ quotes'[r.quote].order = o,
           r.pc = "change" => changed'[o] = <<>>,
           r.pc = "finish" => r.result \in Ends,
           \/ changed'[o] = changed[o]
           \/ Len(changed'[o]) <= 1 /\ ToSet(changed'[o]) \subseteq Told /\ AlreadyClaimed(o),
           UNCHANGED <<worker, turn, sentAI, told>>, debounce' \in Msgs \cup {None}
    PROVE  RepliesInv'
<1>1. Types /\ TurnsInv /\ QuotesInv /\ OrdersInv  BY DEF RepliesInv
<1>2. order' \in [Orders -> Task] /\ \A p \in Orders : order'[p] = IF p = o THEN r ELSE order[p]
  BY <1>1 DEF OrderStep, Types
<1>3. Types'  BY <1>1, <1>2 DEF Types, Marks
<1>4. TurnsInv'  BY <1>1 DEF TurnsInv
<1>5. Told' = Told  BY DEF Told
<1>6. QuotesInv'
  <2>1. \A i \in DOMAIN quotes : quotes'[i].order # None => quotes'[i].status \in {"processing"} \cup Ends
    BY <1>1 DEF Marks, Stands, QuotesInv
  <2>2. QED  BY <1>1, <1>5, <2>1 DEF Marks, QuotesInv
<1>7. ASSUME NEW p \in Orders
      PROVE  AlreadyClaimed(p) => AlreadyClaimed(p)'
  <2>1. p # None  BY RepliesAssumption DEF None
  <2>2. QED  BY <2>1 DEF AlreadyClaimed, Marks, Stands
<1>8. ASSUME NEW p \in Orders
      PROVE  /\ order'[p].pc \in {"change", "finish"} =>
                   order'[p].quote \in DOMAIN quotes' /\ quotes'[order'[p].quote].order = p
             /\ order'[p].pc = "change" => changed'[p] = <<>>
             /\ order'[p].pc = "finish" => order'[p].result \in Ends
             /\ changed'[p] # <<>> => AlreadyClaimed(p)'
             /\ Len(changed'[p]) <= 1 /\ ToSet(changed'[p]) \subseteq Told'
  <2>1. CASE p = o
    <3>1. changed'[o] # <<>> => AlreadyClaimed(o)'  BY <1>1, <1>7 DEF OrdersInv
    <3>2. Len(changed'[o]) <= 1 /\ ToSet(changed'[o]) \subseteq Told'  BY <1>1, <1>5 DEF OrdersInv
    <3>3. QED  BY <1>2, <2>1, <3>1, <3>2 DEF Marks
  <2>2. CASE p # o
    <3>1. order'[p] = order[p] /\ changed'[p] = changed[p] /\ p # None
      BY <1>2, <2>2, RepliesAssumption DEF None
    <3>2. order[p].pc \in {"change", "finish"} => quotes'[order[p].quote].order = p
      BY <1>1, <3>1 DEF OrdersInv, Stands
    <3>3. QED  BY <1>1, <1>5, <1>7, <3>1, <3>2 DEF OrdersInv, Marks
  <2>3. QED  BY <2>1, <2>2
<1>9. OrdersInv'  BY <1>8 DEF OrdersInv
<1>10. QED  BY <1>3, <1>4, <1>6, <1>9 DEF RepliesInv

\* Nothing but the marks of the quotes changes.
LEMMA MarksKeep ==
    ASSUME RepliesInv, Marks, Stands, UNCHANGED <<order, changed, worker, turn, sentAI, told, debounce>>
    PROVE  RepliesInv'
<1>1. Types /\ TurnsInv /\ QuotesInv /\ OrdersInv  BY DEF RepliesInv
<1>2. Types' /\ TurnsInv'  BY <1>1 DEF Types, TurnsInv, Marks
<1>3. Told' = Told  BY DEF Told
<1>4. QuotesInv'
  <2>1. \A i \in DOMAIN quotes : quotes'[i].order # None => quotes'[i].status \in {"processing"} \cup Ends
    BY <1>1 DEF Marks, Stands, QuotesInv
  <2>2. QED  BY <1>1, <1>3, <2>1 DEF Marks, QuotesInv
<1>5. \A o \in Orders : o # None  BY RepliesAssumption DEF None
<1>6. \A o \in Orders : AlreadyClaimed(o) => AlreadyClaimed(o)'  BY <1>5 DEF AlreadyClaimed, Marks, Stands
<1>7. OrdersInv'  BY <1>1, <1>3, <1>5, <1>6 DEF OrdersInv, Marks, Stands
<1>8. QED  BY <1>2, <1>4, <1>7 DEF RepliesInv

LEMMA NoOrderIs == NoOrder \in Task /\ NoOrder.pc = "idle"
BY RepliesAssumption DEF NoOrder, Task

\* The largest of some positions of a sequence.
LEMMA LastOne ==
    ASSUME RepliesInv, NEW valid, valid \subseteq DOMAIN quotes, valid # {}
    PROVE  \E i \in valid : \A j \in valid : j <= i
<1>1. quotes \in Seq(Quote)  BY DEF RepliesInv, Types
<1>2. DOMAIN quotes = 1 .. Len(quotes) /\ Len(quotes) \in Nat  BY <1>1, LenProperties
<1> DEFINE n == Len(quotes)
           back == {k \in Nat : \E i \in valid : k = n - i}
<1>3. \A i \in valid : i \in Nat /\ n - i \in Nat /\ n - i \in back  BY <1>2
<1>4. back \subseteq Nat /\ back # {}  BY <1>3
<1>5. PICK k \in back : \A y \in back : ~(<<y, k>> \in OpToRel(<, Nat))  BY <1>4, NatLessThanWellFounded, WFMin
<1>6. PICK i \in valid : k = n - i  OBVIOUS
<1>7. ASSUME NEW j \in valid  PROVE j <= i
  <2>1. ~(n - j < n - i)  BY <1>3, <1>5, <1>6 DEF OpToRel
  <2>2. i \in Nat /\ j \in Nat /\ n \in Nat  BY <1>2, <1>3
  <2>3. QED  BY <2>1, <2>2
<1>8. QED  BY <1>7

\* ReplacePendingQuote: the new quote is the only claimable one, and its answer is out.
LEMMA SaveQuoteKeeps ==
    ASSUME RepliesInv, NEW w \in Workers, SaveQuote(w)
    PROVE  RepliesInv' /\ Stands
<1>1. /\ worker[w].pc = "quote" /\ worker[w] \in Worker /\ Fits(worker[w]) /\ Msg(w) \in Msgs /\ Msg(w) = worker[w].msg
      /\ worker \in [Workers -> Worker]
      /\ UNCHANGED <<turn, debounce, order, changed, told, sentAI>>
  BY WorkerIs DEF SaveQuote, Replying, history
<1>2. Types /\ TurnsInv /\ QuotesInv /\ OrdersInv /\ quotes \in Seq(Quote)  BY DEF RepliesInv, Types
<1>3. DOMAIN quotes = 1 .. Len(quotes) /\ Len(quotes) \in Nat  BY <1>2, LenProperties
<1>4. CASE quotes' = quotes /\ Step(w, Idle)
  <2>1. RepliesInv'  BY <1>1, <1>4, TurnStays, EndKeeps
  <2>2. QED  BY <1>4, <2>1 DEF Stands
<1> DEFINE old == [i \in DOMAIN quotes |-> [quotes[i] EXCEPT !.status = Supersede(quotes[i].status)]]
           new == [msg |-> Msg(w), status |-> "pending", live |-> TRUE, order |-> None]
           n   == Len(quotes)
<1>5. CASE quotes' = Append(old, new) /\ Goto(w, "finish")
  <2>1. new \in Quote /\ new.msg = Msg(w) /\ new.status = "pending" /\ new.order = None  BY <1>1 DEF Quote
  <2>2. ASSUME NEW i \in DOMAIN quotes
        PROVE  /\ old[i] \in Quote /\ old[i].msg = quotes[i].msg /\ old[i].order = quotes[i].order
               /\ old[i].status # "pending" /\ (old[i].status = quotes[i].status \/ quotes[i].status = "pending")
    <3>1. quotes[i] \in Quote  BY QuoteIs
    <3>2. Supersede(quotes[i].status) \in {quotes[i].status, "superseded"} /\ Supersede(quotes[i].status) # "pending"
          /\ (Supersede(quotes[i].status) = quotes[i].status \/ quotes[i].status = "pending")
      BY DEF Supersede
    <3> DEFINE s == Supersede(quotes[i].status)
    <3>3. s \in {"pending", "superseded", "expired", "processing"} \cup Ends  BY <3>1, <3>2 DEF Quote
    <3>4. old[i] = [quotes[i] EXCEPT !.status = s]  OBVIOUS
    <3> HIDE DEF s, old
    <3>5. old[i] \in Quote /\ old[i].msg = quotes[i].msg /\ old[i].order = quotes[i].order /\ old[i].status = s
      BY <3>1, <3>3, <3>4 DEF Quote
    <3>6. QED  BY <3>2, <3>5 DEF s
  <2>3. old \in [DOMAIN quotes -> Quote]  BY <2>2
  <2>4. old \in Seq(Quote) /\ DOMAIN old = 1 .. n /\ Len(old) = n  BY <1>3, <2>3, SameLength
  <2> HIDE DEF old, new
  <2>5. /\ quotes' \in Seq(Quote) /\ DOMAIN quotes' = 1 .. n + 1 /\ quotes'[n + 1] = new
        /\ \A i \in 1 .. n : quotes'[i] = old[i]
    BY <1>3, <1>5, <2>1, <2>4
  <2>6. /\ \A i \in 1 .. n : /\ i \in DOMAIN quotes /\ i \in DOMAIN quotes' /\ i # n + 1 /\ quotes'[i] = old[i]
        /\ \A i \in DOMAIN quotes' : i \in 1 .. n \/ i = n + 1
    BY <1>3, <2>5
  <2>7. Stands
    <3> SUFFICES ASSUME NEW i \in DOMAIN quotes, quotes[i].order # None
                 PROVE  quotes'[i].order = quotes[i].order /\ quotes'[i].status = quotes[i].status
      BY DEF Stands
    <3>1. quotes[i].status # "pending"  BY <1>2 DEF QuotesInv, Ends
    <3>2. QED  BY <1>3, <2>2, <2>6, <3>1
  <2> DEFINE r == [worker[w] EXCEPT !.pc = "finish"]
  <2>8. worker' = [worker EXCEPT ![w] = r]  BY <1>5 DEF Goto, Step
  <2>9. r \in Worker /\ r.pc = "finish" /\ r.msg = worker[w].msg /\ r.kind = worker[w].kind /\ r.quote = worker[w].quote
    BY <1>1, MovedIs
  <2> HIDE DEF r
  <2>10. Fits(r) /\ ~Sends(r)  BY <1>1, <2>9 DEF Fits, Sends
  <2>11. worker' \in [Workers -> Worker] /\ \A v \in Workers : worker'[v] = IF v = w THEN r ELSE worker[v]
    BY <1>1, <2>8, <2>9
  <2>12. Types'  BY <1>1, <1>2, <2>5, <2>10, <2>11 DEF Types
  <2>13. TurnsInv'
    <3>1. sentAI' \in [Msgs -> Nat]  BY <1>1, <1>2 DEF Types
    <3>2. QED  BY <1>1, <2>8, <2>9, <2>10, <3>1, TurnStays, TurnsStep
  <2>14. Told' = Told  BY <1>1 DEF Told
  <2>15. QuotesInv'
    <3>1. \A v \in Workers : worker'[v].pc = "quote" => worker'[v].msg \in Told'
      BY <1>2, <2>9, <2>11, <2>14 DEF QuotesInv
    <3>2. Msg(w) \in Told  BY <1>1, <1>2 DEF QuotesInv
    <3>3. ASSUME NEW i \in DOMAIN quotes'
          PROVE  /\ quotes'[i].msg \in Told'
                 /\ quotes'[i].order # None => quotes'[i].status \in {"processing"} \cup Ends
                 /\ quotes'[i].status = "pending" => i = n + 1
      <4>1. CASE i = n + 1  BY <2>1, <2>5, <2>14, <3>2, <4>1
      <4>2. CASE i \in 1 .. n
        <5>1. i \in DOMAIN quotes /\ quotes'[i] = old[i]  BY <2>6, <4>2
        <5>2. quotes[i].msg \in Told /\ (quotes[i].order # None => quotes[i].status \in {"processing"} \cup Ends)
          BY <1>2, <5>1 DEF QuotesInv
        <5>3. quotes[i].order # None => quotes[i].status # "pending"  BY <5>2 DEF Ends
        <5>4. QED  BY <2>2, <2>14, <5>1, <5>2, <5>3
      <4>3. QED  BY <2>6, <4>1, <4>2
    <3>4. QED  BY <3>1, <3>3 DEF QuotesInv
  <2>16. OrdersInv'
    <3>1. \A o \in Orders : AlreadyClaimed(o) => AlreadyClaimed(o)'
      BY <2>2, <2>6, <1>3 DEF AlreadyClaimed
    <3>2. \A i \in DOMAIN quotes : i \in DOMAIN quotes' /\ quotes'[i].order = quotes[i].order
      BY <1>3, <2>2, <2>6
    <3>3. QED  BY <1>1, <1>2, <2>14, <3>1, <3>2 DEF OrdersInv
  <2>17. QED  BY <2>7, <2>12, <2>13, <2>15, <2>16 DEF RepliesInv
<1>6. QED  BY <1>4, <1>5 DEF SaveQuote

LEMMA QuoteLapsesKeeps ==
    ASSUME RepliesInv, NEW i \in DOMAIN quotes, QuoteLapses(i)
    PROVE  RepliesInv' /\ Stands
<1> DEFINE q == [quotes[i] EXCEPT !.live = FALSE]
<1>1. quotes' = [quotes EXCEPT ![i] = q]  BY DEF QuoteLapses
<1>2. quotes[i] \in Quote /\ q \in Quote /\ q.msg = quotes[i].msg /\ q.status = quotes[i].status /\ q.order = quotes[i].order
  BY QuoteIs DEF Quote
<1> HIDE DEF q
<1>3. \A j \in DOMAIN quotes : quotes[j] \in Quote /\ quotes'[j] = IF j = i THEN q ELSE quotes[j]
  BY <1>1, QuoteIs
<1>4. quotes \in Seq(Quote)  BY DEF RepliesInv, Types
<1>5. quotes' \in Seq(Quote) /\ DOMAIN quotes' = DOMAIN quotes  BY <1>1, <1>2, <1>4, ExceptSeq
<1>6. Marks /\ Stands  BY <1>2, <1>3, <1>5 DEF Marks, Stands
<1>7. QED  BY <1>6, MarksKeep DEF QuoteLapses, Pricing, replying

\* An order without a quote of its own takes the newest valid one.
LEMMA ClaimPendingQuoteKeeps ==
    ASSUME RepliesInv, NEW o \in Orders, ClaimPendingQuote(o)
    PROVE  RepliesInv' /\ Stands
<1> DEFINE valid == {i \in DOMAIN quotes : Valid(i)}
           q     == CHOOSE i \in valid : \A j \in valid : j <= i
           marked == [i \in DOMAIN quotes |->
                        CASE i = q -> [quotes[i] EXCEPT !.status = "processing", !.order = o]
                          [] quotes[i].status = "pending" /\ ~quotes[i].live -> [quotes[i] EXCEPT !.status = "expired"]
                          [] OTHER -> quotes[i]]
           r == [NoOrder EXCEPT !.pc = "change", !.quote = q]
<1>1. /\ UNCHANGED <<worker, turn, sentAI, told, changed>> /\ debounce' \in Msgs \cup {None}
      /\ changed' \in [Orders -> Seq(Msgs)] /\ OrdersInv
  BY DEF ClaimPendingQuote, Pricing, replying, RepliesInv, Types
<1>2. CASE OrderStep(o, NoOrder) /\ quotes' = quotes  BY <1>1, <1>2, SameQuotes, NoOrderIs, OrderMoves
<1>3. CASE ~AlreadyClaimed(o) /\ valid # {} /\ quotes' = marked /\ OrderStep(o, r)
  <2>1. q \in valid
    <3>1. \E i \in valid : \A j \in valid : j <= i  BY <1>3, LastOne
    <3>2. QED  BY <3>1
  <2>2. q \in DOMAIN quotes /\ quotes[q].status = "pending" /\ quotes[q].live  BY <2>1 DEF Valid
  <2>3. q \in Nat /\ quotes[q].order = None  BY <2>2, QuoteIs
  <2> HIDE DEF q
  <2>4. r \in Task /\ r.pc = "change" /\ r.quote = q  BY <2>3, NoOrderIs DEF Task
  <2>5. ASSUME NEW i \in DOMAIN quotes
        PROVE  /\ marked[i] \in Quote /\ marked[i].msg = quotes[i].msg
               /\ i = q => marked[i].order = o /\ marked[i].status = "processing"
               /\ i # q => /\ marked[i].order = quotes[i].order
                           /\ marked[i].status = quotes[i].status
                              \/ (quotes[i].status = "pending" /\ marked[i].status = "expired")
    <3>1. quotes[i] \in Quote  BY QuoteIs
    <3>2. CASE i = q
      <4>1. marked[i] = [quotes[i] EXCEPT !.status = "processing", !.order = o]  BY <2>2, <3>2
      <4>2. QED  BY <3>1, <3>2, <4>1 DEF Quote
    <3>3. CASE i # q /\ quotes[i].status = "pending" /\ ~quotes[i].live
      <4>1. marked[i] = [quotes[i] EXCEPT !.status = "expired"]  BY <3>3
      <4>2. QED  BY <3>1, <3>3, <4>1 DEF Quote
    <3>4. CASE i # q /\ ~(quotes[i].status = "pending" /\ ~quotes[i].live)
      <4>1. marked[i] = quotes[i]  BY <3>4
      <4>2. QED  BY <3>1, <3>4, <4>1
    <3>5. QED  BY <3>2, <3>3, <3>4
  <2>6. marked \in [DOMAIN quotes -> Quote]  BY <2>5
  <2>7. marked \in Seq(Quote) /\ DOMAIN marked = DOMAIN quotes  BY <2>6, SameLength
  <2> HIDE DEF marked, r
  <2>8. Marks
    <3>1. \A i \in DOMAIN quotes : marked[i].status = "pending" => quotes[i].status = "pending"  BY <2>5
    <3>2. QED  BY <1>3, <2>5, <2>7, <3>1 DEF Marks
  <2>9. Stands
    <3>1. \A i \in DOMAIN quotes : quotes[i].order # None => i # q /\ quotes[i].status # "pending"
      BY <2>3, QuoteIs
    <3>2. QED  BY <1>3, <2>5, <3>1 DEF Stands
  <2>10. changed'[o] = <<>>  BY <1>1, <1>3 DEF OrdersInv
  <2>11. quotes'[r.quote].order = o  BY <1>3, <2>2, <2>4, <2>5
  <2>12. QED  BY <1>1, <1>3, <2>2, <2>4, <2>8, <2>9, <2>10, <2>11, OrderMoves
<1>4. QED  BY <1>2, <1>3 DEF ClaimPendingQuote

\* The order at work on its quote.
LEMMA AtWork ==
    ASSUME RepliesInv, NEW o \in Orders, order[o].pc \in {"change", "finish"}
    PROVE  /\ order[o] \in Task /\ order[o].quote \in DOMAIN quotes /\ quotes[order[o].quote].order = o
           /\ quotes[order[o].quote] \in Quote /\ quotes[order[o].quote].msg \in Told /\ AlreadyClaimed(o)
           /\ order[o].pc = "change" => changed[o] = <<>>
           /\ order[o].pc = "finish" => order[o].result \in Ends
<1>1. order[o] \in Task /\ order[o].quote \in DOMAIN quotes /\ quotes[order[o].quote].order = o
  BY DEF RepliesInv, OrdersInv, Types
<1>2. QED  BY <1>1, QuoteIs DEF RepliesInv, OrdersInv, QuotesInv, AlreadyClaimed

LEMMA EndedIs ==
    ASSUME RepliesInv, NEW o \in Orders, order[o].pc = "change", NEW result \in Ends
    PROVE  /\ Ended(o, result) \in Task /\ Ended(o, result).pc = "finish"
           /\ Ended(o, result).quote = order[o].quote /\ Ended(o, result).result = result
<1>1. order[o] \in Task  BY AtWork
<1>2. result \in Ends \cup {"none"}  OBVIOUS
<1>3. QED  BY <1>1, <1>2 DEF Ended, Task

\* The platform's answer: the price is changed, once, to what the quote's answer told the buyer, or not.
LEMMA AnswerKeeps ==
    ASSUME RepliesInv, NEW o \in Orders, order[o].pc = "change", NEW result \in Ends, OrderStep(o, Ended(o, result)),
           Change(o) \/ changed' = changed, UNCHANGED <<Pricing, quotes>>
    PROVE  RepliesInv' /\ Stands
<1> DEFINE m == quotes[order[o].quote].msg
           r == Ended(o, result)
<1>1. m \in Told /\ AlreadyClaimed(o) /\ changed[o] = <<>> /\ m \in Msgs  BY AtWork DEF Quote
<1>2. r \in Task /\ r.pc = "finish" /\ r.quote \in DOMAIN quotes /\ quotes'[r.quote].order = o /\ r.result \in Ends
  BY AtWork, EndedIs
<1>3. OrderStep(o, r) /\ UNCHANGED <<worker, turn, sentAI, told, debounce>> /\ changed \in [Orders -> Seq(Msgs)]
      /\ debounce' \in Msgs \cup {None} /\ Marks /\ Stands
  BY SameQuotes DEF Pricing, replying, RepliesInv, Types
<1> HIDE DEF m, r
<1>4. CASE changed' = changed  BY <1>2, <1>3, <1>4, OrderMoves
<1>5. CASE Change(o)
  <2>1. changed' = [changed EXCEPT ![o] = Append(changed[o], m)]  BY <1>5 DEF Change, m
  <2>2. changed'[o] = <<m>> /\ \A p \in Orders : p # o => changed'[p] = changed[p]  BY <1>1, <1>3, <2>1
  <2>3. changed' \in [Orders -> Seq(Msgs)]  BY <1>1, <1>3, <2>1
  <2>4. Len(changed'[o]) <= 1 /\ ToSet(changed'[o]) \subseteq Told  BY <1>1, <2>2 DEF ToSet
  <2> QED  BY <1>1, <1>2, <1>3, <2>2, <2>3, <2>4, OrderMoves
<1>6. QED  BY <1>4, <1>5

LEMMA PlatformBusyKeeps ==
    ASSUME RepliesInv, NEW o \in Orders, PlatformBusy(o)
    PROVE  RepliesInv' /\ Stands
<1>1. order[o].pc = "change" /\ UNCHANGED <<Pricing, quotes, changed>>  BY DEF PlatformBusy
<1>2. CASE OrderStep(o, Ended(o, "failed"))  BY <1>1, <1>2, AnswerKeeps DEF Ends
<1> DEFINE r == [order[o] EXCEPT !.tries = order[o].tries + 1]
<1>3. CASE order[o].tries + 1 < MaxTries /\ OrderStep(o, r)
  <2>1. /\ UNCHANGED <<worker, turn, sentAI, told>> /\ debounce' \in Msgs \cup {None}
        /\ changed' \in [Orders -> Seq(Msgs)] /\ Marks /\ Stands
    BY <1>1, SameQuotes DEF Pricing, replying, RepliesInv, Types
  <2>2. order[o] \in Task /\ order[o].tries \in 0 .. MaxTries - 1  BY <1>1, AtWork DEF Task
  <2>3. order[o].tries + 1 \in 0 .. MaxTries - 1  BY <1>3, <2>2, RepliesAssumption
  <2>4. r \in Task /\ r.pc = "change" /\ r.quote = order[o].quote  BY <1>1, <2>2, <2>3 DEF Task
  <2> HIDE DEF r
  <2>5. r.quote \in DOMAIN quotes /\ quotes'[r.quote].order = o /\ changed'[o] = <<>>  BY <1>1, <2>4, AtWork
  <2>6. QED  BY <1>1, <1>3, <2>1, <2>4, <2>5, OrderMoves
<1>4. QED  BY <1>2, <1>3 DEF PlatformBusy

LEMMA FinishQuoteKeeps ==
    ASSUME RepliesInv, NEW o \in Orders, FinishQuote(o)
    PROVE  RepliesInv' /\ Stands
<1> DEFINE i == order[o].quote
           s == IF quotes[i].status = "processing" THEN order[o].result ELSE quotes[i].status
           q == [quotes[i] EXCEPT !.status = s]
<1>1. /\ order[o].pc = "finish" /\ OrderStep(o, NoOrder)
      /\ UNCHANGED <<worker, turn, sentAI, told, changed>> /\ debounce' \in Msgs \cup {None}
      /\ changed' \in [Orders -> Seq(Msgs)] /\ quotes \in Seq(Quote)
  BY DEF FinishQuote, Pricing, replying, RepliesInv, Types
<1>2. i \in DOMAIN quotes /\ quotes[i] \in Quote /\ order[o].result \in Ends  BY <1>1, AtWork
<1>3. quotes' = quotes \/ quotes' = [quotes EXCEPT ![i] = q]  BY <1>2 DEF FinishQuote
<1>4. s \in {"pending", "superseded", "expired", "processing"} \cup Ends  BY <1>2 DEF Quote
<1>5. s # "pending" \/ quotes[i].status = "pending"  BY <1>2 DEF Ends
<1>6. s = quotes[i].status \/ (quotes[i].status = "processing" /\ s \in Ends)  BY <1>2
<1> HIDE DEF s
<1>7. q \in Quote /\ q.msg = quotes[i].msg /\ q.order = quotes[i].order /\ q.status = s  BY <1>2, <1>4 DEF Quote
<1> HIDE DEF q, i
<1>8. CASE quotes' = [quotes EXCEPT ![i] = q]
  <2>1. quotes' \in Seq(Quote) /\ DOMAIN quotes' = DOMAIN quotes  BY <1>1, <1>2, <1>7, <1>8, ExceptSeq
  <2>2. \A j \in DOMAIN quotes : quotes'[j] = IF j = i THEN q ELSE quotes[j]  BY <1>8
  <2>3. Marks /\ Stands  BY <1>5, <1>6, <1>7, <2>1, <2>2 DEF Marks, Stands
  <2>4. QED  BY <1>1, <2>3, NoOrderIs, OrderMoves
<1>9. QED  BY <1>1, <1>3, <1>8, SameQuotes, NoOrderIs, OrderMoves

LEMMA OrderCreatedKeeps ==
    ASSUME RepliesInv, NEW o \in Orders, OrderCreated(o)
    PROVE  RepliesInv' /\ Stands
<1> DEFINE r == IF policy = "adjust" THEN [NoOrder EXCEPT !.pc = "claim"] ELSE NoOrder
<1>1. /\ OrderStep(o, r) /\ UNCHANGED <<worker, turn, sentAI, told, changed>>
      /\ debounce' \in Msgs \cup {None} /\ changed' \in [Orders -> Seq(Msgs)] /\ Marks /\ Stands
  BY SameQuotes DEF OrderCreated, replying, rows, history, RepliesInv, Types
<1>2. r \in Task /\ r.pc \notin {"change", "finish"}  BY NoOrderIs DEF Task
<1> HIDE DEF r
<1>3. QED  BY <1>1, <1>2, OrderMoves

-----------------------------------------------------------------------------
(* The dispatcher, the engine and the operator.                            *)

\* Nothing of what the invariant speaks of changes, but for the timer.
LEMMA RestKeeps ==
    ASSUME RepliesInv, debounce' \in Msgs \cup {None}, UNCHANGED <<worker, turn, sentAI, told, quotes, order, changed>>
    PROVE  RepliesInv' /\ Stands
<1>1. Marks /\ Stands  BY SameQuotes
<1>2. Types'  BY DEF RepliesInv, Types
<1>3. TurnsInv' /\ QuotesInv' /\ OrdersInv'
  BY DEF RepliesInv, TurnsInv, QuotesInv, OrdersInv, Told, AlreadyClaimed
<1>4. QED  BY <1>1, <1>2, <1>3 DEF RepliesInv

LEMMA DebounceEndsKeeps ==
    ASSUME RepliesInv, DebounceEnds
    PROVE  RepliesInv' /\ Stands
<1> DEFINE r == [Idle EXCEPT !.pc = "resolve", !.msg = debounce]
<1>1. PICK w \in Workers : worker' = [worker EXCEPT ![w] = r]  BY DEF DebounceEnds
<1>2. /\ debounce \in Msgs /\ debounce' = None
      /\ UNCHANGED <<turn, quotes, order, changed, told, sentAI>>
  BY DEF DebounceEnds, RepliesInv, Types, rows, history
<1>3. r \in Worker /\ Fits(r) /\ ~Sends(r) /\ r.pc # "quote"  BY <1>2, IdleIs DEF Worker, Fits, Sends, Idle
<1> HIDE DEF r
<1>4. QED  BY <1>1, <1>2, <1>3, TurnStays, SameQuotes, QuietKeeps

LEMMA StopKeeps ==
    ASSUME RepliesInv, Stop
    PROVE  RepliesInv' /\ Stands
<1>1. /\ worker' = [w \in Workers |-> Idle] /\ order' = [o \in Orders |-> NoOrder] /\ debounce' = None
      /\ UNCHANGED <<turn, sentAI, told, quotes, changed>>
  BY DEF Stop, rows, history
<1>2. Types /\ TurnsInv /\ QuotesInv /\ OrdersInv  BY DEF RepliesInv
<1>3. /\ \A w \in Workers : worker'[w] = Idle /\ ~Sends(worker'[w]) /\ worker'[w].pc = "idle"
      /\ \A o \in Orders : order'[o] = NoOrder /\ order'[o].pc = "idle"
  BY <1>1, IdleIs, NoOrderIs
<1>4. Types'  BY <1>1, <1>2, IdleIs, NoOrderIs DEF Types
<1>5. TurnsInv'  BY <1>1, <1>2, <1>3 DEF TurnsInv
<1>6. Told' = Told /\ \A o \in Orders : AlreadyClaimed(o)' <=> AlreadyClaimed(o)  BY <1>1 DEF Told, AlreadyClaimed
<1>7. QuotesInv'  BY <1>1, <1>2, <1>3, <1>6 DEF QuotesInv
<1>8. OrdersInv'  BY <1>1, <1>2, <1>3, <1>6 DEF OrdersInv
<1>9. Stands  BY <1>1, SameQuotes
<1>10. QED  BY <1>4, <1>5, <1>7, <1>8, <1>9 DEF RepliesInv

-----------------------------------------------------------------------------
(* Every step keeps the invariant, and leaves what is claimed alone.       *)

LEMMA RepliesStart == ASSUME Init PROVE RepliesInv
<1>1. /\ worker = [w \in Workers |-> Idle] /\ order = [o \in Orders |-> NoOrder] /\ debounce = None
      /\ turn = [m \in Msgs |-> NoTurn] /\ sentAI = [m \in Msgs |-> 0]
      /\ told = <<>> /\ quotes = <<>> /\ changed = [o \in Orders |-> <<>>]
  BY DEF Init
<1>2. NoTurn \in Turn  BY DEF NoTurn, Turn
<1>3. Types  BY <1>1, <1>2, IdleIs, NoOrderIs DEF Types
<1>4. TurnsInv  BY <1>1, IdleIs DEF TurnsInv
<1>5. QuotesInv  BY <1>1, IdleIs DEF QuotesInv
<1>6. ToSet(<<>>) = {}  BY DEF ToSet
<1>7. OrdersInv
  <2>1. \A o \in Orders : order[o].pc = "idle" /\ changed[o] = <<>>  BY <1>1, NoOrderIs
  <2>2. Len(<<>>) = 0  OBVIOUS
  <2>3. QED  BY <1>6, <2>1, <2>2 DEF OrdersInv
<1>8. QED  BY <1>3, <1>4, <1>5, <1>7 DEF RepliesInv

LEMMA WorkerStepKeeps ==
    ASSUME RepliesInv, NEW w \in Workers, WorkerStep(w) \/ SendFails(w) \/ StatementFails(w)
    PROVE  RepliesInv' /\ Stands
<1>1. CASE SaveQuote(w)  BY <1>1, SaveQuoteKeeps
<1>2. CASE CreateTurn(w)  BY <1>2, CreateTurnKeeps, SameQuotes DEF CreateTurn
<1>3. CASE NoAI(w)  BY <1>3, NoAIKeeps, SameQuotes DEF NoAI, rows
<1>4. CASE \E parts \in {{}, {"text"}} : PlainReply(w, parts)
  BY <1>4, PlainReplyKeeps, SameQuotes DEF PlainReply, rows
<1>5. CASE BrainFails(w)  BY <1>5, BrainFailsKeeps, SameQuotes DEF BrainFails
<1>6. CASE \E draft \in {"none", "text", "quote"} : BrainAnswers(w, draft)
  BY <1>6, BrainAnswersKeeps, SameQuotes DEF BrainAnswers
<1>7. CASE Poll(w) \/ PollEnds(w)  BY <1>7, PollKeeps, SameQuotes DEF Poll, PollEnds, rows
<1>8. CASE Skip(w)  BY <1>8, SkipKeeps, SameQuotes DEF Skip
<1>9. CASE ClaimTurnSend(w)  BY <1>9, ClaimTurnSendKeeps, SameQuotes DEF ClaimTurnSend
<1>10. CASE InsertRecord(w)  BY <1>10, InsertRecordKeeps, SameQuotes DEF InsertRecord
<1>11. CASE ReclaimRecord(w)  BY <1>11, ReclaimRecordKeeps, SameQuotes DEF ReclaimRecord
<1>12. CASE Send(w)  BY <1>12, SendKeeps, SameQuotes DEF Send, rows
<1>13. CASE MarkPart(w)  BY <1>13, MarkPartKeeps, SameQuotes DEF MarkPart
<1>14. CASE Finish(w)  BY <1>14, FinishKeeps, SameQuotes DEF Finish
<1>15. CASE Fail(w)  BY <1>15, FailKeeps, SameQuotes DEF Fail
<1>16. CASE SendFails(w)  BY <1>16, SendFailsKeeps, SameQuotes DEF SendFails, rows
<1>17. CASE StatementFails(w)  BY <1>17, StatementFailsKeeps, SameQuotes DEF StatementFails, rows
<1>18. QED
  BY <1>1, <1>2, <1>3, <1>4, <1>5, <1>6, <1>7, <1>8, <1>9, <1>10, <1>11, <1>12, <1>13, <1>14, <1>15, <1>16, <1>17
  DEF WorkerStep

LEMMA OrderStepOfKeeps ==
    ASSUME RepliesInv, NEW o \in Orders, OrderCreated(o) \/ OrderStepOf(o)
    PROVE  RepliesInv' /\ Stands
<1>1. CASE OrderCreated(o)  BY <1>1, OrderCreatedKeeps
<1>2. CASE ClaimPendingQuote(o)  BY <1>2, ClaimPendingQuoteKeeps
<1>3. CASE PriceChanged(o)  BY <1>3, AnswerKeeps DEF PriceChanged, Ends
<1>4. CASE ChangeUnknown(o)  BY <1>4, AnswerKeeps DEF ChangeUnknown, Ends
<1>5. CASE PlatformBusy(o)  BY <1>5, PlatformBusyKeeps
<1>6. CASE ChangeRefused(o)  BY <1>6, AnswerKeeps DEF ChangeRefused, Ends
<1>7. CASE FinishQuote(o)  BY <1>7, FinishQuoteKeeps
<1>8. QED  BY <1>1, <1>2, <1>3, <1>4, <1>5, <1>6, <1>7 DEF OrderStepOf

LEMMA RepliesStep == ASSUME RepliesInv, [Next]_vars PROVE RepliesInv' /\ Stands
<1>1. debounce \in Msgs \cup {None} /\ None \in Msgs \cup {None}  BY DEF RepliesInv, Types
<1>2. CASE \E m \in Msgs : Dispatch(m)  BY <1>1, <1>2, RestKeeps DEF Dispatch, rows, history
<1>3. CASE DebounceEnds  BY <1>3, DebounceEndsKeeps
<1>4. CASE Stop  BY <1>4, StopKeeps
<1>5. CASE Start  BY <1>1, <1>5, RestKeeps DEF Start, replying, rows, history
<1>6. CASE \E w \in Workers : WorkerStep(w) \/ SendFails(w) \/ StatementFails(w)  BY <1>6, WorkerStepKeeps
<1>7. CASE LeaseLapses  BY <1>1, <1>7, RestKeeps DEF LeaseLapses, Replying, history
<1>8. CASE ClearRecords  BY <1>1, <1>8, RestKeeps DEF ClearRecords, replying, history
<1>9. CASE \E o \in Orders : OrderCreated(o) \/ OrderStepOf(o)  BY <1>9, OrderStepOfKeeps
<1>10. CASE \E i \in DOMAIN quotes : QuoteLapses(i)  BY <1>10, QuoteLapsesKeeps
<1>11. CASE \E p \in {"off", "talk", "adjust"} : SetPolicy(p)
  BY <1>1, <1>11, RestKeeps DEF SetPolicy, replying, rows, history
<1>12. CASE UNCHANGED vars  BY <1>1, <1>12, RestKeeps DEF vars, replying, rows, history
<1>13. QED  BY <1>2, <1>3, <1>4, <1>5, <1>6, <1>7, <1>8, <1>9, <1>10, <1>11, <1>12 DEF Next

-----------------------------------------------------------------------------
\* The right to send a turn is given once, and an order works on the one quote it claimed and has
\* not changed the price before it ends it (ClaimTurnSend, ClaimPendingQuote).
THEOREM RepliesHold == Spec => []RepliesInv
<1>1. Init => RepliesInv  BY RepliesStart
<1>2. RepliesInv /\ [Next]_vars => RepliesInv'  BY RepliesStep
<1>3. QED  BY <1>1, <1>2, PTL DEF Spec

\* A message that is pushed again, after a reconnect, a restart or next to its first handling, is
\* answered by the Brain once (CreateTurn, ClaimTurnSend).
THEOREM BrainAtMostOnceHolds == Spec => []BrainAtMostOnce
<1>1. RepliesInv => BrainAtMostOnce  BY DEF RepliesInv, TurnsInv, BrainAtMostOnce
<1>2. QED  BY <1>1, RepliesHold, PTL

\* The price of an order is changed at most once, and to a price that an answer named to the buyer
\* (ClaimPendingQuote, adjustOrderPriceWithRetry).
THEOREM ChangedAtMostOnceHolds == Spec => []ChangedAtMostOnce
<1>1. RepliesInv => ChangedAtMostOnce  BY DEF RepliesInv, OrdersInv, ChangedAtMostOnce, Told
<1>2. QED  BY <1>1, RepliesHold, PTL

\* What an order claimed stays that order's, new answers leave it alone, and its end is final
\* (ReplacePendingQuote, ClaimPendingQuote, FinishQuote).
THEOREM ClaimedQuoteEndsHolds == Spec => ClaimedQuoteEnds
<1>1. RepliesInv /\ [Next]_vars => [Stands]_vars  BY RepliesStep
<1>2. [Stands]_vars => [\A i \in DOMAIN quotes : quotes[i].order # None =>
          /\ quotes'[i].order = quotes[i].order
          /\ quotes'[i].status = quotes[i].status \/ (quotes[i].status = "processing" /\ quotes'[i].status \in Ends)]_vars
  BY DEF Stands
<1>3. QED  BY <1>1, <1>2, RepliesHold, PTL DEF Spec, ClaimedQuoteEnds

\* However the answers of a conversation overlap, they leave one claimable quote (ReplacePendingQuote).
THEOREM OnePendingQuoteHolds == Spec => []OnePendingQuote
<1>1. ASSUME RepliesInv  PROVE OnePendingQuote
  <2> DEFINE P == {i \in DOMAIN quotes : quotes[i].status = "pending"}
  <2>1. \A i, j \in P : i = j  BY <1>1 DEF RepliesInv, QuotesInv
  <2> HIDE DEF P
  <2>2. CASE P = {}  BY <2>2, FS_EmptySet DEF OnePendingQuote, P
  <2>3. CASE P # {}
    <3>1. PICK i \in P : TRUE  BY <2>3
    <3>2. P = {i}  BY <2>1, <3>1
    <3>3. Cardinality(P) = 1  BY <3>2, FS_Singleton
    <3>4. QED  BY <3>3 DEF OnePendingQuote, P
  <2>4. QED  BY <2>2, <2>3
<1>2. QED  BY <1>1, RepliesHold, PTL
-----------------------------------------------------------------------------
(* The default reply, once per conversation.  A part goes out again only   *)
(* for a disturbance: besides what was sent, every call that still owes    *)
(* the part, every call about to report a failure, and a record that may   *)
(* be claimed are paid for by one disturbance each, but for the first.     *)

\* A call that works under a claim of the record.
Holding(r)  == r.kind = "once" /\ r.pc \in {"send", "mark", "finish", "fail"}
FirstOf(r)  == IF "image" \in r.left THEN "image" ELSE "text"
Owes(r, p)  == /\ r.kind = "once"
               /\ \/ r.pc = "send" /\ p \in r.left
                  \/ r.pc = "mark" /\ p \in r.left \ {FirstOf(r)}
                  \/ r.pc = "fail"
Owing(p)    == {w \in Workers : Owes(worker[w], p)}
Laden(r)    == /\ r.kind = "once" /\ r.pc \in {"send", "mark"} => r.left # {}
               /\ r.pc \in {"claim", "quote"} => r.kind # "once"

\* The next call may claim the record, now or once its lease has lapsed.
Open == \/ record.status \in {"absent", "failed"}
        \/ record.status = "pending" /\ (~record.live \/ \A w \in Workers : ~Holding(worker[w]))

One(b) == IF b THEN 1 ELSE 0

RecordIs == /\ record \in [status : {"absent", "pending", "failed", "sent"}, sent : SUBSET Parts, live : BOOLEAN]
            /\ record.status = "absent" => record = NoRecord

PartsInv ==
    /\ RecordIs /\ upsets \in Nat /\ sentDefault \in [Parts -> Nat]
    /\ \A w \in Workers : Laden(worker[w])
    /\ \A p \in Parts : /\ IsFiniteSet(Owing(p))
                        /\ sentDefault[p] + Cardinality(Owing(p)) + One(Open) <= 1 + upsets

LEMMA OwingMoves ==
    ASSUME worker \in [Workers -> Worker], NEW w \in Workers, NEW r, worker' = [worker EXCEPT ![w] = r], NEW p,
           IsFiniteSet(Owing(p))
    PROVE  /\ IsFiniteSet(Owing(p)') /\ Cardinality(Owing(p)') \in Nat /\ Cardinality(Owing(p)) \in Nat
           /\ Cardinality(Owing(p)') + One(Owes(worker[w], p)) = Cardinality(Owing(p)) + One(Owes(r, p))
<1>1. \A v \in Workers : worker'[v] = IF v = w THEN r ELSE worker[v]  OBVIOUS
<1>2. Cardinality(Owing(p)) \in Nat  BY FS_CardinalityType
<1>3. w \in Owing(p) <=> Owes(worker[w], p)  BY DEF Owing
<1>4. CASE Owes(worker[w], p) /\ Owes(r, p)
  <2>1. Owing(p)' = Owing(p)  BY <1>1, <1>4 DEF Owing
  <2>2. QED  BY <1>2, <1>4, <2>1 DEF One
<1>5. CASE ~Owes(worker[w], p) /\ ~Owes(r, p)
  <2>1. Owing(p)' = Owing(p)  BY <1>1, <1>5 DEF Owing
  <2>2. QED  BY <1>2, <1>5, <2>1 DEF One
<1>6. CASE Owes(worker[w], p) /\ ~Owes(r, p)
  <2>1. Owing(p)' = Owing(p) \ {w}  BY <1>1, <1>6 DEF Owing
  <2>2. IsFiniteSet(Owing(p) \ {w}) /\ Cardinality(Owing(p) \ {w}) = Cardinality(Owing(p)) - 1
    BY <1>3, <1>6, FS_RemoveElement
  <2>3. Cardinality(Owing(p) \ {w}) \in Nat  BY <2>2, FS_CardinalityType
  <2>4. QED  BY <1>2, <1>6, <2>1, <2>2, <2>3 DEF One
<1>7. CASE ~Owes(worker[w], p) /\ Owes(r, p)
  <2>1. Owing(p)' = Owing(p) \cup {w}  BY <1>1, <1>7 DEF Owing
  <2>2. IsFiniteSet(Owing(p) \cup {w}) /\ Cardinality(Owing(p) \cup {w}) = Cardinality(Owing(p)) + 1
    BY <1>3, <1>7, FS_AddElement
  <2>3. QED  BY <1>2, <1>7, <2>1, <2>2 DEF One
<1>8. QED  BY <1>4, <1>5, <1>6, <1>7

\* The step of one call, part by part.
LEMMA CallKeeps ==
    ASSUME RepliesInv, PartsInv, NEW w \in Workers, NEW r \in Worker, worker' = [worker EXCEPT ![w] = r], Laden(r),
           RecordIs', upsets' \in Nat, sentDefault' \in [Parts -> Nat],
           \A p \in Parts : sentDefault'[p] + One(Owes(r, p)) + One(Open') + upsets
                            <= sentDefault[p] + One(Owes(worker[w], p)) + One(Open) + upsets'
    PROVE  PartsInv'
<1>1. worker \in [Workers -> Worker]  BY DEF RepliesInv, Types
<1>2. \A v \in Workers : Laden(worker[v])'  BY <1>1 DEF PartsInv, Laden
<1>3. ASSUME NEW p \in Parts
      PROVE  IsFiniteSet(Owing(p)') /\ sentDefault'[p] + Cardinality(Owing(p)') + One(Open') <= 1 + upsets'
  <2>1. IsFiniteSet(Owing(p)) /\ sentDefault[p] + Cardinality(Owing(p)) + One(Open) <= 1 + upsets
    BY DEF PartsInv
  <2>2. /\ IsFiniteSet(Owing(p)') /\ Cardinality(Owing(p)') \in Nat /\ Cardinality(Owing(p)) \in Nat
        /\ Cardinality(Owing(p)') + One(Owes(worker[w], p)) = Cardinality(Owing(p)) + One(Owes(r, p))
    BY <1>1, <2>1, OwingMoves
  <2>3. sentDefault[p] \in Nat /\ sentDefault'[p] \in Nat /\ upsets \in Nat  BY DEF PartsInv
  <2>4. {One(Owes(worker[w], p)), One(Owes(r, p)), One(Open), One(Open')} \subseteq Nat  BY DEF One
  <2>5. QED  BY <2>1, <2>2, <2>3, <2>4
<1>4. QED  BY <1>2, <1>3 DEF PartsInv

LEMMA OpenStays ==
    ASSUME RepliesInv, NEW w \in Workers, NEW r, worker' = [worker EXCEPT ![w] = r], Holding(r) <=> Holding(worker[w]),
           record'.status = record.status, record'.live = record.live
    PROVE  Open' <=> Open
<1>1. worker \in [Workers -> Worker]  BY DEF RepliesInv, Types
<1>2. \A v \in Workers : worker'[v] = IF v = w THEN r ELSE worker[v]  BY <1>1
<1>3. (\A v \in Workers : ~Holding(worker'[v])) <=> (\A v \in Workers : ~Holding(worker[v]))  BY <1>2
<1>4. QED  BY <1>3 DEF Open, Holding

\* A call that holds no claim and takes none.
LEMMA AsideKeeps ==
    ASSUME RepliesInv, PartsInv, NEW w \in Workers, ~Holding(worker[w]), NEW r \in Worker,
           worker' = [worker EXCEPT ![w] = r], r.kind # "once" \/ r.pc \in {"idle", "reclaim"},
           UNCHANGED <<record, sentDefault>>, upsets' \in {upsets, upsets + 1}
    PROVE  PartsInv'
<1>1. ~Holding(r) /\ Laden(r)  BY DEF Holding, Laden
<1>2. Open' <=> Open  BY <1>1, OpenStays
<1>3. \A p \in Parts : ~Owes(r, p) /\ ~Owes(worker[w], p)  BY <1>1 DEF Owes, Holding
<1>4. RecordIs'  BY DEF PartsInv, RecordIs
<1>5. upsets \in Nat /\ upsets' \in Nat /\ upsets <= upsets' /\ sentDefault \in [Parts -> Nat]  BY DEF PartsInv
<1>6. \A p \in Parts : sentDefault[p] \in Nat  BY <1>5
<1>7. One(Open) \in Nat /\ One(Open') = One(Open)  BY <1>2 DEF One
<1>8. \A p \in Parts : One(Owes(r, p)) = 0 /\ One(Owes(worker[w], p)) = 0  BY <1>3 DEF One
<1>9. \A p \in Parts : sentDefault'[p] + One(Owes(r, p)) + One(Open') + upsets
                       <= sentDefault[p] + One(Owes(worker[w], p)) + One(Open) + upsets'
  BY <1>5, <1>6, <1>7, <1>8
<1>10. QED  BY <1>1, <1>4, <1>5, <1>9, CallKeeps

LEMMA ToDefaultAside ==
    ASSUME NEW w \in Workers, worker[w] \in Worker, ToDefault(w)
    PROVE  \E r \in Worker : worker' = [worker EXCEPT ![w] = r] /\ r.kind # "once"
<1> DEFINE r == [worker[w] EXCEPT !.pc = "default", !.kind = "plain", !.adjust = FALSE]
<1>1. r \in Worker /\ r.kind = "plain"  BY DEF Worker
<1>2. worker' = [worker EXCEPT ![w] = r]  BY DEF ToDefault, Step
<1> HIDE DEF r
<1>3. QED  BY <1>1, <1>2

LEMMA GotoAside ==
    ASSUME NEW w \in Workers, worker[w] \in Worker, worker[w].kind # "once",
           NEW pc \in {"idle", "skip", "claim", "default", "send", "mark", "quote", "finish", "fail"}, Goto(w, pc)
    PROVE  \E r \in Worker : worker' = [worker EXCEPT ![w] = r] /\ r.kind # "once"
<1> DEFINE r == [worker[w] EXCEPT !.pc = pc]
<1>1. r \in Worker /\ r.kind = worker[w].kind  BY DEF Worker
<1>2. worker' = [worker EXCEPT ![w] = r]  BY DEF Goto, Step
<1> HIDE DEF r
<1>3. QED  BY <1>1, <1>2

LEMMA ResultAside ==
    ASSUME NEW w \in Workers, worker[w] \in Worker, worker[w].kind # "once", NEW draft, Result(w, draft)
    PROVE  \E r \in Worker : worker' = [worker EXCEPT ![w] = r] /\ r.kind # "once"
<1> DEFINE r == [worker[w] EXCEPT !.pc = IF draft = "none" THEN "skip" ELSE "claim", !.quote = KeepsQuote(w, draft)]
<1>1. KeepsQuote(w, draft) \in BOOLEAN  BY DEF KeepsQuote, Worker
<1>2. r \in Worker /\ r.kind = worker[w].kind  BY <1>1 DEF Worker
<1>3. worker' = [worker EXCEPT ![w] = r]  BY DEF Result, Step
<1> HIDE DEF r
<1>4. QED  BY <1>2, <1>3

\* Everything before the record is claimed, and the answers that need no claim of it.
LEMMA BeforeClaim ==
    ASSUME RepliesInv, PartsInv, NEW w \in Workers,
           \/ CreateTurn(w) \/ NoAI(w) \/ (\E parts \in {{}, {"text"}} : PlainReply(w, parts))
           \/ BrainFails(w) \/ (\E draft \in {"none", "text", "quote"} : BrainAnswers(w, draft))
           \/ Poll(w) \/ PollEnds(w) \/ Skip(w) \/ ClaimTurnSend(w) \/ SaveQuote(w) \/ StatementFails(w)
    PROVE  PartsInv'
<1>1. worker[w] \in Worker /\ Fits(worker[w]) /\ Laden(worker[w])  BY DEF RepliesInv, Types, PartsInv
<1>2. UNCHANGED <<record, sentDefault>>
  BY DEF CreateTurn, NoAI, PlainReply, BrainFails, BrainAnswers, Poll, PollEnds, Skip, ClaimTurnSend, SaveQuote,
         StatementFails, rows, history
<1>3. upsets' \in {upsets, upsets + 1}
  BY DEF CreateTurn, NoAI, PlainReply, BrainFails, BrainAnswers, Poll, PollEnds, Skip, ClaimTurnSend, SaveQuote,
         StatementFails, Upset
<1>4. ~Holding(worker[w])
  BY <1>1 DEF CreateTurn, NoAI, PlainReply, BrainFails, BrainAnswers, Poll, PollEnds, Skip, ClaimTurnSend, SaveQuote,
              StatementFails, Holding
<1>5. Idle \in Worker /\ Idle.pc = "idle"  BY IdleIs
<1>6. \E r \in Worker : worker' = [worker EXCEPT ![w] = r] /\ (r.kind # "once" \/ r.pc \in {"idle", "reclaim"})
  <2>1. CASE \E parts \in {{}, {"text"}} : PlainReply(w, parts)
    <3>1. PICK parts \in {{}, {"text"}} : PlainReply(w, parts)  BY <2>1
    <3>2. worker[w].kind # "once"  BY <1>1, <3>1 DEF PlainReply, Fits
    <3>3. CASE Goto(w, "idle")  BY <1>1, <3>2, <3>3, GotoAside
    <3>4. CASE Step(w, [worker[w] EXCEPT !.pc = "send", !.left = parts])
      <4> DEFINE r == [worker[w] EXCEPT !.pc = "send", !.left = parts]
      <4>1. parts \in SUBSET Parts  BY DEF Parts
      <4>2. r \in Worker /\ r.kind = worker[w].kind  BY <1>1, <4>1 DEF Worker
      <4>3. worker' = [worker EXCEPT ![w] = r]  BY <3>4 DEF Step
      <4> HIDE DEF r
      <4>4. QED  BY <3>2, <4>2, <4>3
    <3>5. QED  BY <3>1, <3>3, <3>4 DEF PlainReply
  <2>2. CASE CreateTurn(w)
    <3>1. PICK pc \in {"brain", "poll"} :
              Step(w, [[worker[w] EXCEPT !.kind = "ai", !.adjust = policy = "adjust"] EXCEPT !.pc = pc])
      BY <2>2 DEF CreateTurn
    <3> DEFINE r == [[worker[w] EXCEPT !.kind = "ai", !.adjust = policy = "adjust"] EXCEPT !.pc = pc]
    <3>2. (policy = "adjust") \in BOOLEAN  OBVIOUS
    <3>3. r \in Worker /\ r.kind = "ai"  BY <1>1, <3>2 DEF Worker
    <3>4. worker' = [worker EXCEPT ![w] = r]  BY <3>1 DEF Step
    <3> HIDE DEF r
    <3>5. QED  BY <3>3, <3>4
  <2>3. CASE NoAI(w)
    <3>1. worker[w].kind # "once" /\ Goto(w, "default")  BY <1>1, <2>3 DEF NoAI, Fits
    <3>2. QED  BY <1>1, <3>1, GotoAside
  <2>4. CASE BrainFails(w) \/ \E draft \in {"none", "text", "quote"} : BrainAnswers(w, draft)
    <3>1. worker[w].kind # "once"  BY <1>1, <2>4 DEF BrainFails, BrainAnswers, Fits
    <3>2. ToDefault(w) \/ \E draft : Result(w, draft)  BY <2>4 DEF BrainFails, BrainAnswers
    <3>3. QED  BY <1>1, <3>1, <3>2, ToDefaultAside, ResultAside
  <2>5. CASE Poll(w) \/ PollEnds(w)
    <3>1. worker[w].kind # "once"  BY <1>1, <2>5 DEF Poll, PollEnds, Fits
    <3>2. Goto(w, "skip") \/ \E draft : Result(w, draft)  BY <2>5 DEF Poll, PollEnds
    <3>3. QED  BY <1>1, <3>1, <3>2, GotoAside, ResultAside
  <2>6. CASE Skip(w)  BY <1>5, <2>6 DEF Skip, Step
  <2>7. CASE ClaimTurnSend(w)
    <3>1. worker[w].kind # "once"  BY <1>1, <2>7 DEF ClaimTurnSend, Laden
    <3> DEFINE r == [worker[w] EXCEPT !.pc = "send", !.left = {"text"}]
    <3>2. {"text"} \in SUBSET Parts  BY DEF Parts
    <3>3. r \in Worker /\ r.kind = worker[w].kind  BY <1>1, <3>2 DEF Worker
    <3>4. Step(w, r) \/ Step(w, Idle)  BY <2>7 DEF ClaimTurnSend
    <3> HIDE DEF r
    <3>5. QED  BY <1>5, <3>1, <3>3, <3>4 DEF Step
  <2>8. CASE SaveQuote(w)
    <3>1. worker[w].kind # "once" /\ (Goto(w, "finish") \/ Step(w, Idle))  BY <1>1, <2>8 DEF SaveQuote, Laden
    <3>2. QED  BY <1>1, <1>5, <3>1, GotoAside DEF Step
  <2>9. CASE StatementFails(w)
    <3>1. ToDefault(w) \/ Step(w, Idle)  BY <2>9 DEF StatementFails
    <3>2. QED  BY <1>1, <1>5, <3>1, ToDefaultAside DEF Step
  <2>10. QED  BY <2>1, <2>2, <2>3, <2>4, <2>5, <2>6, <2>7, <2>8, <2>9
<1>7. QED  BY <1>2, <1>3, <1>4, <1>6, AsideKeeps

\* The parts that a call leaves for its next step.
LEMMA AfterIs ==
    ASSUME NEW w \in Workers, worker[w] \in Worker, NEW p, After(w, p)
    PROVE  \E r \in Worker :
              /\ worker' = [worker EXCEPT ![w] = r] /\ r.kind = worker[w].kind /\ r.left = worker[w].left \ {p}
              /\ r.pc = IF r.left # {} THEN "send" ELSE IF worker[w].quote THEN "quote" ELSE "finish"
<1> DEFINE left == worker[w].left \ {p}
           pc   == IF left # {} THEN "send" ELSE IF worker[w].quote THEN "quote" ELSE "finish"
           r    == [worker[w] EXCEPT !.left = left, !.pc = pc]
<1>1. left \in SUBSET Parts /\ pc \in {"send", "quote", "finish"}  BY DEF Worker
<1>2. worker' = [worker EXCEPT ![w] = r]  BY DEF After, Step
<1>3. r \in Worker /\ r.kind = worker[w].kind /\ r.left = left /\ r.pc = pc
  <2> HIDE DEF left, pc
  <2>1. QED  BY <1>1 DEF Worker
<1> HIDE DEF r
<1>4. QED  BY <1>2, <1>3

\* The claim: whoever takes the record owes the parts, and nobody else may take it.
LEMMA InsertKeepsParts ==
    ASSUME RepliesInv, PartsInv, NEW w \in Workers, InsertRecord(w)
    PROVE  PartsInv'
<1>1. /\ worker[w].pc = "default" /\ worker[w] \in Worker /\ worker \in [Workers -> Worker]
      /\ UNCHANGED <<upsets, sentDefault>>
  BY WorkerIs DEF InsertRecord, Replying, history
<1>2. ~Holding(worker[w]) /\ \A p \in Parts : ~Owes(worker[w], p)  BY <1>1 DEF Holding, Owes
<1> DEFINE r(pc) == [worker[w] EXCEPT !.kind = "once", !.left = Parts \ record.sent, !.pc = pc]
<1>3. \A pc \in {"send", "reclaim"} :
          r(pc) \in Worker /\ r(pc).pc = pc /\ r(pc).kind = "once" /\ r(pc).left = Parts \ record.sent
  <2>1. Parts \ record.sent \in SUBSET Parts  OBVIOUS
  <2>2. QED  BY <1>1, <2>1 DEF Worker
<1>4. CASE record.status = "absent"
  <2>1. /\ record' = [status |-> "pending", sent |-> {}, live |-> TRUE]
        /\ worker' = [worker EXCEPT ![w] = r("send")]
    BY <1>4 DEF InsertRecord, Step
  <2>2. record.sent = {}  BY <1>4 DEF PartsInv, RecordIs, NoRecord
  <2> HIDE DEF r
  <2>3. r("send") \in Worker /\ r("send").pc = "send" /\ r("send").kind = "once" /\ r("send").left = Parts
    BY <1>3, <2>2
  <2>4. Holding(r("send")) /\ Laden(r("send"))  BY <2>3 DEF Holding, Laden, Parts
  <2>5. worker'[w] = r("send")  BY <1>1, <2>1
  <2>6. Open /\ ~Open'  BY <1>4, <2>1, <2>4, <2>5 DEF Open, Holding
  <2>7. RecordIs'  BY <2>1 DEF RecordIs
  <2>8. upsets' = upsets /\ sentDefault' = sentDefault /\ upsets \in Nat /\ sentDefault \in [Parts -> Nat]
    BY <1>1 DEF PartsInv
  <2>9. One(Open) = 1 /\ One(Open') = 0 /\ \A p \in Parts : One(Owes(worker[w], p)) = 0 /\ One(Owes(r("send"), p)) \in {0, 1}
    BY <1>2, <2>6 DEF One
  <2>10. \A p \in Parts : sentDefault[p] \in Nat  BY <2>8
  <2>11. \A p \in Parts : sentDefault'[p] + One(Owes(r("send"), p)) + One(Open') + upsets
                         <= sentDefault[p] + One(Owes(worker[w], p)) + One(Open) + upsets'
    BY <2>8, <2>9, <2>10
  <2>12. upsets' \in Nat /\ sentDefault' \in [Parts -> Nat]  BY <2>8
  <2>13. QED  BY <2>1, <2>3, <2>4, <2>7, <2>11, <2>12, CallKeeps
<1>5. CASE record.status # "absent"
  <2>1. record' = record /\ \E q \in {Idle, r("reclaim")} : worker' = [worker EXCEPT ![w] = q]
    BY <1>5 DEF InsertRecord, Step
  <2>2. PICK q \in Worker : worker' = [worker EXCEPT ![w] = q] /\ q.pc \in {"idle", "reclaim"}  BY <1>3, <2>1, IdleIs
  <2>3. QED  BY <1>1, <1>2, <2>1, <2>2, AsideKeeps
<1>6. QED  BY <1>4, <1>5

LEMMA ReclaimKeepsParts ==
    ASSUME RepliesInv, PartsInv, NEW w \in Workers, ReclaimRecord(w)
    PROVE  PartsInv'
<1>1. /\ worker[w].pc = "reclaim" /\ worker[w] \in Worker /\ worker \in [Workers -> Worker] /\ worker[w].kind = "once"
      /\ UNCHANGED <<upsets, sentDefault>>
  BY WorkerIs DEF ReclaimRecord, Replying, history, Fits
<1>2. ~Holding(worker[w]) /\ \A p \in Parts : ~Owes(worker[w], p)  BY <1>1 DEF Holding, Owes
<1>3. CASE Reclaimable
  <2> DEFINE pc == IF worker[w].left = {} THEN "finish" ELSE "send"
             r  == [worker[w] EXCEPT !.pc = pc]
  <2>1. record' = [record EXCEPT !.status = "pending", !.live = TRUE] /\ worker' = [worker EXCEPT ![w] = r]
    BY <1>3 DEF ReclaimRecord, Goto, Step
  <2>2. r \in Worker /\ r.kind = "once" /\ r.left = worker[w].left /\ r.pc = pc  BY <1>1 DEF Worker
  <2> HIDE DEF r
  <2>3. Holding(r) /\ Laden(r)  BY <2>2 DEF Holding, Laden
  <2>4. worker'[w] = r  BY <1>1, <2>1
  <2>5. RecordIs  BY DEF PartsInv
  <2>6. RecordIs' /\ record'.status = "pending" /\ record'.live  BY <2>1, <2>5 DEF RecordIs
  <2>7. Open /\ ~Open'  BY <1>3, <2>3, <2>4, <2>6 DEF Open, Reclaimable, Holding
  <2>8. upsets' = upsets /\ sentDefault' = sentDefault /\ upsets \in Nat /\ sentDefault \in [Parts -> Nat]
    BY <1>1 DEF PartsInv
  <2>9. One(Open) = 1 /\ One(Open') = 0 /\ \A p \in Parts : One(Owes(worker[w], p)) = 0 /\ One(Owes(r, p)) \in {0, 1}
    BY <1>2, <2>7 DEF One
  <2>10. \A p \in Parts : sentDefault[p] \in Nat  BY <2>8
  <2>11. \A p \in Parts : sentDefault'[p] + One(Owes(r, p)) + One(Open') + upsets
                         <= sentDefault[p] + One(Owes(worker[w], p)) + One(Open) + upsets'
    BY <2>8, <2>9, <2>10
  <2>12. upsets' \in Nat /\ sentDefault' \in [Parts -> Nat]  BY <2>8
  <2>13. QED  BY <2>1, <2>2, <2>3, <2>6, <2>11, <2>12, CallKeeps
<1>4. CASE ~Reclaimable
  <2>1. record' = record /\ worker' = [worker EXCEPT ![w] = Idle]  BY <1>4 DEF ReclaimRecord, Step
  <2>2. QED  BY <1>1, <1>2, <2>1, IdleIs, AsideKeeps
<1>5. QED  BY <1>3, <1>4

\* A call that keeps its claim, or reports a failure for one disturbance.
LEMMA HolderKeeps ==
    ASSUME RepliesInv, PartsInv, NEW w \in Workers, Holding(worker[w]), NEW r \in Worker, Holding(r), Laden(r),
           worker' = [worker EXCEPT ![w] = r], RecordIs', record'.status = record.status, record'.live = record.live,
           upsets' \in {upsets, upsets + 1}, sentDefault' \in [Parts -> Nat],
           \A p \in Parts : sentDefault'[p] + One(Owes(r, p)) + upsets
                            <= sentDefault[p] + One(Owes(worker[w], p)) + upsets'
    PROVE  PartsInv'
<1>1. Open' <=> Open  BY OpenStays
<1>2. One(Open') = One(Open) /\ One(Open) \in Nat  BY <1>1 DEF One
<1>3. upsets \in Nat /\ upsets' \in Nat /\ sentDefault \in [Parts -> Nat]  BY DEF PartsInv
<1>4. \A p \in Parts : /\ {sentDefault[p], sentDefault'[p]} \subseteq Nat
                       /\ {One(Owes(r, p)), One(Owes(worker[w], p))} \subseteq Nat
  BY <1>3 DEF One
<1>5. \A p \in Parts : sentDefault'[p] + One(Owes(r, p)) + One(Open') + upsets
                       <= sentDefault[p] + One(Owes(worker[w], p)) + One(Open) + upsets'
  BY <1>2, <1>3, <1>4
<1>6. QED  BY <1>3, <1>5, CallKeeps

\* The part that goes out is one the call owed.
LEMMA PartIs ==
    ASSUME NEW w \in Workers, worker[w] \in Worker, worker[w].kind = "once", worker[w].left # {},
           sentDefault \in [Parts -> Nat], Reached(w)
    PROVE  /\ Part(w) = FirstOf(worker[w]) /\ Part(w) \in worker[w].left /\ Part(w) \in Parts
           /\ sentDefault' \in [Parts -> Nat]
           /\ \A p \in Parts : sentDefault'[p] = IF p = Part(w) THEN sentDefault[p] + 1 ELSE sentDefault[p]
<1>1. worker[w].left \subseteq Parts  BY DEF Worker
<1>2. Part(w) = FirstOf(worker[w]) /\ Part(w) \in worker[w].left /\ Part(w) \in Parts
  BY <1>1 DEF Part, FirstOf, Parts
<1>3. sentDefault' = [sentDefault EXCEPT ![Part(w)] = sentDefault[Part(w)] + 1]  BY DEF Reached
<1> HIDE DEF Part
<1>4. QED  BY <1>2, <1>3

LEMMA SendKeepsParts ==
    ASSUME RepliesInv, PartsInv, NEW w \in Workers, Send(w)
    PROVE  PartsInv'
<1>1. /\ worker[w].pc = "send" /\ worker[w] \in Worker /\ worker \in [Workers -> Worker] /\ Laden(worker[w])
      /\ UNCHANGED <<upsets, record>> /\ Reached(w)
  BY WorkerIs DEF Send, rows, PartsInv
<1>2. upsets \in Nat /\ sentDefault \in [Parts -> Nat] /\ RecordIs  BY DEF PartsInv
<1>3. CASE worker[w].kind = "once"
  <2> DEFINE r == [worker[w] EXCEPT !.pc = "mark"]
  <2>1. worker' = [worker EXCEPT ![w] = r]  BY <1>3 DEF Send, Goto, Step
  <2>2. r \in Worker /\ r.kind = "once" /\ r.left = worker[w].left /\ r.pc = "mark"  BY <1>1, <1>3 DEF Worker
  <2> HIDE DEF r
  <2>3. worker[w].left # {}  BY <1>1, <1>3 DEF Laden
  <2>4. Holding(worker[w]) /\ Holding(r) /\ Laden(r)  BY <1>1, <1>3, <2>2, <2>3 DEF Holding, Laden
  <2>5. RecordIs'  BY <1>1, <1>2 DEF RecordIs
  <2>6. /\ Part(w) = FirstOf(worker[w]) /\ Part(w) \in worker[w].left /\ sentDefault' \in [Parts -> Nat]
        /\ \A p \in Parts : sentDefault'[p] = IF p = Part(w) THEN sentDefault[p] + 1 ELSE sentDefault[p]
    BY <1>1, <1>2, <1>3, <2>3, PartIs
  <2>7. \A p \in Parts : /\ Owes(worker[w], p) <=> p \in worker[w].left
                         /\ Owes(r, p) <=> p \in worker[w].left /\ p # Part(w)
    BY <1>1, <1>3, <2>2, <2>6 DEF Owes, FirstOf
  <2>8. \A p \in Parts : One(Owes(r, p)) = (IF p = Part(w) THEN 0 ELSE One(Owes(worker[w], p)))
                         /\ One(Owes(worker[w], p)) \in Nat /\ (p = Part(w) => One(Owes(worker[w], p)) = 1)
    BY <2>6, <2>7 DEF One
  <2>9. ASSUME NEW p \in Parts
        PROVE  sentDefault'[p] + One(Owes(r, p)) + upsets <= sentDefault[p] + One(Owes(worker[w], p)) + upsets'
    BY <1>1, <1>2, <2>6, <2>8
  <2>10. QED  BY <1>1, <2>1, <2>2, <2>4, <2>5, <2>6, <2>9, HolderKeeps
<1>4. CASE worker[w].kind # "once"
  <2>1. After(w, Part(w)) /\ sentDefault' = sentDefault  BY <1>1, <1>4 DEF Send, Reached
  <2>2. PICK r \in Worker : worker' = [worker EXCEPT ![w] = r] /\ r.kind # "once"  BY <1>1, <1>4, <2>1, AfterIs
  <2>3. ~Holding(worker[w])  BY <1>4 DEF Holding
  <2>4. QED  BY <1>1, <2>1, <2>2, <2>3, AsideKeeps
<1>5. QED  BY <1>3, <1>4

LEMMA SendFailsKeepsParts ==
    ASSUME RepliesInv, PartsInv, NEW w \in Workers, SendFails(w)
    PROVE  PartsInv'
<1> DEFINE r == [worker[w] EXCEPT !.pc = "fail"]
<1>1. /\ worker[w].pc = "send" /\ worker[w] \in Worker /\ worker \in [Workers -> Worker] /\ Laden(worker[w])
      /\ upsets' = upsets + 1 /\ record' = record /\ worker' = [worker EXCEPT ![w] = r]
      /\ Reached(w) \/ sentDefault' = sentDefault
  BY WorkerIs DEF SendFails, AfterError, Goto, Step, Upset, rows, PartsInv
<1>2. upsets \in Nat /\ sentDefault \in [Parts -> Nat] /\ RecordIs  BY DEF PartsInv
<1>3. r \in Worker /\ r.kind = worker[w].kind /\ r.left = worker[w].left /\ r.pc = "fail"  BY <1>1 DEF Worker
<1> HIDE DEF r
<1>4. CASE worker[w].kind = "once"
  <2>1. worker[w].left # {}  BY <1>1, <1>4 DEF Laden
  <2>2. Holding(worker[w]) /\ Holding(r) /\ Laden(r)  BY <1>1, <1>3, <1>4 DEF Holding, Laden
  <2>3. RecordIs'  BY <1>1, <1>2 DEF RecordIs
  <2>4. \A p \in Parts : One(Owes(r, p)) = 1 /\ One(Owes(worker[w], p)) = IF p \in worker[w].left THEN 1 ELSE 0
    BY <1>1, <1>3, <1>4 DEF Owes, One
  <2>5. sentDefault' \in [Parts -> Nat]
        /\ \A p \in Parts : sentDefault'[p] <= sentDefault[p] + One(Owes(worker[w], p))
    <3>1. CASE sentDefault' = sentDefault
      <4>1. \A p \in Parts : sentDefault[p] \in Nat /\ One(Owes(worker[w], p)) \in Nat  BY <1>2, <2>4
      <4>2. QED  BY <1>2, <3>1, <4>1
    <3>2. CASE Reached(w)
      <4>1. /\ Part(w) \in worker[w].left /\ sentDefault' \in [Parts -> Nat]
            /\ \A p \in Parts : sentDefault'[p] = IF p = Part(w) THEN sentDefault[p] + 1 ELSE sentDefault[p]
        BY <1>1, <1>2, <1>4, <2>1, <3>2, PartIs
      <4>2. \A p \in Parts : sentDefault[p] \in Nat /\ One(Owes(worker[w], p)) \in Nat
                             /\ (p = Part(w) => One(Owes(worker[w], p)) = 1)
        BY <1>2, <2>4, <4>1
      <4>3. QED  BY <4>1, <4>2
    <3>3. QED  BY <1>1, <3>1, <3>2
  <2>6. ASSUME NEW p \in Parts
        PROVE  sentDefault'[p] + One(Owes(r, p)) + upsets <= sentDefault[p] + One(Owes(worker[w], p)) + upsets'
    <3>1. sentDefault'[p] \in Nat /\ sentDefault[p] \in Nat /\ One(Owes(worker[w], p)) \in Nat  BY <1>2, <2>4, <2>5
    <3>2. QED  BY <1>1, <1>2, <2>4, <2>5, <3>1
  <2>7. QED  BY <1>1, <1>3, <2>2, <2>3, <2>5, <2>6, HolderKeeps
<1>5. CASE worker[w].kind # "once"
  <2>1. sentDefault' = sentDefault  BY <1>1, <1>5 DEF Reached
  <2>2. ~Holding(worker[w])  BY <1>5 DEF Holding
  <2>3. QED  BY <1>1, <1>3, <1>5, <2>1, <2>2, AsideKeeps
<1>6. QED  BY <1>4, <1>5

LEMMA MarkKeepsParts ==
    ASSUME RepliesInv, PartsInv, NEW w \in Workers, MarkPart(w)
    PROVE  PartsInv'
<1>1. /\ worker[w].pc = "mark" /\ worker[w] \in Worker /\ worker \in [Workers -> Worker] /\ Laden(worker[w])
      /\ worker[w].kind = "once" /\ ~worker[w].quote /\ sentDefault' = sentDefault
  BY WorkerIs DEF MarkPart, history, PartsInv, Fits
<1>2. upsets \in Nat /\ sentDefault \in [Parts -> Nat] /\ RecordIs /\ worker[w].left \subseteq Parts
  BY <1>1 DEF PartsInv, Worker
<1>3. worker[w].left # {} /\ Holding(worker[w])  BY <1>1 DEF Laden, Holding
<1>4. Part(w) = FirstOf(worker[w]) /\ Part(w) \in Parts  BY DEF Part, FirstOf, Parts
<1>5. \A p \in Parts : Owes(worker[w], p) <=> p \in worker[w].left \ {Part(w)}  BY <1>1, <1>4 DEF Owes
<1>6. \A p \in Parts : sentDefault[p] \in Nat /\ sentDefault'[p] = sentDefault[p]  BY <1>1, <1>2
<1>7. CASE record' = MarkPartSent(w) /\ After(w, Part(w)) /\ upsets' = upsets
  <2>1. PICK r \in Worker : /\ worker' = [worker EXCEPT ![w] = r] /\ r.kind = "once"
                            /\ r.left = worker[w].left \ {Part(w)}
                            /\ (r.pc = "send" /\ r.left # {}) \/ (r.pc = "finish" /\ r.left = {})
    BY <1>1, <1>7, AfterIs
  <2>2. Holding(r) /\ Laden(r)  BY <2>1 DEF Holding, Laden
  <2>3. \A p \in Parts : Owes(r, p) <=> p \in worker[w].left \ {Part(w)}  BY <2>1 DEF Owes
  <2>4. \A p \in Parts : One(Owes(r, p)) = One(Owes(worker[w], p)) /\ One(Owes(r, p)) \in Nat  BY <1>5, <2>3 DEF One
  <2>5. RecordIs' /\ record'.status = record.status /\ record'.live = record.live
    BY <1>2, <1>4, <1>7 DEF MarkPartSent, RecordIs
  <2>6. \A p \in Parts : sentDefault'[p] + One(Owes(r, p)) + upsets
                         <= sentDefault[p] + One(Owes(worker[w], p)) + upsets'
    BY <1>2, <1>6, <1>7, <2>4
  <2>7. QED  BY <1>1, <1>2, <1>3, <1>7, <2>1, <2>2, <2>5, <2>6, HolderKeeps
<1>8. CASE record' = record /\ Goto(w, "fail") /\ Upset
  <2> DEFINE r == [worker[w] EXCEPT !.pc = "fail"]
  <2>1. worker' = [worker EXCEPT ![w] = r] /\ upsets' = upsets + 1  BY <1>8 DEF Goto, Step, Upset
  <2>2. r \in Worker /\ r.kind = "once" /\ r.pc = "fail"  BY <1>1 DEF Worker
  <2> HIDE DEF r
  <2>3. Holding(r) /\ Laden(r)  BY <2>2 DEF Holding, Laden
  <2>4. RecordIs'  BY <1>2, <1>8 DEF RecordIs
  <2>5. \A p \in Parts : One(Owes(r, p)) = 1 /\ One(Owes(worker[w], p)) \in Nat  BY <2>2 DEF Owes, One
  <2>6. \A p \in Parts : sentDefault'[p] + One(Owes(r, p)) + upsets
                         <= sentDefault[p] + One(Owes(worker[w], p)) + upsets'
    BY <1>2, <1>6, <2>1, <2>5
  <2>7. QED  BY <1>1, <1>2, <1>3, <1>8, <2>1, <2>2, <2>3, <2>4, <2>6, HolderKeeps
<1>9. QED  BY <1>7, <1>8 DEF MarkPart

\* A call that held the record gives it up: it owes nothing any more.
LEMMA LeaveKeeps ==
    ASSUME RepliesInv, PartsInv, NEW w \in Workers, worker' = [worker EXCEPT ![w] = Idle],
           RecordIs', upsets' \in Nat, sentDefault' = sentDefault,
           \A p \in Parts : One(Open') + upsets <= One(Owes(worker[w], p)) + One(Open) + upsets'
    PROVE  PartsInv'
<1>1. Laden(Idle) /\ \A p \in Parts : ~Owes(Idle, p)  BY DEF Laden, Owes, Idle
<1>2. upsets \in Nat /\ sentDefault \in [Parts -> Nat]  BY DEF PartsInv
<1>3. \A p \in Parts : /\ sentDefault[p] \in Nat /\ sentDefault'[p] = sentDefault[p] /\ One(Owes(Idle, p)) = 0
                       /\ One(Owes(worker[w], p)) \in Nat
  BY <1>1, <1>2 DEF One
<1>4. One(Open) \in Nat /\ One(Open') \in Nat  BY DEF One
<1>5. \A p \in Parts : sentDefault'[p] + One(Owes(Idle, p)) + One(Open') + upsets
                       <= sentDefault[p] + One(Owes(worker[w], p)) + One(Open) + upsets'
  BY <1>2, <1>3, <1>4
<1>6. QED  BY <1>1, <1>2, <1>5, IdleIs, CallKeeps

LEMMA FinishKeepsParts ==
    ASSUME RepliesInv, PartsInv, NEW w \in Workers, Finish(w)
    PROVE  PartsInv'
<1>1. /\ worker[w].pc = "finish" /\ worker[w] \in Worker /\ worker \in [Workers -> Worker]
      /\ sentDefault' = sentDefault /\ upsets' \in {upsets, upsets + 1}
  BY WorkerIs DEF Finish, history, Upset
<1>2. upsets \in Nat /\ sentDefault \in [Parts -> Nat] /\ RecordIs  BY DEF PartsInv
<1>3. \A p \in Parts : sentDefault[p] \in Nat /\ ~Owes(worker[w], p)  BY <1>1, <1>2 DEF Owes
<1>4. CASE worker[w].kind = "once" /\ Step(w, Idle) /\ upsets' = upsets
           /\ record' = IF record.status = "absent" THEN record ELSE [record EXCEPT !.status = "sent", !.live = FALSE]
  <2>1. RecordIs'  BY <1>2, <1>4 DEF RecordIs
  <2>2. Open' => Open  BY <1>2, <1>4 DEF Open, RecordIs
  <2>3. \A p \in Parts : One(Open') + upsets <= One(Owes(worker[w], p)) + One(Open) + upsets'
    BY <1>2, <1>4, <2>2 DEF One
  <2>4. QED  BY <1>1, <1>2, <1>4, <2>1, <2>3, LeaveKeeps DEF Step
<1>5. CASE worker[w].kind = "once" /\ record' = record /\ Goto(w, "fail") /\ Upset
  <2> DEFINE r == [worker[w] EXCEPT !.pc = "fail"]
  <2>1. worker' = [worker EXCEPT ![w] = r] /\ upsets' = upsets + 1  BY <1>5 DEF Goto, Step, Upset
  <2>2. r \in Worker /\ r.kind = "once" /\ r.pc = "fail"  BY <1>1, <1>5 DEF Worker
  <2> HIDE DEF r
  <2>3. Holding(r) /\ Laden(r) /\ Holding(worker[w])  BY <1>1, <1>5, <2>2 DEF Holding, Laden
  <2>4. RecordIs'  BY <1>2, <1>5 DEF RecordIs
  <2>5. \A p \in Parts : One(Owes(r, p)) = 1 /\ One(Owes(worker[w], p)) \in Nat  BY <2>2 DEF Owes, One
  <2>6. \A p \in Parts : sentDefault'[p] + One(Owes(r, p)) + upsets
                         <= sentDefault[p] + One(Owes(worker[w], p)) + upsets'
    BY <1>1, <1>2, <1>3, <2>1, <2>5
  <2>7. QED  BY <1>1, <1>2, <1>5, <2>1, <2>2, <2>3, <2>4, <2>6, HolderKeeps
<1>6. CASE worker[w].kind # "once"
  <2>1. record' = record /\ worker' = [worker EXCEPT ![w] = Idle]  BY <1>1, <1>6 DEF Finish, Step, Worker
  <2>2. ~Holding(worker[w])  BY <1>6 DEF Holding
  <2>3. QED  BY <1>1, <2>1, <2>2, IdleIs, AsideKeeps
<1>7. QED  BY <1>4, <1>5, <1>6 DEF Finish

LEMMA FailKeepsParts ==
    ASSUME RepliesInv, PartsInv, NEW w \in Workers, Fail(w)
    PROVE  PartsInv'
<1>1. /\ worker[w].pc = "fail" /\ worker[w] \in Worker /\ worker \in [Workers -> Worker]
      /\ worker' = [worker EXCEPT ![w] = Idle] /\ sentDefault' = sentDefault /\ upsets' \in {upsets, upsets + 1}
  BY WorkerIs DEF Fail, Step, history, Upset
<1>2. upsets \in Nat /\ RecordIs  BY DEF PartsInv
<1>3. CASE worker[w].kind = "once"
  <2>1. RecordIs'  BY <1>2 DEF Fail, RecordIs
  <2>2. \A p \in Parts : One(Owes(worker[w], p)) = 1  BY <1>1, <1>3 DEF Owes, One
  <2>3. One(Open) \in {0, 1} /\ One(Open') \in {0, 1}  BY DEF One
  <2>4. \A p \in Parts : One(Open') + upsets <= One(Owes(worker[w], p)) + One(Open) + upsets'
    BY <1>1, <1>2, <2>2, <2>3
  <2>5. upsets' \in Nat  BY <1>1, <1>2
  <2>6. QED  BY <1>1, <2>1, <2>4, <2>5, LeaveKeeps
<1>4. CASE worker[w].kind # "once"
  <2>1. record' = record /\ ~Holding(worker[w])  BY <1>4 DEF Fail, Holding
  <2>2. QED  BY <1>1, <2>1, IdleIs, AsideKeeps
<1>5. QED  BY <1>3, <1>4

\* The calls stand where they are: the record lapses, or nothing of the default reply changes.
LEMMA StandKeeps ==
    ASSUME PartsInv, worker' = worker, sentDefault' = sentDefault, RecordIs', upsets' \in Nat,
           One(Open') + upsets <= One(Open) + upsets'
    PROVE  PartsInv'
<1>1. \A p \in Parts : Owing(p)' = Owing(p)  BY DEF Owing
<1>2. \A w \in Workers : Laden(worker[w])'  BY DEF PartsInv, Laden
<1>3. upsets \in Nat /\ sentDefault \in [Parts -> Nat] /\ One(Open) \in Nat /\ One(Open') \in Nat
  BY DEF PartsInv, One
<1>4. ASSUME NEW p \in Parts
      PROVE  IsFiniteSet(Owing(p)') /\ sentDefault'[p] + Cardinality(Owing(p)') + One(Open') <= 1 + upsets'
  <2>1. IsFiniteSet(Owing(p)) /\ sentDefault[p] + Cardinality(Owing(p)) + One(Open) <= 1 + upsets  BY DEF PartsInv
  <2>2. Cardinality(Owing(p)) \in Nat /\ sentDefault[p] \in Nat  BY <1>3, <2>1, FS_CardinalityType
  <2>3. QED  BY <1>1, <1>3, <2>1, <2>2
<1>5. QED  BY <1>2, <1>3, <1>4 DEF PartsInv

LEMMA LeaseLapsesKeepsParts == ASSUME RepliesInv, PartsInv, LeaseLapses PROVE PartsInv'
<1>1. /\ record.status = "pending" /\ record.live /\ record' = [record EXCEPT !.live = FALSE]
      /\ worker' = worker /\ sentDefault' = sentDefault
  BY DEF LeaseLapses, history
<1>2. RecordIs /\ upsets \in Nat  BY DEF PartsInv
<1>3. RecordIs'  BY <1>1, <1>2 DEF RecordIs
<1>4. One(Open') \in {0, 1} /\ One(Open) \in {0, 1}  BY DEF One
<1>5. CASE \E w \in Workers : Holding(worker[w])
  <2>1. upsets' = upsets + 1  BY <1>5 DEF LeaseLapses, Holding, Upset
  <2>2. QED  BY <1>1, <1>2, <1>3, <1>4, <2>1, StandKeeps
<1>6. CASE ~\E w \in Workers : Holding(worker[w])
  <2>1. upsets' = upsets  BY <1>6 DEF LeaseLapses, Holding
  <2>2. Open  BY <1>1, <1>6 DEF Open
  <2>3. One(Open) = 1  BY <2>2 DEF One
  <2>4. QED  BY <1>1, <1>2, <1>3, <1>4, <2>1, <2>3, StandKeeps
<1>7. QED  BY <1>5, <1>6

LEMMA ClearKeepsParts == ASSUME RepliesInv, PartsInv, ClearRecords PROVE PartsInv'
<1>1. upsets' = upsets + 1 /\ record' = NoRecord /\ worker' = worker /\ sentDefault' = sentDefault
  BY DEF ClearRecords, Upset, replying, history
<1>2. upsets \in Nat  BY DEF PartsInv
<1>3. RecordIs'  BY <1>1 DEF RecordIs, NoRecord, Parts
<1>4. One(Open') \in {0, 1} /\ One(Open) \in {0, 1}  BY DEF One
<1>5. QED  BY <1>1, <1>2, <1>3, <1>4, StandKeeps

LEMMA StopKeepsParts == ASSUME RepliesInv, PartsInv, Stop PROVE PartsInv'
<1>1. /\ upsets' = upsets + 1 /\ worker' = [w \in Workers |-> Idle] /\ UNCHANGED <<record, sentDefault>>
  BY DEF Stop, Upset, rows, history
<1>2. upsets \in Nat /\ sentDefault \in [Parts -> Nat] /\ RecordIs  BY DEF PartsInv
<1>3. \A w \in Workers : worker'[w] = Idle  BY <1>1
<1>4. Laden(Idle) /\ \A p \in Parts : ~Owes(Idle, p)  BY DEF Laden, Owes, Idle
<1>5. \A p \in Parts : Owing(p)' = {}  BY <1>3, <1>4 DEF Owing
<1>6. RecordIs' /\ \A w \in Workers : Laden(worker[w])'  BY <1>1, <1>2, <1>3, <1>4 DEF RecordIs, Laden
<1>7. One(Open') \in {0, 1} /\ One(Open) \in {0, 1}  BY DEF One
<1>8. ASSUME NEW p \in Parts
      PROVE  IsFiniteSet(Owing(p)') /\ sentDefault'[p] + Cardinality(Owing(p)') + One(Open') <= 1 + upsets'
  <2>1. IsFiniteSet(Owing(p)) /\ sentDefault[p] + Cardinality(Owing(p)) + One(Open) <= 1 + upsets  BY DEF PartsInv
  <2>2. Cardinality(Owing(p)) \in Nat /\ sentDefault[p] \in Nat  BY <1>2, <2>1, FS_CardinalityType
  <2>3. IsFiniteSet({}) /\ Cardinality({}) = 0  BY FS_EmptySet
  <2>4. QED  BY <1>1, <1>2, <1>5, <1>7, <2>1, <2>2, <2>3
<1>9. QED  BY <1>1, <1>2, <1>6, <1>8 DEF PartsInv

LEMMA StartingKeepsParts == ASSUME RepliesInv, PartsInv, DebounceEnds PROVE PartsInv'
<1> DEFINE r == [Idle EXCEPT !.pc = "resolve", !.msg = debounce]
<1>1. PICK w \in Workers : worker[w].pc = "idle" /\ worker' = [worker EXCEPT ![w] = r]  BY DEF DebounceEnds
<1>2. debounce \in Msgs /\ UNCHANGED <<record, sentDefault, upsets>>
  BY DEF DebounceEnds, RepliesInv, Types, rows, history, Bounds
<1>3. r \in Worker /\ r.kind = "plain"  BY <1>2, IdleIs DEF Worker, Idle
<1>4. ~Holding(worker[w])  BY <1>1 DEF Holding
<1> HIDE DEF r
<1>5. QED  BY <1>1, <1>2, <1>3, <1>4, AsideKeeps

LEMMA PartsStep == ASSUME RepliesInv, PartsInv, [Next]_vars PROVE PartsInv'
<1>1. RecordIs /\ upsets \in Nat  BY DEF PartsInv
<1>2. ASSUME UNCHANGED <<worker, record, sentDefault>>, upsets' \in {upsets, upsets + 1} PROVE PartsInv'
  <2>1. RecordIs'  BY <1>1, <1>2 DEF RecordIs
  <2>2. Open' <=> Open  BY <1>2 DEF Open
  <2>3. One(Open') = One(Open) /\ One(Open) \in Nat  BY <2>2 DEF One
  <2>4. QED  BY <1>1, <1>2, <2>1, <2>3, StandKeeps
<1>3. CASE \E m \in Msgs : Dispatch(m)  BY <1>2, <1>3 DEF Dispatch, rows, history
<1>4. CASE Start  BY <1>2, <1>4 DEF Start, replying, rows, history, Bounds
<1>5. CASE \E p \in {"off", "talk", "adjust"} : SetPolicy(p)
  BY <1>2, <1>5 DEF SetPolicy, replying, rows, history, Upset
<1>6. CASE \E o \in Orders : OrderCreated(o) \/ OrderStepOf(o)
  BY <1>2, <1>6 DEF OrderCreated, OrderStepOf, ClaimPendingQuote, PriceChanged, ChangeUnknown, PlatformBusy,
                    ChangeRefused, FinishQuote, Pricing, replying, rows, history, Upset
<1>7. CASE \E i \in DOMAIN quotes : QuoteLapses(i)  BY <1>2, <1>7 DEF QuoteLapses, Pricing, replying
<1>8. CASE UNCHANGED vars  BY <1>2, <1>8 DEF vars, replying, rows, history, Bounds
<1>9. ASSUME NEW w \in Workers, WorkerStep(w) \/ SendFails(w) \/ StatementFails(w) PROVE PartsInv'
  <2>1. CASE InsertRecord(w) \/ ReclaimRecord(w)  BY <2>1, InsertKeepsParts, ReclaimKeepsParts
  <2>2. CASE Send(w) \/ SendFails(w)  BY <2>2, SendKeepsParts, SendFailsKeepsParts
  <2>3. CASE MarkPart(w)  BY <2>3, MarkKeepsParts
  <2>4. CASE Finish(w) \/ Fail(w)  BY <2>4, FinishKeepsParts, FailKeepsParts
  <2>5. QED  BY <1>9, <2>1, <2>2, <2>3, <2>4, BeforeClaim DEF WorkerStep
<1>10. CASE DebounceEnds \/ Stop  BY <1>10, StartingKeepsParts, StopKeepsParts
<1>11. CASE LeaseLapses \/ ClearRecords  BY <1>11, LeaseLapsesKeepsParts, ClearKeepsParts
<1>12. QED  BY <1>3, <1>4, <1>5, <1>6, <1>7, <1>8, <1>9, <1>10, <1>11 DEF Next

LEMMA PartsStart == ASSUME Init PROVE PartsInv
<1>1. worker = [w \in Workers |-> Idle] /\ record = NoRecord /\ upsets = 0 /\ sentDefault = [p \in Parts |-> 0]
  BY DEF Init
<1>2. Laden(Idle) /\ \A p \in Parts : ~Owes(Idle, p)  BY DEF Laden, Owes, Idle
<1>3. \A p \in Parts : Owing(p) = {}  BY <1>1, <1>2 DEF Owing
<1>4. RecordIs  BY <1>1 DEF RecordIs, NoRecord
<1>5. IsFiniteSet({}) /\ Cardinality({}) = 0  BY FS_EmptySet
<1>6. One(Open) \in {0, 1}  BY DEF One
<1>7. \A w \in Workers : Laden(worker[w])  BY <1>1, <1>2
<1>8. \A p \in Parts : sentDefault[p] + Cardinality(Owing(p)) + One(Open) <= 1 + upsets
  BY <1>1, <1>3, <1>5, <1>6
<1>9. QED  BY <1>1, <1>3, <1>4, <1>5, <1>7, <1>8 DEF PartsInv

\* "Answer once per conversation": a part of the default reply reaches the buyer again only for a
\* fault, a record that was cleared or a worker that outlived its lease (ClaimRecord).
THEOREM DefaultPartsAreFewHolds == Spec => []DefaultPartsAreFew
<1>1. Init => PartsInv  BY PartsStart
<1>2. RepliesInv /\ PartsInv /\ [Next]_vars => PartsInv'  BY PartsStep
<1>3. PartsInv => DefaultPartsAreFew
  <2>1. SUFFICES ASSUME PartsInv, NEW p \in Parts PROVE sentDefault[p] <= 1 + upsets  BY DEF DefaultPartsAreFew
  <2>2. IsFiniteSet(Owing(p)) /\ sentDefault[p] + Cardinality(Owing(p)) + One(Open) <= 1 + upsets  BY <2>1 DEF PartsInv
  <2>3. Cardinality(Owing(p)) \in Nat /\ One(Open) \in Nat /\ sentDefault[p] \in Nat /\ upsets \in Nat
    BY <2>1, <2>2, FS_CardinalityType DEF PartsInv, One
  <2>4. QED  BY <2>2, <2>3
<1>4. QED  BY <1>1, <1>2, <1>3, RepliesHold, PTL DEF Spec
=============================================================================
