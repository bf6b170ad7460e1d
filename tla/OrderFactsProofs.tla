--------------------------- MODULE OrderFactsProofs ---------------------------
(***************************************************************************)
(* What the row of an order keeps for any number of writers, rules,        *)
(* commands and disturbances.                                              *)
(*                                                                         *)
(* Three invariants, each on top of the types.  What a writer has read and *)
(* nobody has written over is the row's status (FreshIsTrue), so that the  *)
(* comparison it makes is one with the row: NoWayBack.  A shipment that    *)
(* was confirmed is recorded or on its way (Recorded).  A rule under way   *)
(* or started is the best match for what its task knew (BestRules).        *)
(*                                                                         *)
(* Most steps are those of one writer that leave the row's status alone    *)
(* (LocalStep); the others write the row and take from everybody else what *)
(* he has read (RowStep), or are no writer's.                              *)
(***************************************************************************)
EXTENDS OrderFacts, TLAPS

Writers == Slots \cup {Loop}

Points == {"idle", "record", "merge", "prep", "detail", "save", "match", "start", "confirm", "ship", "mark",
           "listed", "found", "scan", "fetch", "fetched", "single", "recon", "resolve"}

Row      == [there : BOOLEAN, status : Statuses, item : BOOLEAN, full : BOOLEAN, deleted : BOOLEAN]
Deferral == [at : {"none", "waiting", "held"}, st : Statuses \cup {""}, item : BOOLEAN]
Run      == [rule : Rules, item : BOOLEAN]
Flow     == [kind : AllKinds \cup {"", "recon"}, pc : Points, st : Statuses \cup {"", "none"},
             own : Statuses \cup {""}, item : BOOLEAN, rule : Rules \cup {0},
             seen : Statuses \cup {""}, hid : BOOLEAN, fresh : BOOLEAN, tries : 0 .. MaxTries - 1]

\* A task goes on with the rule it was matched with; full delivery matches late.
Ruled(f) == f.pc = "start" \/ (f.pc \in {"prep", "detail", "save"} /\ f.kind # "full")

\* Whoever is at work has seen the order on the platform, and what it is about to write is a status.
Known(platform, f) ==
    /\ f.pc \notin {"idle", "listed"} => platform # "none" /\ f.st # "none"
    /\ f.pc = "listed" /\ f.st # "none" => platform # "none"
    /\ f.pc \in {"listed", "found", "scan", "fetch", "fetched", "single"} => f.st # ""
    /\ Ruled(f) => f.rule # 0

RowType      == /\ row \in Row
                /\ row.there => remote # "none"
                /\ ~row.there => row = NoRow
FlowType     == /\ flow \in [Writers -> Flow]
                /\ \A s \in Writers : Known(remote, flow[s])
                /\ flow[Loop].pc \in {"idle", "recon", "resolve"}
DeferredType == deferred \in Deferral /\ (deferred.at # "none" => remote # "none")
OtherTypes   == /\ remote \in Editable \cup {"none"}
                /\ runs \subseteq Run /\ rules \subseteq Rules
                /\ recon \in {"none", "pending", "resolved"}
                /\ confirmed \in BOOLEAN /\ excused \in BOOLEAN /\ edited \in BOOLEAN /\ switched \in BOOLEAN
Types        == RowType /\ FlowType /\ DeferredType /\ OtherTypes

\* Only an Upsert is fresh, and nobody wrote the row since it read it, an operator's edit apart.
FreshIsTrue == \A s \in Writers :
    flow[s].fresh => /\ flow[s].pc \in Stages /\ flow[s].seen \in Statuses
                     /\ row.there /\ (~edited => flow[s].seen = row.status)

\* ConfirmedIsRecorded, and the two states in which a reconciliation says that the row has it.
Recorded ==
    ~excused /\ ~edited =>
        /\ recon = "resolved" \/ flow[Loop].pc = "resolve" => row.status \in Advanced
        /\ confirmed => \/ row.status \in Advanced \/ recon = "pending"
                        \/ \E s \in Slots : flow[s].pc = "ship"

\* AutomationRules.Match over a given set of enabled rules.
Best(on, item) == LET scope == IF item /\ on \cap ItemRules # {} THEN on \cap ItemRules ELSE on \cap AccountRules
                  IN  {r \in scope : \A other \in scope : r <= other}

\* That rule was the best for what the task knew, and full delivery knows the item.
Chose(f) ==
    /\ Ruled(f) => f.rule \in Best(Rules, f.item)
    /\ f.pc \in {"prep", "detail", "save", "match"} /\ f.kind = "full" => f.item
    /\ f.pc \in {"record", "merge"} => f.kind # "full"
    /\ f.pc = "match" => f.kind = "full"

BestRules ==
    ~switched => /\ rules = Rules
                 /\ \A s \in Slots : Chose(flow[s])
                 /\ \A r \in runs : r.rule \in Best(Rules, r.item)

FactsInv == Types /\ FreshIsTrue /\ Recorded /\ BestRules

-----------------------------------------------------------------------------
(* The operators of the model.                                             *)

LEMMA SlotsAreNotTheLoop == Loop \notin Slots /\ Writers = Slots \cup {Loop} /\ Slots \subseteq Writers
BY OrderAssumption DEF Writers, Loop

LEMMA EditableAreStatuses ==
    /\ Editable \subseteq Statuses /\ Advanced \subseteq Statuses /\ Early \subseteq Statuses
    /\ "none" \notin Statuses /\ "" \notin Statuses /\ "unknown" \in Statuses
    /\ Statuses = Early \cup Advanced \cup {"unknown"} /\ Early \cap Advanced = {} /\ "unknown" \notin Editable
    /\ "shipped" \in Advanced /\ "pending_ship" \in Early /\ {"completed", "cancelled"} \subseteq Advanced
BY DEF Statuses, Editable, Advanced, Early

LEMMA AdvancedIs ==
    /\ \A st \in Advanced : st \notin Early /\ st # "unknown"
    /\ "unknown" \notin Early /\ "shipped" \in Advanced
BY DEF Advanced, Early

\* Matches is the best of the rules enabled now.
LEMMA MatchesAreBest == \A item : Matches(item) = Best(rules, item)
BY DEF Matches, Best

\* There is one best rule at most: a minimum of a set of numbers.
LEMMA OneBest ==
    ASSUME NEW item, NEW a \in Best(Rules, item), NEW b \in Best(Rules, item)
    PROVE  a = b /\ a \in Rules
<1>1. Rules \subseteq Nat  BY OrderAssumption DEF Rules
<1>2. a \in Nat /\ b \in Nat /\ a <= b /\ b <= a /\ a \in Rules  BY <1>1 DEF Best
<1>3. QED  BY <1>2

LEMMA NoTries == 0 \in 0 .. MaxTries - 1
BY OrderAssumption

LEMMA IdleIs == Idle \in Flow /\ Idle.pc = "idle" /\ ~Idle.fresh /\ (\A r : Known(r, Idle)) /\ Chose(Idle)
BY NoTries DEF Idle, Flow, Known, Ruled, Chose, Points

LEMMA NoRowIs == NoRow \in Row /\ ~NoRow.there /\ NoRow.status = "unknown"
BY EditableAreStatuses DEF NoRow, Row

\* Goes moves a writer on and forgets what the Upsert had read.
LEMMA GoesIs ==
    ASSUME NEW f \in Flow, NEW pc \in Points
    PROVE  LET g == Goes(f, pc)
           IN  /\ g \in Flow /\ g.pc = pc /\ ~g.fresh
               /\ g.kind = f.kind /\ g.st = f.st /\ g.own = f.own /\ g.item = f.item /\ g.rule = f.rule
BY NoTries DEF Goes, Flow

\* The same with another rule.
LEMMA GoesWithRule ==
    ASSUME NEW f \in Flow, NEW pc \in Points, NEW rule \in Rules \cup {0}
    PROVE  LET g == [Goes(f, pc) EXCEPT !.rule = rule]
           IN  /\ g \in Flow /\ g.pc = pc /\ ~g.fresh /\ g.rule = rule
               /\ g.kind = f.kind /\ g.st = f.st /\ g.own = f.own /\ g.item = f.item
BY NoTries DEF Goes, Flow

-----------------------------------------------------------------------------
(* Steps of one writer that leave the status of the row alone.             *)

LocalStep(s, f) ==
    /\ flow' = [flow EXCEPT ![s] = f]
    /\ f \in Flow /\ Known(remote', f)
    /\ f.fresh => f.pc \in Stages /\ f.seen \in Statuses /\ f.seen = row.status /\ row'.there
    /\ s = Loop => f.pc \in {"idle", "recon", "resolve"}
    /\ s \in Slots /\ ~switched => Chose(f)
    /\ RowType' /\ DeferredType' /\ OtherTypes'
    /\ row'.status = row.status /\ (row.there => row'.there)
    /\ remote # "none" => remote' # "none"
    /\ rules' = rules /\ switched' = switched /\ edited' = edited
    /\ ~switched => \A r \in runs' : r \in runs \/ r.rule \in Best(Rules, r.item)
    /\ ~excused' =>
          /\ ~excused
          /\ recon' = "resolved" \/ (s = Loop /\ f.pc = "resolve") => recon = "resolved" \/ flow[Loop].pc = "resolve"
          /\ confirmed' => confirmed \/ (s \in Slots /\ f.pc = "ship")
          /\ recon = "pending" => recon' \in {"pending", "resolved"}
          /\ flow[s].pc = "ship" => f.pc = "ship" \/ recon' \in {"pending", "resolved"}

LEMMA KnownStays ==
    ASSUME Types, remote # "none" => remote' # "none", NEW s \in Writers
    PROVE  Known(remote', flow[s])
BY DEF Types, FlowType, Known, Ruled

LEMMA LocalKeeps ==
    ASSUME FactsInv, NEW s \in Writers, NEW f, LocalStep(s, f)
    PROVE  FactsInv'
<1> USE DEF FactsInv
<1>1. /\ flow \in [Writers -> Flow]
      /\ flow' \in [Writers -> Flow]
      /\ \A t \in Writers : flow'[t] = IF t = s THEN f ELSE flow[t]
  BY DEF LocalStep, Types, FlowType
<1>2. Types'
  <2>1. \A t \in Writers : Known(remote', flow'[t])  BY <1>1, KnownStays DEF LocalStep
  <2>2. flow'[Loop].pc \in {"idle", "recon", "resolve"}
    BY <1>1, SlotsAreNotTheLoop DEF LocalStep, Types, FlowType
  <2>3. QED  BY <1>1, <2>1, <2>2 DEF LocalStep, Types, FlowType
<1>3. FreshIsTrue'  BY <1>1 DEF LocalStep, FreshIsTrue
<1>4. Recorded'
  <2> SUFFICES ASSUME ~excused', ~edited'
               PROVE  /\ recon' = "resolved" \/ flow'[Loop].pc = "resolve" => row'.status \in Advanced
                      /\ confirmed' => \/ row'.status \in Advanced \/ recon' = "pending"
                                       \/ \E t \in Slots : flow'[t].pc = "ship"
    BY DEF Recorded
  <2>1. ~excused /\ ~edited /\ row'.status = row.status  BY DEF LocalStep
  <2>2. recon' = "resolved" \/ flow'[Loop].pc = "resolve" => recon = "resolved" \/ flow[Loop].pc = "resolve"
    BY <1>1, SlotsAreNotTheLoop DEF LocalStep
  <2>3. recon' = "resolved" \/ flow'[Loop].pc = "resolve" => row'.status \in Advanced
    BY <2>1, <2>2 DEF Recorded
  <2>4. ASSUME confirmed', ~(row'.status \in Advanced), recon' # "pending"
        PROVE  \E t \in Slots : flow'[t].pc = "ship"
    <3>1. recon' # "resolved" /\ recon # "pending"  BY <2>1, <2>3, <2>4 DEF LocalStep
    <3>2. CASE s \in Slots /\ f.pc = "ship"  BY <3>2, <1>1
    <3>3. CASE ~(s \in Slots /\ f.pc = "ship")
      <4>1. PICK t \in Slots : flow[t].pc = "ship"
        BY <2>1, <2>4, <3>1, <3>3 DEF LocalStep, Recorded
      <4>2. t # s  BY <4>1, <2>1, <2>4, <3>1, <3>3 DEF LocalStep
      <4>3. QED  BY <4>1, <4>2, <1>1, SlotsAreNotTheLoop
    <3>4. QED  BY <3>2, <3>3
  <2>5. QED  BY <2>3, <2>4
<1>5. BestRules'  BY <1>1, SlotsAreNotTheLoop DEF LocalStep, BestRules
<1>6. QED  BY <1>2, <1>3, <1>4, <1>5

\* A writer moves on: of the rest only the deferred task and the reconciliation change.
Move(s, f) ==
    /\ flow' = [flow EXCEPT ![s] = f]
    /\ f \in Flow /\ Known(remote, f)
    /\ ~f.fresh
    /\ s = Loop => f.pc \in {"idle", "recon", "resolve"} /\ (f.pc = "resolve" => flow[s].pc = "resolve")
    /\ s \in Slots /\ ~switched => Chose(f)
    /\ UNCHANGED <<row, Platform, edited, switched, excused>>
    /\ DeferredType'
    /\ recon' = recon \/ (recon = "none" /\ recon' = "pending")
    /\ flow[s].pc = "ship" => f.pc = "ship" \/ recon' # "none"

LEMMA MoveKeeps ==
    ASSUME FactsInv, NEW s \in Writers, NEW f, Move(s, f)
    PROVE  FactsInv'
<1>1. RowType' /\ OtherTypes'
  BY DEF FactsInv, Types, RowType, OtherTypes, Move, Platform
<1>2. LocalStep(s, f)
  <2>1. recon' = "resolved" => recon = "resolved"  BY DEF Move
  <2>2. recon = "pending" => recon' \in {"pending", "resolved"}  BY DEF Move
  <2>3. flow[s].pc = "ship" => f.pc = "ship" \/ recon' \in {"pending", "resolved"}
    BY <1>1 DEF Move, OtherTypes
  <2>4. QED  BY <1>1, <2>1, <2>2, <2>3 DEF LocalStep, Move, Platform
<1>3. QED  BY <1>2, LocalKeeps

\* What an idle or busy writer is; what the model's conversions of the deferred task keep.
LEMMA Typed ==
    ASSUME FactsInv
    PROVE  /\ row \in Row /\ flow \in [Writers -> Flow] /\ DOMAIN flow = Writers
           /\ \A s \in Writers : flow[s] \in Flow /\ Known(remote, flow[s])
           /\ flow[Loop].pc \in {"idle", "recon", "resolve"}
           /\ remote \in Editable \cup {"none"} /\ deferred \in Deferral
           /\ DeferredType /\ OtherTypes /\ RowType
BY DEF FactsInv, Types, RowType, FlowType, DeferredType, OtherTypes

LEMMA DeferredKept ==
    ASSUME FactsInv, UNCHANGED remote,
           \/ UNCHANGED deferred \/ GivesBack
           \/ \E f \in Flow : Finishes(f)
           \/ remote # "none" /\ \E f \in Flow : Defers(f)
    PROVE  DeferredType'
<1>1. deferred \in Deferral /\ (deferred.at # "none" => remote # "none")  BY DEF FactsInv, Types, DeferredType
<1>2. NoTask \in Deferral /\ NoTask.at = "none"  BY DEF NoTask, Deferral
<1>3. CASE UNCHANGED deferred  BY <1>1, <1>3 DEF DeferredType
<1>4. CASE GivesBack
  <2>1. deferred' \in Deferral /\ (deferred'.at # "none" => deferred.at # "none")
    BY <1>1, <1>4 DEF GivesBack, Deferral
  <2>2. QED  BY <1>1, <2>1 DEF DeferredType
<1>5. CASE \E f \in Flow : Finishes(f)
  <2>1. deferred' \in {NoTask, deferred}  BY <1>5 DEF Finishes
  <2>2. QED  BY <1>1, <1>2, <2>1 DEF DeferredType
<1>6. ASSUME remote # "none", NEW f \in Flow, Defers(f)  PROVE DeferredType'
  <2>1. f.own \in Statuses \cup {""} /\ f.item \in BOOLEAN  BY DEF Flow
  <2>2. deferred' \in Deferral  BY <2>1, <1>6 DEF Defers, Deferral
  <2>3. QED  BY <1>6, <2>2 DEF DeferredType
<1>7. QED  BY <1>3, <1>4, <1>5, <1>6

\* A writer that is done.
LEMMA LeaveKeeps ==
    ASSUME FactsInv, NEW s \in Writers, Go(s, "idle"),
           UNCHANGED <<row, Platform, edited, switched, excused>>, DeferredType',
           recon' = recon \/ (recon = "none" /\ recon' = "pending"),
           flow[s].pc = "ship" => recon' # "none"
    PROVE  FactsInv'
<1>1. flow' = [flow EXCEPT ![s] = Idle]  BY DEF Go
<1>2. Move(s, Idle)  BY <1>1, IdleIs DEF Move
<1>3. QED  BY <1>2, MoveKeeps

-----------------------------------------------------------------------------
(* Upsert.                                                                 *)

\* What an Upsert is about to write is a status, or nothing.
LEMMA IncomingIs ==
    ASSUME FactsInv, NEW s \in Writers, flow[s].pc \in Stages
    PROVE  Incoming(flow[s]) \in Statuses \cup {""} /\ remote # "none"
BY Typed, EditableAreStatuses DEF Incoming, Known, Flow, Stages

LEMMA ReadKeeps ==
    ASSUME FactsInv, NEW s \in Writers, Read(s)
    PROVE  FactsInv'
<1> DEFINE f == [flow[s] EXCEPT !.seen = row'.status, !.hid = row'.deleted, !.fresh = TRUE]
<1>1. /\ flow[s] \in Flow /\ flow[s].pc \in Stages /\ Known(remote, flow[s]) /\ remote # "none"
      /\ row \in Row /\ RowType /\ DeferredType /\ OtherTypes
  BY Typed, IncomingIs DEF Read
<1>2. flow' = [flow EXCEPT ![s] = f]  BY DEF Read
<1>3. row' \in Row /\ row'.status = row.status /\ row'.there
  <2>1. CASE row.there  BY <2>1, <1>1 DEF Read
  <2>2. CASE ~row.there
    <3>1. row = NoRow  BY <2>2, <1>1 DEF RowType
    <3>2. flow[s].item \in BOOLEAN  BY <1>1 DEF Flow
    <3>3. QED  BY <2>2, <3>1, <3>2, NoRowIs DEF Read, NoRow, Row
  <2>3. QED  BY <2>1, <2>2
<1>4. row'.status \in Statuses /\ row'.deleted \in BOOLEAN  BY <1>3 DEF Row
<1>5. /\ f \in Flow /\ f.pc = flow[s].pc /\ f.st = flow[s].st /\ f.kind = flow[s].kind /\ f.item = flow[s].item
      /\ f.rule = flow[s].rule /\ f.seen = row'.status
  <2> HIDE DEF f
  <2>1. f = [flow[s] EXCEPT !.seen = row'.status, !.hid = row'.deleted, !.fresh = TRUE]  BY DEF f
  <2>2. QED  BY <1>1, <1>4, <2>1 DEF Flow
<1> HIDE DEF f
<1>6. Known(remote, f) /\ (s \in Slots /\ ~switched => Chose(f))
  BY <1>1, <1>5 DEF Known, Ruled, Chose, FactsInv, BestRules
<1>7. RowType' /\ DeferredType' /\ OtherTypes'
  BY <1>1, <1>3 DEF Read, Platform, History, RowType, DeferredType, OtherTypes
<1>8. s = Loop => f.pc \in {"idle", "recon", "resolve"}  BY <1>5, Typed
<1>9. LocalStep(s, f)
  BY <1>1, <1>2, <1>4, <1>3, <1>5, <1>6, <1>7, <1>8 DEF LocalStep, Read, Platform, History, OtherTypes
<1>10. QED  BY <1>9, LocalKeeps

LEMMA RetryKeeps ==
    ASSUME FactsInv, NEW s \in Writers, Retry(s)
    PROVE  FactsInv'
<1> DEFINE f == [flow[s] EXCEPT !.seen = "", !.hid = FALSE, !.tries = flow[s].tries + 1]
<1>1. flow[s] \in Flow /\ Known(remote, flow[s]) /\ ~flow[s].fresh  BY Typed DEF Retry, Missed
<1>2. flow' = [flow EXCEPT ![s] = f]  BY DEF Retry
<1>3. /\ f \in Flow /\ f.pc = flow[s].pc /\ f.st = flow[s].st /\ f.kind = flow[s].kind /\ f.item = flow[s].item
      /\ f.rule = flow[s].rule /\ ~f.fresh
  <2> HIDE DEF f
  <2>1. f = [flow[s] EXCEPT !.seen = "", !.hid = FALSE, !.tries = flow[s].tries + 1]  BY DEF f
  <2>2. flow[s].tries \in 0 .. MaxTries - 1  BY <1>1 DEF Flow
  <2>3. flow[s].tries + 1 \in 0 .. MaxTries - 1  BY <2>2, OrderAssumption DEF Retry, Exhausted
  <2>4. QED  BY <1>1, <2>1, <2>3 DEF Flow
<1> HIDE DEF f
<1>4. Known(remote, f) /\ (s \in Slots /\ ~switched => Chose(f))
  BY <1>1, <1>3 DEF Known, Ruled, Chose, FactsInv, BestRules
<1>5. DeferredType'  BY DeferredKept DEF Retry, Platform
<1>6. flow[Loop].pc \in {"idle", "recon", "resolve"}  BY Typed
<1>7. Move(s, f)  BY <1>2, <1>3, <1>4, <1>5, <1>6 DEF Move, Retry, History
<1>8. QED  BY <1>7, MoveKeeps

LEMMA FailedKeeps ==
    ASSUME FactsInv, NEW s \in Writers, flow[s].pc \in Stages, Failed(s),
           UNCHANGED <<row, Platform, edited, switched, excused>>
    PROVE  FactsInv'
<1>1. Go(s, "idle") /\ flow[s] \in Flow /\ remote # "none"  BY Typed, IncomingIs DEF Failed
<1>2. recon' = recon \/ (recon = "none" /\ recon' = "pending")
  BY DEF Failed, Compensates, CreatePending
<1>3. flow[s].pc = "ship" => recon' # "none"
  BY DEF Failed, Compensates, CreatePending
<1>4. UNCHANGED deferred \/ GivesBack \/ Defers(flow[s]) \/ Finishes(flow[s])
  BY DEF Failed
<1>5. DeferredType'  BY <1>1, <1>4, DeferredKept DEF Platform
<1>6. QED  BY <1>1, <1>2, <1>3, <1>5, LeaveKeeps

LEMMA BreaksTwiceKeeps ==
    ASSUME FactsInv, NEW s \in Writers, BreaksTwice(s)
    PROVE  FactsInv'
<1>1. flow' = [flow EXCEPT ![s] = Idle] /\ Finishes(flow[s]) /\ flow[s] \in Flow
  BY Typed DEF BreaksTwice, Go
<1>2. DeferredType'  BY <1>1, DeferredKept DEF BreaksTwice, Platform
<1>3. RowType' /\ OtherTypes'
  BY Typed DEF BreaksTwice, RowType, OtherTypes, Platform, History
<1>4. LocalStep(s, Idle)
  BY <1>1, <1>2, <1>3, IdleIs DEF LocalStep, BreaksTwice, Platform, History
<1>5. QED  BY <1>4, LocalKeeps

-----------------------------------------------------------------------------
(* Steps that write the row and raise its version.                         *)

\* Nobody but the writer changes, except that what the others have read is no longer fresh.
RowStep(s, f) ==
    /\ Bump(s, f)
    /\ f \in Flow /\ Known(remote, f) /\ ~f.fresh
    /\ s = Loop => f.pc \in {"idle", "recon", "resolve"}
    /\ s \in Slots /\ ~switched => Chose(f)
    /\ row' \in Row /\ row'.there /\ remote # "none"
    /\ UNCHANGED <<Platform, deferred, recon, edited, switched>>
    /\ excused' \in BOOLEAN
    /\ ~excused' /\ ~edited =>
          ~excused /\ (row.status \in Advanced \/ f.pc = "resolve" \/ flow[s].pc = "ship" => row'.status \in Advanced)

LEMMA RowKeeps ==
    ASSUME FactsInv, NEW s \in Writers, NEW f, RowStep(s, f)
    PROVE  FactsInv'
<1> DEFINE stale(g) == [g EXCEPT !.fresh = FALSE]
<1>1. \A g \in Flow : /\ stale(g) \in Flow /\ ~stale(g).fresh /\ stale(g).pc = g.pc /\ stale(g).st = g.st
                      /\ stale(g).kind = g.kind /\ stale(g).item = g.item /\ stale(g).rule = g.rule
  BY DEF Flow
<1>2. flow \in [Writers -> Flow] /\ \A t \in Writers : flow[t] \in Flow /\ Known(remote, flow[t])  BY Typed
<1>3. /\ flow' \in [Writers -> Flow]
      /\ \A t \in Writers : flow'[t] = IF t = s THEN f ELSE stale(flow[t])
  BY <1>1, <1>2 DEF RowStep, Bump
<1> HIDE DEF stale
<1>4. Types'
  <2>1. \A t \in Writers : Known(remote', flow'[t])
    <3>1. \A g \in Flow : Known(remote, g) => Known(remote, stale(g))  BY <1>1 DEF Known, Ruled
    <3>2. QED  BY <1>2, <1>3, <3>1 DEF RowStep, Platform
  <2>2. flow'[Loop].pc \in {"idle", "recon", "resolve"}
    BY <1>1, <1>2, <1>3, SlotsAreNotTheLoop DEF RowStep, FactsInv, Types, FlowType
  <2>3. FlowType'  BY <1>3, <2>1, <2>2 DEF FlowType
  <2>4. QED  BY <2>3, Typed DEF RowStep, Types, RowType, DeferredType, OtherTypes, Platform
<1>5. FreshIsTrue'  BY <1>1, <1>2, <1>3 DEF FreshIsTrue, RowStep
<1>6. Recorded'
  <2> SUFFICES ASSUME ~excused', ~edited'
               PROVE  /\ recon' = "resolved" \/ flow'[Loop].pc = "resolve" => row'.status \in Advanced
                      /\ confirmed' => \/ row'.status \in Advanced \/ recon' = "pending"
                                       \/ \E t \in Slots : flow'[t].pc = "ship"
    BY DEF Recorded
  <2>1. ~excused /\ ~edited /\ recon' = recon /\ confirmed' = confirmed  BY DEF RowStep, Platform
  <2>2. row.status \in Advanced => row'.status \in Advanced  BY DEF RowStep
  <2>3. ASSUME recon' = "resolved" \/ flow'[Loop].pc = "resolve"  PROVE row'.status \in Advanced
    <3>1. CASE recon = "resolved" \/ flow[Loop].pc = "resolve"
      BY <3>1, <2>1, <2>2 DEF FactsInv, Recorded
    <3>2. CASE flow[Loop].pc # "resolve" /\ flow'[Loop].pc = "resolve"
      <4>1. s = Loop /\ f.pc = "resolve"  BY <3>2, <1>1, <1>2, <1>3, SlotsAreNotTheLoop
      <4>2. QED  BY <4>1, <2>1 DEF RowStep
    <3>3. QED  BY <2>1, <2>3, <3>1, <3>2
  <2>4. ASSUME confirmed', ~(row'.status \in Advanced), recon' # "pending"
        PROVE  \E t \in Slots : flow'[t].pc = "ship"
    <3>1. PICK t \in Slots : flow[t].pc = "ship"  BY <2>1, <2>2, <2>4 DEF FactsInv, Recorded
    <3>2. t # s  BY <3>1, <2>1, <2>4 DEF RowStep
    <3>3. QED  BY <3>1, <3>2, <1>1, <1>2, <1>3, SlotsAreNotTheLoop
  <2>5. QED  BY <2>3, <2>4
<1>7. BestRules'
  <2> SUFFICES ASSUME ~switched'
               PROVE  /\ rules' = Rules /\ \A t \in Slots : Chose(flow'[t])
                      /\ \A r \in runs' : r.rule \in Best(Rules, r.item)
    BY DEF BestRules
  <2>1. ~switched /\ rules' = rules /\ runs' = runs  BY DEF RowStep, Platform
  <2>2. \A t \in Slots : Chose(flow[t])  BY <2>1 DEF FactsInv, BestRules
  <2>3. \A g \in Flow : Chose(g) => Chose(stale(g))  BY <1>1 DEF Chose, Ruled
  <2>4. \A t \in Slots : Chose(flow'[t])
    BY <1>2, <1>3, <2>1, <2>2, <2>3, SlotsAreNotTheLoop DEF RowStep
  <2>5. QED  BY <2>1, <2>4 DEF FactsInv, BestRules
<1>8. QED  BY <1>4, <1>5, <1>6, <1>7 DEF FactsInv

\* shouldUpdateOrderStatus: what it lets past an advanced status, and what it means that "shipped" is refused.
LEMMA ShouldUpdateIs ==
    ASSUME NEW current \in Statuses, NEW incoming \in Statuses
    PROVE  /\ ShouldUpdate(current, incoming) /\ current \in Advanced => incoming \in Advanced \cup {"unknown"}
           /\ ShouldUpdate(current, incoming) /\ current \in {"completed", "cancelled"} => incoming # "shipped"
           /\ ~ShouldUpdate(current, "shipped") => current \in Advanced
BY DEF ShouldUpdate, Statuses, Editable, Advanced, Early

\* Neither an update of the row nor a batch ever takes an order back.
GoesForward == /\ row.status \in Advanced => row'.status \notin Early
               /\ row.status \in {"completed", "cancelled"} => row'.status # "shipped"

\* The write of an Upsert whose version is still the row's.
LEMMA WriteIs ==
    ASSUME FactsInv, NEW s \in Writers, Write(s)
    PROVE  /\ row' \in Row /\ row'.there = row.there
           /\ ~edited => /\ GoesForward
                         /\ flow[s].pc \in {"ship", "recon"} => row'.status \in Advanced
<1> DEFINE f == flow[s]
           new == IF Incoming(f) # "" /\ ShouldUpdate(f.seen, Incoming(f)) THEN Incoming(f) ELSE row.status
<1>1. f \in Flow /\ f.pc \in Stages /\ f.fresh /\ row \in Row /\ Incoming(f) \in Statuses \cup {""}
  BY Typed, IncomingIs DEF Write, Fresh
<1>2. row' = [row EXCEPT !.status = new, !.item = row.item \/ f.item,
                         !.full = row.full \/ f.pc \in {"save", "single"}, !.deleted = row.deleted /\ ~f.hid]
  BY DEF Write, Written
<1>3. new \in Statuses  BY <1>1 DEF Row
<1>4. f.item \in BOOLEAN /\ f.hid \in BOOLEAN  BY <1>1 DEF Flow
<1>5. ~edited => f.seen = row.status  BY <1>1 DEF FactsInv, FreshIsTrue
<1>6. f.pc \in {"ship", "recon"} => Incoming(f) = "shipped"  BY DEF Incoming
<1> HIDE DEF f
<1>7. row.status \in Statuses /\ (row.item \/ f.item) \in BOOLEAN /\ (row.full \/ f.pc \in {"save", "single"}) \in BOOLEAN
      /\ (row.deleted /\ ~f.hid) \in BOOLEAN
  BY <1>1, <1>4 DEF Row
<1>8. ASSUME ~edited
      PROVE  /\ row.status \in Advanced => new \notin Early
             /\ row.status \in {"completed", "cancelled"} => new # "shipped"
             /\ f.pc \in {"ship", "recon"} => new \in Advanced
  <2>1. f.seen = row.status /\ row.status \in Statuses /\ "shipped" \in Advanced  BY <1>5, <1>7, <1>8, EditableAreStatuses
  <2>2. CASE new = row.status /\ ~(Incoming(f) # "" /\ ShouldUpdate(row.status, Incoming(f)))
    <3>1. f.pc \in {"ship", "recon"} => row.status \in Advanced
      BY <2>1, <2>2, <1>6, ShouldUpdateIs
    <3>2. QED  BY <2>2, <3>1, EditableAreStatuses DEF Early
  <2>3. CASE new = Incoming(f) /\ Incoming(f) # "" /\ ShouldUpdate(row.status, Incoming(f))
    <3>1. new \in Statuses  BY <1>1, <2>3
    <3>2. row.status \in Advanced => new \in Advanced \cup {"unknown"}  BY <2>1, <2>3, <3>1, ShouldUpdateIs
    <3>3. row.status \in {"completed", "cancelled"} => new # "shipped"  BY <2>1, <2>3, <3>1, ShouldUpdateIs
    <3>4. f.pc \in {"ship", "recon"} => new = "shipped"  BY <2>3, <1>6
    <3>5. QED  BY <2>1, <3>2, <3>3, <3>4, AdvancedIs
  <2>4. QED  BY <2>1, <2>2, <2>3
<1> HIDE DEF new
<1>9. row' \in Row /\ row'.there = row.there /\ row'.status = new
  <2>1. row' = [there |-> row.there, status |-> new, item |-> row.item \/ f.item,
                full |-> row.full \/ f.pc \in {"save", "single"}, deleted |-> row.deleted /\ ~f.hid]
    BY <1>1, <1>2 DEF Row
  <2>2. row.there \in BOOLEAN  BY <1>1 DEF Row
  <2>3. QED  BY <1>3, <1>7, <2>1, <2>2 DEF Row
<1>10. QED  BY <1>8, <1>9 DEF GoesForward, f

LEMMA WriteKeeps ==
    ASSUME FactsInv, NEW s \in Writers, Write(s)
    PROVE  FactsInv'
<1> DEFINE pc == After(flow[s])
           f  == IF pc = "idle" THEN Idle ELSE Goes(flow[s], pc)
<1>1. /\ flow[s] \in Flow /\ flow[s].pc \in Stages /\ Known(remote, flow[s]) /\ remote # "none"
      /\ flow[s].fresh /\ flow[s].seen # ""
  BY Typed, IncomingIs DEF Write, Fresh
<1>2. pc \in {"idle", "merge", "detail", "match", "start", "mark", "resolve"}
  BY <1>1 DEF After, Stages
<1>3. /\ pc = "resolve" => flow[s].pc = "recon"
      /\ pc = "start" => flow[s].pc = "save" /\ flow[s].kind # "full"
      /\ pc = "match" => flow[s].pc = "save" /\ flow[s].kind = "full"
      /\ pc = "detail" => flow[s].pc = "prep"
      /\ pc = "merge" => flow[s].pc = "record"
  BY <1>1 DEF After, Stages
<1>4. s = Loop => pc = "resolve"
  BY <1>1, Typed DEF After, Stages
<1> HIDE DEF pc
<1>5. /\ f \in Flow /\ ~f.fresh /\ (pc = "idle" => f = Idle)
      /\ pc # "idle" => f.pc = pc /\ f.st = flow[s].st /\ f.kind = flow[s].kind /\ f.item = flow[s].item /\ f.rule = flow[s].rule
  <2>1. pc \in Points  BY <1>2 DEF Points
  <2>2. QED  BY <1>1, <2>1, GoesIs, IdleIs
<1>6. Bump(s, f)  BY DEF Write, pc
<1> HIDE DEF f
<1>7. Known(remote, f)  BY <1>1, <1>2, <1>3, <1>5, IdleIs DEF Known, Ruled, Stages
<1>8. ASSUME s \in Slots, ~switched PROVE Chose(f)
  <2>1. Chose(flow[s])  BY <1>8 DEF FactsInv, BestRules
  <2>2. QED  BY <2>1, <1>2, <1>3, <1>5, IdleIs DEF Chose, Ruled
<1>9. row' \in Row /\ row'.there
      /\ (~edited => /\ GoesForward
                     /\ flow[s].pc \in {"ship", "recon"} => row'.status \in Advanced)
  <2>1. row.there  BY <1>1 DEF FactsInv, FreshIsTrue
  <2>2. QED  BY <2>1, WriteIs
<1>10. excused' \in BOOLEAN /\ (~excused' => ~excused /\ ~(row.status \in Advanced /\ row'.status = "unknown"))
  BY Typed DEF Write, OtherTypes
<1>11. ASSUME ~excused', ~edited
       PROVE  row.status \in Advanced \/ f.pc = "resolve" \/ flow[s].pc = "ship" => row'.status \in Advanced
  <2>1. f.pc = "resolve" => flow[s].pc = "recon"  BY <1>3, <1>5, IdleIs
  <2>2. row.status \in Advanced => row'.status \in Advanced
    <3>1. row'.status \in Statuses  BY <1>9 DEF Row
    <3>2. QED  BY <3>1, <1>9, <1>10, <1>11, EditableAreStatuses DEF GoesForward
  <2>3. QED  BY <2>1, <2>2, <1>9, <1>11
<1>12. RowStep(s, f)
  BY <1>1, <1>4, <1>5, <1>6, <1>7, <1>8, <1>9, <1>10, <1>11 DEF RowStep, Write, Platform, History
<1>13. QED  BY <1>12, RowKeeps

\* upsertManyOrders: as Upsert for what it may replace, with the row of the transaction itself.
LEMMA BatchIs ==
    ASSUME FactsInv, NEW s \in Writers, NEW st \in Statuses, NEW full \in BOOLEAN, NEW pc \in {"idle", "scan"},
           remote # "none", s \in Slots, flow[s].pc \in {"found", "fetched"}, flow[s].st = st, Batch(s, st, full, pc),
           UNCHANGED <<Platform, History, deferred, recon, excused>>
    PROVE  FactsInv' /\ GoesForward
<1> DEFINE f == IF pc = "idle" THEN Idle ELSE Goes(flow[s], pc)
<1>1. flow[s] \in Flow /\ row \in Row /\ OtherTypes  BY Typed
<1>2. f \in Flow /\ ~f.fresh /\ Known(remote, f) /\ f.pc \notin {"resolve", "ship"} /\ Chose(f)
  <2>1. CASE pc = "idle"  BY <2>1, IdleIs
  <2>2. CASE pc = "scan"
    <3>1. pc \in Points  BY <2>2 DEF Points
    <3>2. f \in Flow /\ ~f.fresh /\ f.pc = "scan" /\ f.st = st  BY <1>1, <2>2, <3>1, GoesIs
    <3>3. QED  BY <3>2, EditableAreStatuses DEF Known, Ruled, Chose
  <2>3. QED  BY <2>1, <2>2
<1>3. Bump(s, f)  BY DEF Batch
<1> HIDE DEF f
<1>4. /\ BatchStatus(st) \in Statuses
      /\ row.there => /\ row.status \in Advanced => BatchStatus(st) \in Advanced
                      /\ row.status \in {"completed", "cancelled"} => BatchStatus(st) # "shipped"
  <2>1. row.status \in Statuses  BY <1>1 DEF Row
  <2>2. CASE BatchStatus(st) = row.status  BY <2>1, <2>2, EditableAreStatuses DEF Advanced
  <2>3. CASE BatchStatus(st) = st /\ (row.there => st # "unknown" /\ ShouldUpdate(row.status, st))
    <3>1. row.there /\ row.status \in Advanced => st \in Advanced  BY <2>1, <2>3, ShouldUpdateIs
    <3>2. row.there /\ row.status \in {"completed", "cancelled"} => st # "shipped"  BY <2>1, <2>3, ShouldUpdateIs
    <3>3. QED  BY <2>3, <3>1, <3>2
  <2>4. QED  BY <2>2, <2>3 DEF BatchStatus
<1>5. ~row.there => row.status = "unknown"  BY Typed, NoRowIs DEF RowType
<1>6. row.item \in BOOLEAN /\ row.full \in BOOLEAN  BY <1>1 DEF Row
<1>7. row' \in Row /\ row'.there /\ row'.status = BatchStatus(st)
  <2> DEFINE new == BatchStatus(st)
  <2>1. row' = [there |-> TRUE, status |-> new, item |-> row.item \/ ~full, full |-> row.full \/ full, deleted |-> FALSE]
    BY DEF Batch
  <2>2. new \in Statuses  BY <1>4
  <2> HIDE DEF new
  <2>3. row' \in Row /\ row'.there /\ row'.status = new  BY <2>1, <2>2, <1>6 DEF Row
  <2>4. QED  BY <2>3 DEF new
<1>8. row.status \in Advanced => row'.status \in Advanced  BY <1>4, <1>5, <1>7, AdvancedIs
<1>9. row.status \in {"completed", "cancelled"} => row'.status # "shipped"
  BY <1>4, <1>5, <1>7
<1>10. RowStep(s, f)
  BY <1>1, <1>2, <1>3, <1>7, <1>8, SlotsAreNotTheLoop DEF RowStep, History, OtherTypes
<1>11. QED  BY <1>8, <1>9, <1>10, RowKeeps, AdvancedIs DEF GoesForward

LEMMA FoundKeeps ==
    ASSUME FactsInv, NEW s \in Slots, Found(s) \/ Fetched(s)
    PROVE  FactsInv' /\ GoesForward
<1>1. s \in Writers /\ flow[s] \in Flow /\ Known(remote, flow[s])  BY Typed, SlotsAreNotTheLoop
<1>2. flow[s].pc \in {"found", "fetched"}  BY DEF Found, Fetched
<1>3. flow[s].st \in Statuses /\ remote # "none"  BY <1>1, <1>2 DEF Known, Ruled, Flow
<1>4. CASE Found(s)
  <2>1. Batch(s, flow[s].st, FALSE, "scan")  BY <1>4 DEF Found
  <2>2. QED  BY <1>1, <1>2, <1>3, <1>4, <2>1, BatchIs DEF Found
<1>5. CASE Fetched(s)
  <2>1. Batch(s, flow[s].st, TRUE, "idle")  BY <1>5 DEF Fetched
  <2>2. QED  BY <1>1, <1>2, <1>3, <1>5, <2>1, BatchIs DEF Fetched
<1>6. QED  BY <1>4, <1>5

-----------------------------------------------------------------------------
(* The paid task.                                                          *)

\* A slot moves on to a new state of its task.
LEMMA SlotMoves ==
    ASSUME FactsInv, NEW s \in Slots, NEW f \in Flow, flow' = [flow EXCEPT ![s] = f],
           ~f.fresh, Known(remote, f), ~switched => Chose(f), flow[s].pc # "ship",
           UNCHANGED <<row, Platform, edited, switched, excused, recon>>, DeferredType'
    PROVE  FactsInv'
<1>1. s \in Writers /\ s # Loop  BY SlotsAreNotTheLoop
<1>2. Move(s, f)  BY <1>1 DEF Move
<1>3. QED  BY <1>1, <1>2, MoveKeeps

\* A slot at a point of its task, and what it has read and chosen.
LEMMA AtWork ==
    ASSUME FactsInv, NEW s \in Slots, flow[s].pc \notin {"idle", "listed"}
    PROVE  /\ s \in Writers /\ flow[s] \in Flow /\ Known(remote, flow[s]) /\ remote # "none" /\ flow[s].st \in Statuses \cup {""}
           /\ flow[s].item \in BOOLEAN /\ row \in Row /\ row.status \in Statuses /\ row.item \in BOOLEAN
           /\ ~switched => Chose(flow[s]) /\ rules = Rules
           /\ rules \subseteq Rules
<1>1. s \in Writers /\ flow[s] \in Flow /\ Known(remote, flow[s]) /\ row \in Row  BY Typed, SlotsAreNotTheLoop
<1>2. QED  BY <1>1, Typed DEF Known, Ruled, Flow, Row, FactsInv, BestRules, OtherTypes

LEMMA MatchesAreRules == rules \subseteq Rules => \A item : \A r \in Matches(item) : r \in Rules /\ r # 0
BY OrderAssumption DEF Matches, Rules

LEMMA MergeKeeps ==
    ASSUME FactsInv, NEW s \in Slots, Merge(s)
    PROVE  FactsInv'
<1> DEFINE f    == flow[s]
           st   == IF f.st = "" /\ Visible THEN row.status ELSE f.st
           item == f.item \/ (Visible /\ row.item)
           task == [f EXCEPT !.st = st, !.own = st, !.item = item]
<1>1. f.pc = "merge" /\ f.pc \notin {"idle", "listed"} /\ f.pc # "ship"  BY DEF Merge
<1>2. /\ s \in Writers /\ f \in Flow /\ remote # "none" /\ f.st \in Statuses \cup {""} /\ f.item \in BOOLEAN
      /\ row.status \in Statuses /\ row.item \in BOOLEAN /\ (~switched => Chose(f) /\ rules = Rules) /\ rules \subseteq Rules
  BY <1>1, AtWork
<1>3. st \in Statuses \cup {""} /\ item \in BOOLEAN  BY <1>2
<1>4. /\ \/ Defers(task) /\ Go(s, "idle")
         \/ Finishes(f) /\ Go(s, "idle")
         \/ \E r \in Matches(item) : flow' = [flow EXCEPT ![s] = [Goes(task, "prep") EXCEPT !.rule = r]] /\ UNCHANGED deferred
      /\ UNCHANGED <<row, Platform, edited, switched, recon, excused>>
  BY DEF Merge, History
<1> HIDE DEF st, item
<1>5. task \in Flow /\ task.st = st /\ task.item = item /\ task.kind = f.kind
  <2> HIDE DEF f
  <2>1. QED  BY <1>2, <1>3 DEF Flow
<1> HIDE DEF task
<1>6. CASE (Defers(task) \/ Finishes(f)) /\ Go(s, "idle")
  <2>1. DeferredType'  BY <1>2, <1>4, <1>5, <1>6, DeferredKept DEF Platform
  <2>2. QED  BY <1>1, <1>2, <1>4, <1>6, <2>1, LeaveKeeps
<1>7. ASSUME NEW r \in Matches(item), UNCHANGED deferred,
             flow' = [flow EXCEPT ![s] = [Goes(task, "prep") EXCEPT !.rule = r]]
      PROVE  FactsInv'
  <2> DEFINE g == [Goes(task, "prep") EXCEPT !.rule = r]
  <2>1. "prep" \in Points /\ r \in Rules \cup {0} /\ r # 0  BY <1>2, MatchesAreRules DEF Points
  <2>2. g \in Flow /\ g.pc = "prep" /\ ~g.fresh /\ g.rule = r /\ g.kind = f.kind /\ g.st = st /\ g.item = item
    BY <1>5, <2>1, GoesWithRule
  <2> HIDE DEF g
  <2>3. Known(remote, g)  BY <1>2, <1>3, <2>1, <2>2, EditableAreStatuses DEF Known, Ruled
  <2>4. ~switched => Chose(g)
    <3>1. ~switched => r \in Best(Rules, item) /\ f.kind # "full"  BY <1>1, <1>2, <1>7, MatchesAreBest DEF Chose, Ruled
    <3>2. QED  BY <2>2, <3>1 DEF Chose, Ruled
  <2>5. DeferredType'  BY <1>4, <1>7, DeferredKept DEF Platform
  <2>6. QED  BY <1>1, <1>4, <1>7, <2>2, <2>3, <2>4, <2>5, SlotMoves DEF g
<1>8. QED  BY <1>4, <1>6, <1>7

\* A slot moves on with a status it has read or been told.
LEMMA SlotLearns ==
    ASSUME FactsInv, NEW s \in Slots, flow[s].pc \notin {"idle", "ship"}, remote # "none",
           NEW pc \in {"save", "found", "fetch", "fetched", "single"}, pc = "save" => flow[s].pc = "detail",
           NEW st \in Statuses \cup {""}, pc # "save" => st # "",
           flow' = [flow EXCEPT ![s] = [Goes(flow[s], pc) EXCEPT !.st = st]],
           UNCHANGED <<row, Platform, edited, switched, excused, recon, deferred>>
    PROVE  FactsInv'
<1> DEFINE g == [Goes(flow[s], pc) EXCEPT !.st = st]
<1>1. s \in Writers /\ flow[s] \in Flow /\ Known(remote, flow[s]) /\ (~switched => Chose(flow[s]))
  BY Typed, SlotsAreNotTheLoop DEF FactsInv, BestRules
<1>2. /\ g \in Flow /\ g.pc = pc /\ ~g.fresh /\ g.rule = flow[s].rule /\ g.kind = flow[s].kind
      /\ g.st = st /\ g.item = flow[s].item
  <2>1. st \in Statuses \cup {"", "none"} /\ pc \in Points  BY DEF Points
  <2>2. QED  BY <1>1, <2>1, NoTries DEF Goes, Flow
<1> HIDE DEF g
<1>3. Known(remote, g)  BY <1>1, <1>2, EditableAreStatuses DEF Known, Ruled
<1>4. ~switched => Chose(g)  BY <1>1, <1>2 DEF Chose, Ruled
<1>5. DeferredType'  BY DeferredKept DEF Platform
<1>6. QED  BY <1>2, <1>3, <1>4, <1>5, SlotMoves DEF g

LEMMA DetailKeeps ==
    ASSUME FactsInv, NEW s \in Slots, Detail(s)
    PROVE  FactsInv'
<1>1. flow[s].pc = "detail" /\ flow[s].pc \notin {"idle", "listed"}  BY DEF Detail
<1>2. row.status \in Statuses /\ remote \in Statuses /\ flow[s].st \in Statuses \cup {""} /\ remote # "none"
  BY <1>1, AtWork, Typed, EditableAreStatuses
<1>3. PICK st \in Statuses \cup {""} : flow' = [flow EXCEPT ![s] = [Goes(flow[s], "save") EXCEPT !.st = st]]
  BY <1>2 DEF Detail
<1>4. QED  BY <1>1, <1>2, <1>3, SlotLearns DEF Detail, History

\* A slot that gives up, with or without its deferred task.
LEMMA SlotLeaves ==
    ASSUME FactsInv, NEW s \in Slots, flow[s].pc \notin {"idle", "ship"}, Go(s, "idle"),
           UNCHANGED <<row, Platform, edited, switched, excused, recon>>,
           \/ UNCHANGED deferred \/ GivesBack \/ Finishes(flow[s])
           \/ flow[s].pc # "listed" /\ Defers(flow[s])
    PROVE  FactsInv'
<1>1. s \in Writers /\ flow[s] \in Flow /\ Known(remote, flow[s])  BY Typed, SlotsAreNotTheLoop
<1>2. flow[s].pc # "listed" => remote # "none"  BY <1>1 DEF Known, Ruled
<1>3. DeferredType'  BY <1>1, <1>2, DeferredKept DEF Platform
<1>4. QED  BY <1>1, <1>3, LeaveKeeps

LEMMA DetailFailsKeeps ==
    ASSUME FactsInv, NEW s \in Slots, DetailFails(s)
    PROVE  FactsInv'
<1>1. UNCHANGED deferred \/ GivesBack \/ Defers(flow[s])  BY DEF DetailFails
<1>2. QED  BY <1>1, SlotLeaves DEF DetailFails, History

LEMMA MatchFullKeeps ==
    ASSUME FactsInv, NEW s \in Slots, MatchFull(s)
    PROVE  FactsInv'
<1>1. flow[s].pc = "match" /\ flow[s].pc \notin {"idle", "listed"} /\ flow[s].pc \notin {"idle", "ship"}  BY DEF MatchFull
<1>2. CASE Go(s, "idle")  BY <1>1, <1>2, SlotLeaves DEF MatchFull, History
<1>3. ASSUME NEW r \in Matches(TRUE), flow' = [flow EXCEPT ![s] = [Goes(flow[s], "start") EXCEPT !.rule = r]]
      PROVE  FactsInv'
  <2> DEFINE g == [Goes(flow[s], "start") EXCEPT !.rule = r]
  <2>1. "start" \in Points /\ r \in Rules \cup {0} /\ r # 0 /\ flow[s] \in Flow  BY <1>1, AtWork, MatchesAreRules DEF Points
  <2>2. /\ g \in Flow /\ g.pc = "start" /\ ~g.fresh /\ g.rule = r /\ g.st = flow[s].st /\ g.item = flow[s].item
    BY <2>1, GoesWithRule
  <2> HIDE DEF g
  <2>3. Known(remote, g)  BY <1>1, <2>1, <2>2, AtWork, EditableAreStatuses DEF Known, Ruled
  <2>4. ASSUME ~switched PROVE Chose(g)
    <3>1. r \in Best(Rules, TRUE) /\ Chose(flow[s])  BY <1>1, <1>3, <2>4, AtWork, MatchesAreBest
    <3>2. QED  BY <1>1, <2>2, <3>1 DEF Chose, Ruled
  <2>5. DeferredType'  BY DeferredKept DEF MatchFull, Platform
  <2>6. QED  BY <1>1, <1>3, <2>2, <2>3, <2>4, <2>5, SlotMoves DEF g, MatchFull, History
<1>4. QED  BY <1>2, <1>3 DEF MatchFull

\* A slot moves on along its task, which keeps what it knows and its rule.
LEMMA SlotGoes ==
    ASSUME FactsInv, NEW s \in Slots, flow[s].pc \notin {"idle", "listed"},
           NEW pc \in {"confirm", "ship"}, Go(s, pc)
    PROVE  \E f \in Flow : /\ flow' = [flow EXCEPT ![s] = f] /\ f.pc = pc /\ ~f.fresh
                           /\ Known(remote, f) /\ Chose(f)
<1> DEFINE f == Goes(flow[s], pc)
<1>1. pc \in Points /\ flow[s] \in Flow  BY AtWork DEF Points
<1>2. f \in Flow /\ f.pc = pc /\ ~f.fresh /\ f.st = flow[s].st
  BY <1>1, GoesIs
<1>3. flow' = [flow EXCEPT ![s] = f]  BY DEF Go
<1> HIDE DEF f
<1>4. Known(remote, f) /\ Chose(f)  BY <1>2, AtWork, EditableAreStatuses DEF Known, Ruled, Chose
<1>5. QED  BY <1>2, <1>3, <1>4

LEMMA StartKeeps ==
    ASSUME FactsInv, NEW s \in Slots, Start(s)
    PROVE  FactsInv'
<1>1. flow[s].pc = "start" /\ flow[s].pc \notin {"idle", "listed"} /\ flow[s].pc \notin {"idle", "ship"}  BY DEF Start
<1>2. CASE Go(s, "idle") /\ Finishes(flow[s]) /\ UNCHANGED runs
  BY <1>1, <1>2, SlotLeaves DEF Start, History, Platform
<1>3. CASE Go(s, "confirm") /\ UNCHANGED deferred /\ runs' = runs \cup {[rule |-> flow[s].rule, item |-> flow[s].item]}
  <2>1. PICK f \in Flow : /\ flow' = [flow EXCEPT ![s] = f] /\ f.pc = "confirm" /\ ~f.fresh
                          /\ Known(remote, f) /\ Chose(f)
    BY <1>1, <1>3, SlotGoes
  <2>2. flow[s].item \in BOOLEAN /\ s \in Writers /\ s # Loop /\ flow[s].rule \in Rules
    BY <1>1, AtWork, SlotsAreNotTheLoop DEF Known, Ruled, Flow
  <2> DEFINE new == [rule |-> flow[s].rule, item |-> flow[s].item]
  <2>3. new \in Run /\ new.rule = flow[s].rule /\ new.item = flow[s].item  BY <2>2 DEF Run
  <2>4. runs' = runs \cup {new}  BY <1>3
  <2> HIDE DEF new
  <2>5. ~switched => new.rule \in Best(Rules, new.item)  BY <1>1, <2>3, AtWork DEF Chose, Ruled
  <2>6. UNCHANGED <<row, remote, rules, confirmed, edited, switched, recon, excused, deferred>>
    BY <1>3 DEF Start, History
  <2>7. RowType' /\ DeferredType' /\ OtherTypes'
    BY <2>3, <2>4, <2>6, Typed DEF RowType, DeferredType, OtherTypes
  <2>8. LocalStep(s, f)
    BY <1>1, <2>1, <2>2, <2>4, <2>5, <2>6, <2>7 DEF LocalStep
  <2>9. QED  BY <2>2, <2>8, LocalKeeps
<1>4. QED  BY <1>2, <1>3 DEF Start

LEMMA ConfirmKeeps ==
    ASSUME FactsInv, NEW s \in Slots, Confirm(s)
    PROVE  FactsInv'
<1>1. flow[s].pc = "confirm" /\ flow[s].pc \notin {"idle", "listed"} /\ Go(s, "ship")  BY DEF Confirm
<1>2. PICK f \in Flow : /\ flow' = [flow EXCEPT ![s] = f] /\ f.pc = "ship" /\ ~f.fresh
                        /\ Known(remote, f) /\ Chose(f)
  BY <1>1, SlotGoes
<1>3. s \in Writers /\ s # Loop /\ remote # "none"  BY <1>1, AtWork, SlotsAreNotTheLoop
<1>4. remote' \in {remote, "shipped"} /\ remote' \in Editable /\ remote' # "none"
  BY <1>3, Typed, EditableAreStatuses DEF Confirm, Editable
<1>5. UNCHANGED <<row, rules, runs, edited, switched, recon, excused, deferred>> /\ confirmed'
  BY DEF Confirm, History
<1>6. RowType' /\ DeferredType' /\ OtherTypes'
  BY <1>4, <1>5, Typed DEF RowType, DeferredType, OtherTypes
<1>7. Known(remote', f)  BY <1>2, <1>4 DEF Known
<1>8. LocalStep(s, f)
  BY <1>1, <1>2, <1>3, <1>4, <1>5, <1>6, <1>7 DEF LocalStep
<1>9. QED  BY <1>3, <1>8, LocalKeeps

LEMMA UnconfirmedKeeps ==
    ASSUME FactsInv, NEW s \in Slots, Unconfirmed(s)
    PROVE  FactsInv'
<1>1. flow[s].pc = "confirm"  BY DEF Unconfirmed
<1>2. QED  BY <1>1, SlotLeaves DEF Unconfirmed, History

LEMMA AnswerLostKeeps ==
    ASSUME FactsInv, NEW s \in Slots, AnswerLost(s)
    PROVE  FactsInv'
<1>1. /\ flow[s].pc = "confirm" /\ flow' = [flow EXCEPT ![s] = Idle] /\ Finishes(flow[s]) /\ remote' = "shipped"
      /\ UNCHANGED <<row, rules, runs, confirmed, edited, switched, recon, excused>>
  BY DEF AnswerLost, Go, History
<1>2. s \in Writers /\ s # Loop /\ flow[s] \in Flow  BY Typed, SlotsAreNotTheLoop
<1>3. DeferredType'
  <2>1. deferred' \in {NoTask, deferred}  BY <1>1 DEF Finishes
  <2>2. NoTask \in Deferral  BY DEF NoTask, Deferral
  <2>3. QED  BY <1>1, <2>1, <2>2, Typed DEF DeferredType
<1>4. "shipped" \in Editable  BY DEF Editable, Advanced
<1>5. RowType' /\ OtherTypes'  BY <1>1, <1>4, Typed DEF RowType, OtherTypes
<1>6. LocalStep(s, Idle)  BY <1>1, <1>2, <1>3, <1>5, IdleIs DEF LocalStep
<1>7. QED  BY <1>2, <1>6, LocalKeeps

LEMMA MarkKeeps ==
    ASSUME FactsInv, NEW s \in Slots, Mark(s)
    PROVE  FactsInv'
<1>1. flow[s].pc = "mark" /\ s \in Writers /\ flow[s] \in Flow  BY Typed, SlotsAreNotTheLoop DEF Mark
<1>2. recon' = recon \/ (recon = "none" /\ recon' = "pending")  BY DEF Mark, CreatePending
<1>3. DeferredType'  BY <1>1, DeferredKept DEF Mark, Platform
<1>4. QED  BY <1>1, <1>2, <1>3, LeaveKeeps DEF Mark, History

-----------------------------------------------------------------------------
(* The sync, the reconciliation, and who begins what.                      *)

LEMMA ListedKeeps ==
    ASSUME FactsInv, NEW s \in Slots, Listed(s)
    PROVE  FactsInv' /\ row'.status = row.status
<1>1. /\ flow[s].pc = "listed" /\ s \in Writers /\ s # Loop /\ flow[s] \in Flow /\ Known(remote, flow[s])
      /\ row \in Row /\ UNCHANGED <<Platform, edited, switched, deferred, recon, excused>>
  BY Typed, SlotsAreNotTheLoop DEF Listed, History
<1>2. CASE Go(s, "idle") /\ row' = [row EXCEPT !.deleted = @ \/ row.there]
  <2>1. row.there \in BOOLEAN /\ row.deleted \in BOOLEAN /\ (row.deleted \/ row.there) \in BOOLEAN  BY <1>1 DEF Row
  <2>2. row' \in Row /\ row'.there = row.there /\ row'.status = row.status  BY <1>1, <1>2, <2>1 DEF Row
  <2>3. ~row.there => row' = NoRow
    <3>1. ASSUME ~row.there PROVE row' = NoRow
      <4>1. row = NoRow  BY <3>1, Typed DEF RowType
      <4>2. QED  BY <1>2, <3>1, <4>1 DEF NoRow
    <3>2. QED  BY <3>1
  <2>4. RowType' /\ DeferredType' /\ OtherTypes'
    BY <1>1, <2>2, <2>3, Typed DEF RowType, DeferredType, OtherTypes, Platform
  <2>5. flow' = [flow EXCEPT ![s] = Idle]  BY <1>2 DEF Go
  <2>6. LocalStep(s, Idle)  BY <1>1, <2>2, <2>4, <2>5, IdleIs DEF LocalStep, Platform
  <2>7. QED  BY <1>1, <2>2, <2>6, LocalKeeps
<1>3. CASE flow[s].st # "none" /\ UNCHANGED row
           /\ \E answer \in {flow[s].st, "unknown"} :
                flow' = [flow EXCEPT ![s] = [Goes(flow[s], "found") EXCEPT
                             !.st = IF answer = "unknown" /\ Visible THEN row.status ELSE answer]]
  <2>1. flow[s].st \in Statuses /\ remote # "none"  BY <1>1, <1>3 DEF Known, Flow
  <2>2. row.status \in Statuses /\ "unknown" \in Statuses  BY <1>1 DEF Row, Statuses
  <2>3. PICK st \in Statuses : flow' = [flow EXCEPT ![s] = [Goes(flow[s], "found") EXCEPT !.st = st]]
    BY <1>3, <2>1, <2>2
  <2>4. st # ""  BY EditableAreStatuses
  <2>5. QED  BY <1>1, <1>3, <2>1, <2>3, <2>4, SlotLearns
<1>4. QED  BY <1>2, <1>3 DEF Listed

LEMMA ScanKeeps ==
    ASSUME FactsInv, NEW s \in Slots, Scan(s)
    PROVE  FactsInv'
<1>1. flow[s].pc = "scan" /\ flow[s].pc \notin {"idle", "ship"}  BY DEF Scan
<1>2. CASE Go(s, "idle")  BY <1>1, <1>2, SlotLeaves DEF Scan, History
<1>3. CASE Visible /\ flow' = [flow EXCEPT ![s] = [Goes(flow[s], "fetch") EXCEPT !.st = row.status]]
  <2>1. row.status \in Statuses /\ row.status # "" /\ remote # "none"
    BY <1>3, Typed, EditableAreStatuses DEF RowType, Row, Visible
  <2>2. QED  BY <1>1, <1>3, <2>1, SlotLearns DEF Scan, History
<1>4. QED  BY <1>2, <1>3 DEF Scan

LEMMA FetchKeeps ==
    ASSUME FactsInv, NEW s \in Slots, Fetch(s)
    PROVE  FactsInv'
<1>1. flow[s].pc = "fetch" /\ flow[s].pc \notin {"idle", "ship"} /\ flow[s].pc \notin {"idle", "listed"}  BY DEF Fetch
<1>2. CASE Go(s, "idle")  BY <1>1, <1>2, SlotLeaves DEF Fetch, History
<1>3. CASE \E st \in {remote, flow[s].st} :
             flow' = [flow EXCEPT ![s] = [Goes(flow[s], IF flow[s].kind = "single" THEN "single" ELSE "fetched") EXCEPT !.st = st]]
  <2>1. remote \in Statuses /\ flow[s].st \in Statuses /\ remote # "none"
    BY <1>1, AtWork, Typed, EditableAreStatuses DEF Known
  <2>2. PICK st \in Statuses, pc \in {"single", "fetched"} :
             flow' = [flow EXCEPT ![s] = [Goes(flow[s], pc) EXCEPT !.st = st]]
    BY <1>3, <2>1
  <2>3. st # ""  BY EditableAreStatuses
  <2>4. QED  BY <1>1, <2>1, <2>2, <2>3, SlotLearns DEF Fetch, History
<1>4. QED  BY <1>2, <1>3 DEF Fetch

LEMMA LookKeeps ==
    ASSUME FactsInv, Look
    PROVE  FactsInv'
<1> DEFINE f == [Idle EXCEPT !.kind = "recon", !.pc = "recon"]
<1>1. f \in Flow /\ f.pc = "recon" /\ ~f.fresh /\ f.st = "" BY NoTries DEF Idle, Flow, Points
<1>2. flow' = [flow EXCEPT ![Loop] = f] /\ flow[Loop].pc = "idle"  BY DEF Look
<1> HIDE DEF f
<1>3. remote # "none"  BY Typed DEF Look, Due, Visible, RowType
<1>4. Known(remote, f)  BY <1>1, <1>3 DEF Known, Ruled
<1>5. DeferredType'  BY DeferredKept DEF Look, Platform
<1>6. Move(Loop, f)  BY <1>1, <1>2, <1>4, <1>5, SlotsAreNotTheLoop DEF Move, Look, History
<1>7. QED  BY <1>6, MoveKeeps, SlotsAreNotTheLoop

LEMMA ResolveKeeps ==
    ASSUME FactsInv, Resolve
    PROVE  FactsInv'
<1>1. flow[Loop].pc = "resolve" /\ flow' = [flow EXCEPT ![Loop] = Idle] /\ recon' = "resolved"
      /\ UNCHANGED <<row, Platform, edited, switched, deferred, excused>> /\ Loop \in Writers
  BY SlotsAreNotTheLoop DEF Resolve, Go, History
<1>2. RowType' /\ DeferredType' /\ OtherTypes'
  BY <1>1, Typed DEF RowType, DeferredType, OtherTypes, Platform
<1>3. LocalStep(Loop, Idle)  BY <1>1, <1>2, IdleIs, Typed, SlotsAreNotTheLoop DEF LocalStep, Platform, OtherTypes
<1>4. QED  BY <1>1, <1>3, LocalKeeps

\* A slot begins: the new task knows no more than it is given.
LEMMA BeginKeeps ==
    ASSUME FactsInv, NEW s \in Slots, NEW kind \in AllKinds, NEW f \in Flow, Begins(s, kind, f), ~f.fresh,
           UNCHANGED <<row, Platform, edited, switched, excused, recon>>, DeferredType',
           f.pc \in {"record", "prep", "confirm", "listed", "fetch"},
           f.st # "none" \/ f.pc # "listed" => remote # "none",
           f.st = "none" => f.pc = "listed",
           f.st = "" => f.pc \in {"record", "confirm"},
           f.pc = "prep" => kind = "full" /\ f.item,
           f.pc = "record" => kind # "full"
    PROVE  FactsInv'
<1> DEFINE g == [f EXCEPT !.kind = kind]
<1>1. flow' = [flow EXCEPT ![s] = g] /\ flow[s].pc = "idle"  BY DEF Begins
<1>2. g \in Flow /\ g.pc = f.pc /\ ~g.fresh /\ g.st = f.st /\ g.kind = kind /\ g.item = f.item
  BY DEF Flow
<1> HIDE DEF g
<1>3. Known(remote, g) /\ Chose(g)  BY <1>2 DEF Known, Ruled, Chose
<1>4. QED  BY <1>1, <1>2, <1>3, SlotMoves

LEMMA EventKeeps ==
    ASSUME FactsInv, NEW s \in Slots, Event(s)
    PROVE  FactsInv'
<1>1. PICK item \in BOOLEAN : Begins(s, "event", [Idle EXCEPT !.pc = "record", !.item = item])  BY DEF Event
<1> DEFINE f == [Idle EXCEPT !.pc = "record", !.item = item]
<1>2. f \in Flow /\ f.pc = "record" /\ f.st = "" /\ ~f.fresh  BY NoTries DEF Idle, Flow, Points
<1>3. Begins(s, "event", f)  BY <1>1
<1> HIDE DEF f
<1>4. DeferredType'  BY DeferredKept DEF Event, Platform
<1>5. "event" \in AllKinds /\ remote # "none"  BY DEF AllKinds, Event
<1>6. QED  BY <1>2, <1>3, <1>4, <1>5, BeginKeeps DEF Event, History

LEMMA ReplayKeeps ==
    ASSUME FactsInv, NEW s \in Slots, Replay(s)
    PROVE  FactsInv'
<1>1. deferred \in Deferral /\ deferred.at = "waiting" /\ remote # "none" /\ deferred' = [deferred EXCEPT !.at = "held"]
  BY Typed DEF Replay, DeferredType
<1>2. deferred.st \in Statuses \cup {""} /\ deferred.item \in BOOLEAN /\ deferred.st # "none"
  BY <1>1, EditableAreStatuses DEF Deferral
<1> DEFINE f == [Idle EXCEPT !.pc = "record", !.st = deferred.st, !.own = deferred.st, !.item = deferred.item]
<1>3. f \in Flow /\ f.pc = "record" /\ f.st = deferred.st /\ ~f.fresh  BY <1>2, NoTries DEF Idle, Flow, Points
<1>4. Begins(s, "replay", f)  BY DEF Replay
<1> HIDE DEF f
<1>5. DeferredType'
  <2>1. deferred' \in Deferral  BY <1>1 DEF Deferral
  <2>2. QED  BY <1>1, <2>1 DEF DeferredType, Replay, Platform
<1>6. "replay" \in AllKinds  BY DEF AllKinds
<1>7. QED  BY <1>1, <1>2, <1>3, <1>4, <1>5, <1>6, BeginKeeps DEF Replay, History

LEMMA ByHandKeeps ==
    ASSUME FactsInv, NEW s \in Slots, ByHand(s)
    PROVE  FactsInv'
<1>1. row \in Row /\ row.status = "pending_ship" /\ row.status \in Statuses /\ row.item \in BOOLEAN /\ remote # "none"
  BY Typed DEF ByHand, Visible, RowType, Row
<1>2. DeferredType'  BY DeferredKept DEF ByHand, Platform
<1>3. "full" \in AllKinds /\ "status" \in AllKinds  BY DEF AllKinds
<1>4. CASE Begins(s, "full", [Idle EXCEPT !.pc = "prep", !.st = row.status, !.own = row.status, !.item = TRUE])
  <2> DEFINE f == [Idle EXCEPT !.pc = "prep", !.st = row.status, !.own = row.status, !.item = TRUE]
  <2>1. f \in Flow /\ f.pc = "prep" /\ f.st = "pending_ship" /\ f.item /\ ~f.fresh  BY <1>1, NoTries DEF Idle, Flow, Points
  <2>2. Begins(s, "full", f)  BY <1>4
  <2> HIDE DEF f
  <2>3. QED  BY <1>1, <1>2, <1>3, <2>1, <2>2, BeginKeeps DEF ByHand, History
<1>5. CASE Begins(s, "status", [Idle EXCEPT !.pc = "confirm", !.item = row.item])
  <2> DEFINE f == [Idle EXCEPT !.pc = "confirm", !.item = row.item]
  <2>1. f \in Flow /\ f.pc = "confirm" /\ f.st = "" /\ ~f.fresh  BY <1>1, NoTries DEF Idle, Flow, Points
  <2>2. Begins(s, "status", f)  BY <1>5
  <2> HIDE DEF f
  <2>3. QED  BY <1>1, <1>2, <1>3, <2>1, <2>2, BeginKeeps DEF ByHand, History
<1>6. QED  BY <1>4, <1>5 DEF ByHand

LEMMA RefreshKeeps ==
    ASSUME FactsInv, NEW s \in Slots, Refresh(s)
    PROVE  FactsInv'
<1>1. DeferredType'  BY DeferredKept DEF Refresh, Platform
<1>2. "refresh" \in AllKinds /\ "single" \in AllKinds  BY DEF AllKinds
<1>3. remote \in Statuses \cup {"", "none"} /\ remote # ""  BY Typed, EditableAreStatuses
<1>4. CASE Begins(s, "refresh", [Idle EXCEPT !.pc = "listed", !.st = remote])
  <2> DEFINE f == [Idle EXCEPT !.pc = "listed", !.st = remote]
  <2>1. f \in Flow /\ f.pc = "listed" /\ f.st = remote /\ ~f.fresh  BY <1>3, NoTries DEF Idle, Flow, Points
  <2>2. Begins(s, "refresh", f)  BY <1>4
  <2> HIDE DEF f
  <2>3. QED  BY <1>1, <1>2, <1>3, <2>1, <2>2, BeginKeeps DEF Refresh, History
<1>5. CASE Visible /\ Begins(s, "single", [Idle EXCEPT !.pc = "fetch", !.st = row.status])
  <2> DEFINE f == [Idle EXCEPT !.pc = "fetch", !.st = row.status]
  <2>1. row.status \in Statuses /\ remote # "none" /\ row.status \notin {"", "none"}
    BY <1>5, Typed, EditableAreStatuses DEF RowType, Row, Visible
  <2>2. f \in Flow /\ f.pc = "fetch" /\ f.st = row.status /\ ~f.fresh  BY <2>1, NoTries DEF Idle, Flow, Points
  <2>3. Begins(s, "single", f)  BY <1>5
  <2> HIDE DEF f
  <2>4. QED  BY <1>1, <1>2, <2>1, <2>2, <2>3, BeginKeeps DEF Refresh, History
<1>6. QED  BY <1>4, <1>5 DEF Refresh

-----------------------------------------------------------------------------
(* The operator's commands, the platform and the crash.                    *)

LEMMA DeferredSame == FactsInv /\ UNCHANGED <<remote, deferred>> => DeferredType'
BY Typed DEF DeferredType

LEMMA EditKeeps ==
    ASSUME FactsInv, Edit
    PROVE  FactsInv'
<1>1. PICK st \in Chosen : row' = [row EXCEPT !.status = st]  BY DEF Edit
<1>2. st \in Statuses  BY OrderAssumption, EditableAreStatuses
<1>3. row \in Row /\ row.there  BY Typed DEF Edit, Visible
<1>4. row' \in Row /\ row'.there  BY <1>1, <1>2, <1>3 DEF Row
<1>5. edited' /\ UNCHANGED <<Platform, flow, deferred, switched, recon, excused>>  BY DEF Edit
<1>6. Types'
  BY <1>3, <1>4, <1>5, Typed DEF Types, RowType, FlowType, DeferredType, OtherTypes, Platform, FactsInv
<1>7. FreshIsTrue' /\ Recorded'  BY <1>3, <1>4, <1>5 DEF FactsInv, FreshIsTrue, Recorded
<1>8. BestRules'  BY <1>5 DEF FactsInv, BestRules, Platform
<1>9. QED  BY <1>6, <1>7, <1>8 DEF FactsInv

LEMMA DeleteKeeps ==
    ASSUME FactsInv, Delete
    PROVE  FactsInv' /\ row'.status = row.status
<1>1. row \in Row /\ row.there /\ row' = [row EXCEPT !.deleted = TRUE]  BY Typed DEF Delete, Visible
<1>2. row' \in Row /\ row'.there /\ row'.status = row.status  BY <1>1 DEF Row
<1>3. UNCHANGED <<Platform, flow, deferred, edited, switched, recon, excused>>  BY DEF Delete
<1>4. Types'
  BY <1>1, <1>2, <1>3, Typed DEF Types, RowType, FlowType, DeferredType, OtherTypes, Platform, FactsInv
<1>5. FreshIsTrue' /\ Recorded' /\ BestRules'
  BY <1>2, <1>3 DEF FactsInv, FreshIsTrue, Recorded, BestRules, Platform
<1>6. QED  BY <1>2, <1>4, <1>5 DEF FactsInv

\* An import is a step of nobody's that takes from everybody what he has read.
LEMMA ImportKeeps ==
    ASSUME FactsInv, Import
    PROVE  FactsInv' /\ GoesForward
<1> DEFINE f == [flow[Loop] EXCEPT !.fresh = FALSE]
<1>1. /\ flow[Loop] \in Flow /\ Known(remote, flow[Loop]) /\ flow[Loop].pc \in {"idle", "recon", "resolve"}
      /\ Loop \in Writers /\ Loop \notin Slots /\ row \in Row /\ OtherTypes /\ flow \in [Writers -> Flow]
  BY Typed, SlotsAreNotTheLoop
<1>2. f \in Flow /\ ~f.fresh /\ f.pc = flow[Loop].pc /\ f.st = flow[Loop].st  BY <1>1 DEF Flow
<1>3. Known(remote, f)  BY <1>1, <1>2 DEF Known, Ruled
<1>4. Bump(Loop, f)
  <2>1. flow' = [t \in DOMAIN flow |-> [flow[t] EXCEPT !.fresh = FALSE]]  BY DEF Import
  <2>2. QED  BY <2>1 DEF Bump
<1> HIDE DEF f
<1>5. PICK st \in Chosen :
         row' = [row EXCEPT !.there = TRUE, !.deleted = FALSE, !.item = TRUE,
                            !.status = IF ShouldUpdate(row.status, st) THEN st ELSE row.status]
  BY DEF Import
<1> DEFINE new == IF ShouldUpdate(row.status, st) THEN st ELSE row.status
<1>6. row.status \in Statuses /\ st \in Statuses /\ st # "unknown"
  BY <1>1, OrderAssumption, EditableAreStatuses DEF Row
<1>7. /\ new \in Statuses
      /\ row.status \in Advanced => new \in Advanced
      /\ row.status \in {"completed", "cancelled"} => new # "shipped"
  <2>1. CASE ShouldUpdate(row.status, st)
    <3>1. row.status \in Advanced => st \in Advanced \cup {"unknown"}  BY <1>6, <2>1, ShouldUpdateIs
    <3>2. row.status \in {"completed", "cancelled"} => st # "shipped"  BY <1>6, <2>1, ShouldUpdateIs
    <3>3. QED  BY <1>6, <2>1, <3>1, <3>2
  <2>2. CASE ~ShouldUpdate(row.status, st)  BY <1>6, <2>2
  <2>3. QED  BY <2>1, <2>2
<1>8. row' = [row EXCEPT !.there = TRUE, !.deleted = FALSE, !.item = TRUE, !.status = new]  BY <1>5
<1> HIDE DEF new
<1>9. row' \in Row /\ row'.there /\ row'.status = new  BY <1>1, <1>7, <1>8 DEF Row
<1>10. UNCHANGED <<Platform, deferred, recon, edited, switched, excused>> /\ remote # "none"  BY DEF Import
<1>11. ASSUME ~excused, ~edited, f.pc = "resolve"  PROVE row'.status \in Advanced
  BY <1>2, <1>7, <1>9, <1>11 DEF FactsInv, Recorded
<1>12. RowStep(Loop, f)
  BY <1>1, <1>2, <1>3, <1>4, <1>7, <1>9, <1>10, <1>11 DEF RowStep, OtherTypes
<1>13. QED  BY <1>1, <1>7, <1>9, <1>12, RowKeeps, AdvancedIs DEF GoesForward

LEMMA SwitchRuleKeeps ==
    ASSUME FactsInv, SwitchRule
    PROVE  FactsInv'
<1>1. PICK r \in Rules : rules' = IF r \in rules THEN rules \ {r} ELSE rules \cup {r}  BY DEF SwitchRule
<1>2. switched' /\ UNCHANGED <<row, remote, runs, confirmed, flow, deferred, edited, recon, excused>>  BY DEF SwitchRule
<1>3. rules' \subseteq Rules  BY <1>1, Typed DEF OtherTypes
<1>4. Types'
  BY <1>2, <1>3, Typed DEF Types, RowType, FlowType, DeferredType, OtherTypes, FactsInv
<1>5. FreshIsTrue' /\ Recorded' /\ BestRules'
  BY <1>2 DEF FactsInv, FreshIsTrue, Recorded, BestRules
<1>6. QED  BY <1>4, <1>5 DEF FactsInv

LEMMA RemoteKeeps ==
    ASSUME FactsInv, Remote
    PROVE  FactsInv'
<1>1. remote' \in Editable  BY OrderAssumption DEF Remote
<1>2. UNCHANGED <<row, rules, runs, confirmed, flow, deferred, edited, switched, recon, excused>>
  BY DEF Remote, History
<1>3. remote' # "none"  BY <1>1, EditableAreStatuses
<1>4. \A s \in Writers : Known(remote', flow[s])  BY <1>3, Typed DEF Known
<1>5. Types'
  BY <1>1, <1>2, <1>3, <1>4, Typed DEF Types, RowType, FlowType, DeferredType, OtherTypes, FactsInv
<1>6. FreshIsTrue' /\ Recorded' /\ BestRules'
  BY <1>2 DEF FactsInv, FreshIsTrue, Recorded, BestRules
<1>7. QED  BY <1>5, <1>6 DEF FactsInv

LEMMA CrashKeeps ==
    ASSUME FactsInv, Crash
    PROVE  FactsInv'
<1>1. /\ flow' = [s \in Writers |-> Idle] /\ UNCHANGED <<row, remote, rules, runs, confirmed, edited, switched, recon>>
      /\ excused' = (excused \/ \E s \in Slots : flow[s].pc = "ship")
  BY Typed DEF Crash, Platform, History
<1>2. flow' \in [Writers -> Flow] /\ \A s \in Writers : flow'[s] = Idle /\ Known(remote', flow'[s])
  BY <1>1, IdleIs
<1>3. DeferredType'  BY <1>1, DeferredKept DEF Crash
<1>4. excused' \in BOOLEAN  BY <1>1, Typed DEF OtherTypes
<1>5. Types'
  <2>1. FlowType'  BY <1>2, IdleIs, SlotsAreNotTheLoop DEF FlowType
  <2>2. RowType' /\ OtherTypes'  BY <1>1, <1>4, Typed DEF RowType, OtherTypes
  <2>3. QED  BY <1>3, <2>1, <2>2 DEF Types
<1>6. FreshIsTrue' /\ BestRules'
  BY <1>1, <1>2, IdleIs, SlotsAreNotTheLoop DEF FactsInv, FreshIsTrue, BestRules
<1>7. Recorded'
  BY <1>1, <1>2, IdleIs, SlotsAreNotTheLoop DEF FactsInv, Recorded
<1>8. QED  BY <1>5, <1>6, <1>7 DEF FactsInv

-----------------------------------------------------------------------------
(* The invariant, and what follows from it.                                *)

LEMMA FactsInit == Init => FactsInv
<1> SUFFICES ASSUME Init PROVE FactsInv
  OBVIOUS
<1>1. flow \in [Writers -> Flow] /\ \A s \in Writers : flow[s] = Idle /\ Known(remote, flow[s])
  BY IdleIs DEF Init, Writers
<1>2. NoTask \in Deferral /\ NoTask.at = "none"  BY DEF NoTask, Deferral
<1>3. Types
  <2>1. FlowType  BY <1>1, IdleIs, SlotsAreNotTheLoop DEF FlowType
  <2>2. QED  BY <1>2, <2>1, NoRowIs DEF Init, Types, RowType, DeferredType, OtherTypes
<1>4. FreshIsTrue /\ Recorded
  BY <1>1, IdleIs, SlotsAreNotTheLoop DEF Init, FreshIsTrue, Recorded
<1>5. BestRules  BY <1>1, IdleIs, SlotsAreNotTheLoop DEF Init, BestRules
<1>6. QED  BY <1>3, <1>4, <1>5 DEF FactsInv

LEMMA UpsertKeeps ==
    ASSUME FactsInv, NEW s \in Writers, Upsert(s)
    PROVE  FactsInv' /\ (row'.status = row.status \/ edited \/ GoesForward)
<1>1. CASE Read(s)
  <2>1. row'.status = row.status  BY <1>1, Typed, NoRowIs DEF Read, RowType, NoRow
  <2>2. QED  BY <1>1, <2>1, ReadKeeps
<1>2. CASE Write(s)  BY <1>2, WriteKeeps, WriteIs
<1>3. CASE Retry(s)  BY <1>3, RetryKeeps DEF Retry
<1>4. CASE Conflict(s)  BY <1>4, FailedKeeps DEF Conflict, Missed, History
<1>5. CASE Breaks(s)  BY <1>5, FailedKeeps DEF Breaks, History
<1>6. CASE BreaksTwice(s)  BY <1>6, BreaksTwiceKeeps DEF BreaksTwice
<1>7. QED  BY <1>1, <1>2, <1>3, <1>4, <1>5, <1>6 DEF Upsert

LEMMA TaskKeeps ==
    ASSUME FactsInv, NEW s \in Slots, Task(s)
    PROVE  FactsInv' /\ row' = row
<1>1. CASE Merge(s)  BY <1>1, MergeKeeps DEF Merge
<1>2. CASE Detail(s)  BY <1>2, DetailKeeps DEF Detail
<1>3. CASE DetailFails(s)  BY <1>3, DetailFailsKeeps DEF DetailFails
<1>4. CASE MatchFull(s)  BY <1>4, MatchFullKeeps DEF MatchFull
<1>5. CASE Start(s)  BY <1>5, StartKeeps DEF Start
<1>6. CASE Confirm(s)  BY <1>6, ConfirmKeeps DEF Confirm
<1>7. CASE Unconfirmed(s)  BY <1>7, UnconfirmedKeeps DEF Unconfirmed
<1>8. CASE AnswerLost(s)  BY <1>8, AnswerLostKeeps DEF AnswerLost
<1>9. CASE Mark(s)  BY <1>9, MarkKeeps DEF Mark
<1>10. QED  BY <1>1, <1>2, <1>3, <1>4, <1>5, <1>6, <1>7, <1>8, <1>9 DEF Task

LEMMA SyncKeeps ==
    ASSUME FactsInv, NEW s \in Slots, Sync(s)
    PROVE  FactsInv' /\ (row'.status = row.status \/ GoesForward)
<1>1. CASE Listed(s)  BY <1>1, ListedKeeps
<1>2. CASE Found(s) \/ Fetched(s)  BY <1>2, FoundKeeps
<1>3. CASE Scan(s)  BY <1>3, ScanKeeps DEF Scan
<1>4. CASE Fetch(s)  BY <1>4, FetchKeeps DEF Fetch
<1>5. QED  BY <1>1, <1>2, <1>3, <1>4 DEF Sync

\* Every step keeps the invariant, and only an operator's edit takes an order back.
LEMMA FactsStep ==
    ASSUME FactsInv, [Next]_vars
    PROVE  FactsInv' /\ (row'.status = row.status \/ edited' \/ GoesForward)
<1>1. CASE UNCHANGED vars
  <2>1. Types' /\ FreshIsTrue' /\ Recorded' /\ BestRules'
    BY <1>1 DEF vars, FactsInv, Types, RowType, FlowType, DeferredType, OtherTypes, FreshIsTrue, Recorded, BestRules
  <2>2. QED  BY <1>1, <2>1 DEF vars, FactsInv
<1>2. ASSUME NEW s \in Writers, Upsert(s)  PROVE FactsInv' /\ (row'.status = row.status \/ edited' \/ GoesForward)
  <2>1. edited' = edited
    BY <1>2 DEF Upsert, Read, Write, Retry, Conflict, Breaks, BreaksTwice, History
  <2>2. QED  BY <1>2, <2>1, UpsertKeeps
<1>3. ASSUME NEW s \in Slots, Task(s)  PROVE FactsInv' /\ (row'.status = row.status \/ edited' \/ GoesForward)
  BY <1>3, TaskKeeps
<1>4. ASSUME NEW s \in Slots, Sync(s)  PROVE FactsInv' /\ (row'.status = row.status \/ edited' \/ GoesForward)
  BY <1>4, SyncKeeps
<1>5. ASSUME NEW s \in Slots, Event(s) \/ Replay(s) \/ ByHand(s) \/ Refresh(s)
      PROVE  FactsInv' /\ row' = row
  <2>1. row' = row  BY <1>5 DEF Event, Replay, ByHand, Refresh
  <2>2. QED  BY <1>5, <2>1, EventKeeps, ReplayKeeps, ByHandKeeps, RefreshKeeps
<1>6. CASE Look  BY <1>6, LookKeeps DEF Look
<1>7. CASE Resolve  BY <1>7, ResolveKeeps DEF Resolve
<1>8. CASE Edit  BY <1>8, EditKeeps DEF Edit
<1>9. CASE Delete  BY <1>9, DeleteKeeps
<1>10. CASE Import  BY <1>10, ImportKeeps
<1>11. CASE SwitchRule  BY <1>11, SwitchRuleKeeps DEF SwitchRule
<1>12. CASE Remote  BY <1>12, RemoteKeeps DEF Remote
<1>13. CASE Crash  BY <1>13, CrashKeeps DEF Crash
<1>14. QED
  BY <1>1, <1>2, <1>3, <1>4, <1>5, <1>6, <1>7, <1>8, <1>9, <1>10, <1>11, <1>12, <1>13, SlotsAreNotTheLoop DEF Next

\* The facts hold in every reachable state.
THEOREM FactsHold == Spec => []FactsInv
<1>1. Init => FactsInv  BY FactsInit
<1>2. FactsInv /\ [Next]_vars => FactsInv'  BY FactsStep
<1>3. QED  BY <1>1, <1>2, PTL DEF Spec

\* The model's types: in particular the attempts of an Upsert end, and only an Upsert has read.
THEOREM TypeCorrect == Spec => []TypeOK
<1>1. FactsInv => TypeOK
  <2> SUFFICES ASSUME FactsInv PROVE TypeOK
    OBVIOUS
  <2>1. ASSUME NEW s \in Slots \cup {Loop}
        PROVE  /\ flow[s].st \in Statuses \cup {"", "none"} /\ flow[s].rule \in Rules \cup {0}
               /\ flow[s].tries \in 0 .. MaxTries - 1
               /\ flow[s].fresh => flow[s].pc \in Stages /\ flow[s].seen \in Statuses
    <3>1. flow[s] \in Flow  BY Typed DEF Writers
    <3>2. QED  BY <3>1 DEF Flow, FactsInv, FreshIsTrue, Writers
  <2>2. row.there \/ row = NoRow  BY Typed DEF RowType
  <2>3. remote \in Statuses \cup {"none"}  BY Typed, EditableAreStatuses
  <2>4. QED  BY <2>1, <2>2, <2>3, Typed DEF TypeOK, Row, Deferral, Run, OtherTypes
<1>2. QED  BY <1>1, FactsHold, PTL

\* Whatever the writers of the order read and when they write, none of them takes it back from
\* shipped to waiting or from its end to shipped; only an operator does.
THEOREM NoWayBackHolds == Spec => NoWayBack
<1> DEFINE Forward == /\ row.status \in Advanced /\ ~edited' => row'.status \notin Early
                      /\ row.status \in {"completed", "cancelled"} /\ ~edited' => row'.status # "shipped"
<1>1. FactsInv /\ [Next]_vars => Forward  BY FactsStep, AdvancedIs DEF GoesForward
<1> HIDE DEF Forward
<1>2. FactsInv /\ [Next]_vars => [Forward]_vars  BY <1>1
<1>3. []FactsInv /\ [][Next]_vars => [][Forward]_vars  BY <1>2, PTL
<1>4. Spec => [][Forward]_vars  BY <1>3, FactsHold, PTL DEF Spec
<1>5. QED  BY <1>4 DEF Forward, NoWayBack

\* What the platform has confirmed is recorded or on its way into the row.
THEOREM ConfirmedIsRecordedHolds == Spec => []ConfirmedIsRecorded
<1>1. FactsInv => ConfirmedIsRecorded  BY DEF FactsInv, Recorded, ConfirmedIsRecorded
<1>2. QED  BY <1>1, FactsHold, PTL

\* Two rules run for one order only when rules were switched or a match did not know the item.
THEOREM AnotherRuleHolds == Spec => []AnotherRuleNeedsAReason
<1>1. FactsInv => AnotherRuleNeedsAReason
  <2> SUFFICES ASSUME FactsInv, NEW a \in runs, NEW b \in runs, ~switched, a.item = b.item
               PROVE  a.rule = b.rule
    BY DEF AnotherRuleNeedsAReason
  <2>1. a.rule \in Best(Rules, a.item) /\ b.rule \in Best(Rules, a.item)  BY DEF FactsInv, BestRules
  <2>2. QED  BY <2>1, OneBest
<1>2. QED  BY <1>1, FactsHold, PTL
=============================================================================
