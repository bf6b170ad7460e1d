-------------------------- MODULE BatchPublishProofs --------------------------
(* Proofs about BatchPublish, for any number of rows, requests and         *)
(* disturbances: a running row belongs to the present claim, no row is     *)
(* published twice, and a cancellation ends as one.                        *)
EXTENDS BatchPublish, WellFoundedInduction, TLAPS

LEMMA MinIsMember == ASSUME NEW S \in SUBSET Nat, S # {} PROVE Min(S) \in S
<1>1. PICK x \in S : \A y \in S : ~(<<y, x>> \in OpToRel(<, Nat)) BY NatLessThanWellFounded, WFMin
<1>2. \A y \in S : x \in Nat /\ y \in Nat OBVIOUS
<1>3. \A y \in S : ~(y < x) BY <1>1, <1>2 DEF OpToRel
<1>4. \A y \in S : x <= y BY <1>2, <1>3
<1>5. QED BY <1>4 DEF Min

-----------------------------------------------------------------------------
(* Shapes. *)

Shapes ==
    /\ rows = [r \in Rows |-> rows[r]]
    /\ \A r \in Rows : DOMAIN rows[r] = {"status", "kind", "token", "item"}
    /\ workers = [t \in Tokens |-> workers[t]]
    /\ \A t \in Tokens : DOMAIN workers[t] = {"pc", "live", "todo", "kept", "row", "kind"}
    /\ caller = [c \in Callers |-> caller[c]]
    /\ \A c \in Callers : DOMAIN caller[c] = {"pc", "token"}
    /\ DOMAIN batch = {"status", "token", "live"}

\* Tokens are drawn in order, and nobody but one caller has one before its worker starts.
Tokened ==
    /\ issued \in 0 .. MaxClaims /\ batch.token \in 0 .. issued
    /\ batch.status \in Open => batch.token # NoToken
    /\ \A c \in Callers : /\ caller[c].token \in 0 .. issued
                          /\ caller[c].token # NoToken => workers[caller[c].token].pc = "none"
    /\ \A c, d \in Callers : caller[c].token = caller[d].token /\ caller[c].token # NoToken => c = d
    /\ \A t \in Tokens : workers[t].pc # "none" => t <= issued
    /\ \A t \in Tokens : workers[t].pc = "none" => workers[t] = Nobody

\* A running row belongs to the present claim, whose worker has started.
Claimed ==
    \A r \in Rows : rows[r].status = "running" =>
        /\ batch.status \in Open /\ rows[r].token = batch.token
        /\ \A c \in Callers : caller[c].token # batch.token

OwnerInv == Shapes /\ Tokened /\ Claimed

\* What the statements make of a row.
LEMMA RowForms ==
    ASSUME NEW rw, DOMAIN rw = {"status", "kind", "token", "item"}, NEW k
    PROVE  /\ Failed(rw, k).status = "failed" /\ Failed(rw, k).kind = k /\ Failed(rw, k).item = rw.item
           /\ Pending(rw, k).status = "pending" /\ Pending(rw, k).kind = k /\ Pending(rw, k).item = rw.item
           /\ DOMAIN Failed(rw, k) = {"status", "kind", "token", "item"}
           /\ DOMAIN Pending(rw, k) = {"status", "kind", "token", "item"}
BY DEF Failed, Pending

\* Taking over, abandoning and resetting change no running row into another running row, leave every item number, and
\* close what may have been published by hand only.
Rest(rw, new) ==
    /\ DOMAIN new = {"status", "kind", "token", "item"} /\ new.item = rw.item
    /\ new = rw \/ new.status # "running"
    /\ Unknown(rw) /\ new # rw => new.status = "failed" /\ new.kind = "uncertain_remote"
    /\ rw.status = "failed" /\ rw.kind = "uncertain_remote" => new = rw

LEMMA TakenOver ==
    ASSUME NEW rw, DOMAIN rw = {"status", "kind", "token", "item"}
    PROVE  /\ Rest(rw, TakeOver(rw)) /\ TakeOver(rw).status # "running"
           /\ Rest(rw, Abandon(rw)) /\ Abandon(rw).status # "running"
           /\ Rest(rw, ResetFailed(rw)) /\ Rest(rw, ResetInterrupted(rw))
<1>1. Rest(rw, rw) BY DEF Rest
<1>2. \A k : Rest(rw, Pending(rw, k)) \/ Unknown(rw) \/ (rw.status = "failed" /\ rw.kind = "uncertain_remote")
  BY RowForms DEF Rest
<1>3. Rest(rw, Failed(rw, "uncertain_remote")) \/ (rw.status = "failed" /\ rw.kind = "uncertain_remote")
  BY RowForms DEF Rest
<1>4. Rest(rw, Failed(rw, "interrupted")) \/ Unknown(rw) \/ (rw.status = "failed" /\ rw.kind = "uncertain_remote")
  BY RowForms DEF Rest
<1>5. Rest(rw, TakeOver(rw)) /\ TakeOver(rw).status # "running"
  BY <1>1, <1>2, <1>3, RowForms DEF TakeOver, Unknown
<1>6. Rest(rw, Abandon(rw)) /\ Abandon(rw).status # "running"
  BY <1>1, <1>3, <1>4, RowForms DEF Abandon, Unknown
<1>7. Rest(rw, ResetFailed(rw)) BY <1>1, <1>2 DEF ResetFailed, Unknown
<1>8. Rest(rw, ResetInterrupted(rw)) BY <1>1, <1>2 DEF ResetInterrupted, Unknown
<1>9. QED BY <1>5, <1>6, <1>7, <1>8

LEMMA InitOwner == Init => OwnerInv
<1> SUFFICES ASSUME Init PROVE OwnerInv OBVIOUS
<1>1. Shapes BY DEF Init, Shapes, Fresh, Idle, Nobody
<1>2. MaxClaims \in Nat BY BatchAssumption DEF MaxClaims
<1>3. Tokened
  <2>1. issued = 0 /\ batch.token = 0 /\ batch.status \notin Open BY DEF Init, Open, NoToken
  <2>2. \A c \in Callers : caller[c].token = 0 BY DEF Init, Idle, NoToken
  <2>3. \A t \in Tokens : workers[t] = Nobody BY DEF Init
  <2>4. Nobody.pc = "none" BY DEF Nobody
  <2>5. QED BY <1>2, <2>1, <2>2, <2>3, <2>4 DEF Tokened, NoToken
<1>4. Claimed BY DEF Init, Claimed, Fresh
<1>5. QED BY <1>1, <1>3, <1>4 DEF OwnerInv

-----------------------------------------------------------------------------
(* What a step may do to the rest. *)

IsWorker(w) == DOMAIN w = {"pc", "live", "todo", "kept", "row", "kind"}
IsRow(rw)   == DOMAIN rw = {"status", "kind", "token", "item"}

\* The batch keeps its claim, or is closed with no row running.
SteadyBatch ==
    \/ batch'.token = batch.token /\ (batch'.status \in Open <=> batch.status \in Open)
    \/ batch'.token = NoToken /\ batch'.status \notin Open /\ \A r \in Rows : rows'[r].status # "running"

\* Rows start running only for the worker of the present claim.
SteadyRows ==
    \A r \in Rows : rows'[r].status = "running" =>
        \/ rows[r].status = "running" /\ rows'[r].token = rows[r].token
        \/ batch.status \in Open /\ rows'[r].token = batch.token /\ workers[batch.token].pc # "none"

\* No worker starts, and no caller gets a token.
SteadyTokens ==
    /\ issued' = issued
    /\ \A c \in Callers : caller'[c].token \in {caller[c].token, NoToken}
    /\ \A t \in Tokens : workers'[t].pc # "none" => workers[t].pc # "none"
    /\ \A t \in Tokens : workers'[t].pc = "none" => workers'[t] = Nobody

LEMMA SteadyKeeps == ASSUME OwnerInv, Shapes', SteadyBatch, SteadyRows, SteadyTokens PROVE OwnerInv'
<1>1. MaxClaims \in Nat /\ issued \in Nat /\ issued <= MaxClaims /\ batch.token \in Nat
  BY BatchAssumption DEF MaxClaims, OwnerInv, Tokened
<1>2. \A c \in Callers : caller[c].token \in 1 .. issued => caller[c].token \in Tokens BY <1>1 DEF Tokens
<1>3. \A c \in Callers : caller'[c].token # NoToken =>
         caller'[c].token = caller[c].token /\ caller[c].token \in Tokens /\ workers[caller[c].token].pc = "none"
  BY <1>1, <1>2 DEF SteadyTokens, OwnerInv, Tokened, NoToken
<1>4. Tokened'
  <2>1. issued' \in 0 .. MaxClaims /\ batch'.token \in 0 .. issued'
    BY <1>1 DEF SteadyTokens, SteadyBatch, OwnerInv, Tokened, NoToken
  <2>2. batch'.status \in Open => batch'.token # NoToken BY DEF SteadyBatch, OwnerInv, Tokened
  <2>3. \A c \in Callers : caller'[c].token \in 0 .. issued'
    BY <1>1 DEF SteadyTokens, OwnerInv, Tokened, NoToken
  <2>4. \A c \in Callers : caller'[c].token # NoToken => workers'[caller'[c].token].pc = "none"
    BY <1>3 DEF SteadyTokens
  <2>5. \A c, d \in Callers : caller'[c].token = caller'[d].token /\ caller'[c].token # NoToken => c = d
    BY <1>3 DEF OwnerInv, Tokened
  <2>6. \A t \in Tokens : workers'[t].pc # "none" => t <= issued' BY DEF SteadyTokens, OwnerInv, Tokened
  <2>7. QED BY <2>1, <2>2, <2>3, <2>4, <2>5, <2>6 DEF Tokened, SteadyTokens, Open
<1>5. Claimed'
  <2> SUFFICES ASSUME NEW r \in Rows, rows'[r].status = "running"
               PROVE  /\ batch'.status \in Open /\ rows'[r].token = batch'.token
                      /\ \A c \in Callers : caller'[c].token # batch'.token
    BY DEF Claimed, Open
  <2>1. batch'.token = batch.token /\ (batch'.status \in Open <=> batch.status \in Open) BY DEF SteadyBatch
  <2>2. batch.status \in Open /\ rows'[r].token = batch.token BY DEF SteadyRows, OwnerInv, Claimed
  <2>3. batch.token # NoToken BY <2>2 DEF OwnerInv, Tokened
  <2>4. \A c \in Callers : caller[c].token # batch.token
    <3>1. CASE rows[r].status = "running" BY <3>1 DEF OwnerInv, Claimed
    <3>2. CASE workers[batch.token].pc # "none" BY <2>3, <3>2 DEF OwnerInv, Tokened
    <3>3. QED BY <3>1, <3>2 DEF SteadyRows
  <2>5. QED BY <2>1, <2>2, <2>3, <2>4 DEF SteadyTokens
<1>6. QED BY <1>4, <1>5 DEF OwnerInv

-----------------------------------------------------------------------------
(* Callers. *)

LEMMA GotoForm ==
    ASSUME Shapes, NEW c \in Callers, NEW pc, Goto(c, pc)
    PROVE  /\ caller' = [d \in Callers |-> caller'[d]] /\ \A d \in Callers : DOMAIN caller'[d] = {"pc", "token"}
           /\ \A d \in Callers : caller'[d].token \in {caller[d].token, NoToken}
<1>1. DOMAIN Idle = {"pc", "token"} /\ Idle.token = NoToken BY DEF Idle
<1>2. DOMAIN [caller[c] EXCEPT !.pc = pc] = {"pc", "token"} /\ [caller[c] EXCEPT !.pc = pc].token = caller[c].token
  BY DEF Shapes
<1>3. caller' = [caller EXCEPT ![c] = IF pc = "idle" THEN Idle ELSE [caller[c] EXCEPT !.pc = pc]] BY DEF Goto
<1> DEFINE new == IF pc = "idle" THEN Idle ELSE [caller[c] EXCEPT !.pc = pc]
<1>4. DOMAIN new = {"pc", "token"} /\ new.token \in {caller[c].token, NoToken} BY <1>1, <1>2
<1> HIDE DEF new
<1>5. caller' = [caller EXCEPT ![c] = new] BY <1>3 DEF new
<1>6. QED BY <1>4, <1>5 DEF Shapes

LEMMA ShutForm == ASSUME NEW st PROVE DOMAIN Shut(st) = {"status", "token", "live"} /\ Shut(st).token = NoToken /\ Shut(st).status = st
BY DEF Shut

LEMMA FinalForm == ASSUME NEW rws PROVE FinalBatchStatus(rws) \notin Open
BY DEF FinalBatchStatus, Open

\* Rows that only rest keep their shape and start nothing.
RestRows == rows' = [r \in Rows |-> rows'[r]] /\ \A r \in Rows : Rest(rows[r], rows'[r])

LEMMA SameRest == ASSUME Shapes, rows' = rows PROVE RestRows
BY DEF RestRows, Rest, Shapes

LEMMA OnRest ==
    ASSUME Shapes
    PROVE  /\ rows' = On(TakeOver) \/ rows' = On(Abandon) => RestRows /\ \A r \in Rows : rows'[r].status # "running"
           /\ rows' = On(ResetFailed) \/ rows' = On(ResetInterrupted) => RestRows
<1>1. ASSUME rows' = On(TakeOver) PROVE RestRows /\ \A r \in Rows : rows'[r].status # "running"
  BY <1>1, TakenOver DEF On, RestRows, Shapes
<1>2. ASSUME rows' = On(Abandon) PROVE RestRows /\ \A r \in Rows : rows'[r].status # "running"
  BY <1>2, TakenOver DEF On, RestRows, Shapes
<1>3. ASSUME rows' = On(ResetFailed) PROVE RestRows BY <1>3, TakenOver DEF On, RestRows, Shapes
<1>4. ASSUME rows' = On(ResetInterrupted) PROVE RestRows BY <1>4, TakenOver DEF On, RestRows, Shapes
<1>5. QED BY <1>1, <1>2, <1>3, <1>4

LEMMA RestSteady ==
    ASSUME RestRows PROVE SteadyRows /\ \A r \in Rows : IsRow(rows'[r])
BY DEF RestRows, Rest, SteadyRows, IsRow

\* Nobody finds an unfinished row: nothing runs.
LEMMA QuietRows == ASSUME Unfinished(rows) = {} PROVE \A r \in Rows : rows[r].status # "running"
BY DEF Unfinished, With

\* A caller that still has its token has no running row.
LEMMA CallerIsQuiet ==
    ASSUME OwnerInv, NEW c \in Callers, caller[c].token = batch.token PROVE \A r \in Rows : rows[r].status # "running"
BY DEF OwnerInv, Claimed

\* Closing and giving back, whoever does it.
LEMMA CloseForm ==
    ASSUME OwnerInv, NEW t, CloseInterrupted(t) \/ CloseCanceled(t)
    PROVE  RestRows /\ SteadyBatch /\ DOMAIN batch' = {"status", "token", "live"}
<1>1. CASE UNCHANGED <<batch, rows>> BY <1>1, SameRest DEF SteadyBatch, OwnerInv, Shapes
<1>2. CASE rows' = On(Abandon) /\ \E st : batch' = Shut(st) /\ st \notin Open
  <2>1. Shapes BY DEF OwnerInv
  <2>2. RestRows /\ \A r \in Rows : rows'[r].status # "running" BY <1>2, <2>1, OnRest
  <2>3. QED BY <1>2, <2>2, ShutForm DEF SteadyBatch
<1>3. "canceled" \notin Open BY DEF Open
<1>4. QED BY <1>1, <1>2, <1>3, FinalForm DEF CloseInterrupted, CloseCanceled

\* Callers and the scan write rows that rest; none but ClaimBatch makes a claim.
LEMMA CallerForm ==
    ASSUME OwnerInv, NEW c \in Callers,
           \/ Reset(c) \/ ListPending(c) \/ FinalizeEmpty(c) \/ Release(c) \/ CallerFails(c)
           \/ ScanList \/ ScanExpire \/ UserStart \/ UserRetry
    PROVE  OwnerInv' /\ RestRows /\ workers' = workers /\ sent' = sent
           /\ (batch'.token = batch.token \/ batch'.token = NoToken)
<1>1. Shapes /\ "scan" \in Callers /\ "start" \in Callers /\ "retry" \in Callers BY DEF OwnerInv, Callers
<1>2. workers' = workers /\ sent' = sent /\ issued' = issued /\ \E d \in Callers : \E pc : Goto(d, pc)
  BY <1>1 DEF Reset, ListPending, FinalizeEmpty, Release, CallerFails, ScanList, ScanExpire, UserStart, UserRetry, CallerKeeps
<1>3. /\ caller' = [d \in Callers |-> caller'[d]] /\ \A d \in Callers : DOMAIN caller'[d] = {"pc", "token"}
      /\ \A d \in Callers : caller'[d].token \in {caller[d].token, NoToken}
  BY <1>1, <1>2, GotoForm
<1>4. RestRows /\ SteadyBatch /\ DOMAIN batch' = {"status", "token", "live"}
  <2>1. CASE batch' = batch /\ RestRows BY <1>1, <2>1 DEF SteadyBatch, Shapes
  <2>2. CASE ListPending(c) \/ CallerFails(c) \/ ScanList \/ UserStart \/ UserRetry
    <3>1. batch' = batch /\ rows' = rows BY <2>2 DEF ListPending, CallerFails, ScanList, UserStart, UserRetry
    <3>2. QED BY <1>1, <2>1, <3>1, SameRest
  <2>3. CASE Reset(c)
    <3>1. batch' = batch /\ (rows' = rows \/ rows' = On(ResetFailed) \/ rows' = On(ResetInterrupted)) BY <2>3 DEF Reset
    <3>2. QED BY <1>1, <2>1, <3>1, SameRest, OnRest
  <2>4. CASE FinalizeEmpty(c)
    <3>1. rows' = rows /\ (batch' = batch \/ (Unfinished(rows) = {} /\ batch' = Shut(FinalBatchStatus(rows))))
      BY <2>4 DEF FinalizeEmpty, CanFinalize
    <3>2. CASE batch' = batch BY <1>1, <2>1, <3>1, <3>2, SameRest
    <3>3. CASE Unfinished(rows) = {} /\ batch' = Shut(FinalBatchStatus(rows))
      <4>1. \A r \in Rows : rows'[r].status # "running" BY <3>1, <3>3, QuietRows
      <4>2. QED BY <1>1, <3>1, <3>3, <4>1, ShutForm, FinalForm, SameRest DEF SteadyBatch
    <3>4. QED BY <3>1, <3>2, <3>3
  <2>5. CASE Release(c)
    <3>1. rows' = rows /\ (batch' = batch \/ (caller[c].token = batch.token /\ batch' = Shut("failed")))
      BY <2>5 DEF Release, FailClaimed, Owned
    <3>2. CASE batch' = batch BY <1>1, <2>1, <3>1, <3>2, SameRest
    <3>3. CASE caller[c].token = batch.token /\ batch' = Shut("failed")
      <4>1. \A r \in Rows : rows'[r].status # "running" BY <3>1, <3>3, CallerIsQuiet
      <4>2. "failed" \notin Open BY DEF Open
      <4>3. QED BY <1>1, <3>1, <3>3, <4>1, <4>2, ShutForm, SameRest DEF SteadyBatch
    <3>4. QED BY <3>1, <3>2, <3>3
  <2>6. CASE ScanExpire
    <3>1. UNCHANGED <<batch, rows>> \/ (rows' = On(Abandon) /\ batch' = Shut("canceled")) BY <2>6 DEF ScanExpire
    <3>2. CASE UNCHANGED <<batch, rows>> BY <1>1, <2>1, <3>2, SameRest
    <3>3. CASE rows' = On(Abandon) /\ batch' = Shut("canceled")
      <4>1. "canceled" \notin Open BY DEF Open
      <4>2. QED BY <1>1, <3>3, <4>1, ShutForm, OnRest DEF SteadyBatch
    <3>4. QED BY <3>1, <3>2, <3>3
  <2>7. QED BY <2>2, <2>3, <2>4, <2>5, <2>6
<1>5. Shapes'
  BY <1>1, <1>2, <1>3, <1>4, RestSteady DEF Shapes, RestRows, IsRow
<1>6. SteadyTokens BY <1>2, <1>3 DEF SteadyTokens, OwnerInv, Tokened
<1>7. QED BY <1>2, <1>4, <1>5, <1>6, RestSteady, SteadyKeeps DEF SteadyBatch

\* A claim: the rows of earlier workers are taken over, the token is new.
LEMMA ClaimForm ==
    ASSUME OwnerInv, NEW c \in Callers, ClaimBatch(c)
    PROVE  OwnerInv' /\ RestRows /\ workers' = workers /\ sent' = sent
           /\ (batch'.token = batch.token \/ (batch'.token \in Tokens /\ workers[batch'.token] = Nobody))
<1>1. Shapes /\ workers' = workers /\ sent' = sent BY DEF OwnerInv, ClaimBatch
<1>2. CASE Goto(c, "idle") /\ UNCHANGED <<batch, rows, issued, wanted>>
  <2>1. /\ caller' = [d \in Callers |-> caller'[d]] /\ \A d \in Callers : DOMAIN caller'[d] = {"pc", "token"}
        /\ \A d \in Callers : caller'[d].token \in {caller[d].token, NoToken}
    BY <1>1, <1>2, GotoForm
  <2>2. RestRows /\ SteadyBatch BY <1>1, <1>2, SameRest DEF SteadyBatch
  <2>3. Shapes' BY <1>1, <1>2, <2>1 DEF Shapes
  <2>4. SteadyTokens BY <1>1, <1>2, <2>1 DEF SteadyTokens, OwnerInv, Tokened
  <2>5. QED BY <1>1, <1>2, <2>2, <2>3, <2>4, RestSteady, SteadyKeeps
<1>3. CASE issued < MaxClaims /\ issued' = issued + 1
  <2> DEFINE new == issued + 1
  <2>1. MaxClaims \in Nat /\ issued \in Nat /\ new \in Tokens /\ new \in 0 .. MaxClaims
    BY <1>3, BatchAssumption DEF MaxClaims, Tokens, OwnerInv, Tokened
  <2>2. /\ batch' = [status |-> "running", token |-> new, live |-> TRUE] /\ rows' = On(TakeOver)
        /\ \E pc : caller' = [caller EXCEPT ![c] = [pc |-> pc, token |-> new]]
    BY <1>3, <2>1 DEF ClaimBatch
  <2>3. RestRows /\ \A r \in Rows : rows'[r].status # "running" BY <1>1, <2>2, OnRest
  <2>4. workers[new].pc = "none" /\ workers[new] = Nobody BY <2>1 DEF OwnerInv, Tokened
  <2>5. PICK pc : caller' = [caller EXCEPT ![c] = [pc |-> pc, token |-> new]] BY <2>2
  <2>6. caller'[c] = [pc |-> pc, token |-> new] /\ \A d \in Callers : d # c => caller'[d] = caller[d]
    BY <1>1, <2>5 DEF Shapes
  <2>7. Shapes'
    <3>1. DOMAIN batch' = {"status", "token", "live"} BY <2>2
    <3>2. caller' = [d \in Callers |-> caller'[d]] /\ \A d \in Callers : DOMAIN caller'[d] = {"pc", "token"}
      BY <1>1, <2>5, <2>6 DEF Shapes
    <3>3. QED BY <1>1, <2>3, <3>1, <3>2, RestSteady DEF Shapes, RestRows, IsRow
  <2>8. Claimed' BY <2>3 DEF Claimed
  <2>9. Tokened'
    <3>1. issued' \in 0 .. MaxClaims /\ batch'.token = new /\ new \in 0 .. issued' /\ new # NoToken
      BY <1>3, <2>1, <2>2 DEF NoToken
    <3>2. \A d \in Callers : caller'[d].token = (IF d = c THEN new ELSE caller[d].token) BY <2>6
    <3>3. \A d \in Callers : caller[d].token \in 0 .. issued BY DEF OwnerInv, Tokened
    <3>4. \A d \in Callers : caller'[d].token \in 0 .. issued' BY <1>3, <2>1, <3>2, <3>3
    <3>5. \A d \in Callers : caller'[d].token # NoToken => workers'[caller'[d].token].pc = "none"
      BY <1>1, <2>4, <3>2 DEF OwnerInv, Tokened
    <3>6. \A d, e \in Callers : caller'[d].token = caller'[e].token /\ caller'[d].token # NoToken => d = e
      BY <2>1, <3>2, <3>3 DEF OwnerInv, Tokened
    <3>7. \A t \in Tokens : workers'[t].pc # "none" => t <= issued'
      <4>1. \A t \in Tokens : t \in Nat BY <2>1 DEF Tokens
      <4>2. QED BY <1>1, <1>3, <2>1, <4>1 DEF OwnerInv, Tokened
    <3>8. \A t \in Tokens : workers'[t].pc = "none" => workers'[t] = Nobody BY <1>1 DEF OwnerInv, Tokened
    <3>9. QED BY <3>1, <3>4, <3>5, <3>6, <3>7, <3>8 DEF Tokened
  <2>10. QED BY <1>1, <2>1, <2>2, <2>3, <2>4, <2>7, <2>8, <2>9 DEF OwnerInv
<1>4. QED BY <1>2, <1>3 DEF ClaimBatch

-----------------------------------------------------------------------------
(* Everybody else but the workers. *)

\* A worker goes on as it was, but for its Context, or has no row, nothing to do and no snapshot.
Same(v, w)  == v.pc = w.pc /\ v.todo = w.todo /\ v.kept = w.kept /\ v.row = w.row /\ v.kind = w.kind
Empty(w)    == w.row = 0 /\ w.todo = {} /\ w.kept = {}
Fading      == \A t \in Tokens : Same(workers'[t], workers[t]) \/ Empty(workers'[t])
FreshToken  == batch'.token \in {batch.token, NoToken} \/ (batch'.token \in Tokens /\ workers'[batch'.token] = Nobody)

LEMMA NobodyForm == IsWorker(Nobody) /\ Empty(Nobody) /\ Nobody.pc = "none" BY DEF Nobody, IsWorker, Empty

LEMMA SameLive ==
    ASSUME NEW w, NEW p, NEW l, NEW t, NEW k, NEW r, NEW e,
           w = [pc |-> p, live |-> l, todo |-> t, kept |-> k, row |-> r, kind |-> e]
    PROVE  [w EXCEPT !.live = l] = w
OBVIOUS

\* Ending a Context.
LEMMA DeadForm ==
    ASSUME OwnerInv, NEW t \in Tokens
    PROVE  LET w == [workers[t] EXCEPT !.live = FALSE]
           IN  IsWorker(w) /\ Same(w, workers[t]) /\ (w.pc = "none" => w = Nobody)
<1> DEFINE w == [workers[t] EXCEPT !.live = FALSE]
<1>1. IsWorker(w) /\ Same(w, workers[t]) BY DEF OwnerInv, Shapes, IsWorker, Same
<1>2. w.pc = "none" => w = Nobody
  <2>1. SUFFICES ASSUME workers[t] = Nobody PROVE w = Nobody
    BY <1>1 DEF OwnerInv, Tokened, Same
  <2>2. [Nobody EXCEPT !.live = FALSE] = Nobody
    <3>1. Nobody = [pc |-> "none", live |-> FALSE, todo |-> {}, kept |-> {}, row |-> 0, kind |-> ""] BY DEF Nobody
    <3>2. QED BY <3>1, SameLive
  <2>3. QED BY <2>1, <2>2
<1>3. QED BY <1>1, <1>2

LEMMA StopForm ==
    ASSUME OwnerInv, NEW S, workers' = [t \in Tokens |-> IF t \in S THEN [workers[t] EXCEPT !.live = FALSE] ELSE workers[t]]
    PROVE  /\ workers' = [t \in Tokens |-> workers'[t]] /\ \A t \in Tokens : IsWorker(workers'[t]) /\ Same(workers'[t], workers[t])
           /\ \A t \in Tokens : workers'[t].pc = "none" => workers'[t] = Nobody
<1>1. \A t \in Tokens : workers'[t] = [workers[t] EXCEPT !.live = FALSE] \/ workers'[t] = workers[t] OBVIOUS
<1>2. \A t \in Tokens : IsWorker(workers[t]) /\ Same(workers[t], workers[t]) /\ (workers[t].pc = "none" => workers[t] = Nobody)
  BY DEF OwnerInv, Shapes, Tokened, IsWorker, Same
<1>3. QED BY <1>1, <1>2, DeadForm

LEMMA EnvironmentForm ==
    ASSUME OwnerInv, CancelSignal \/ UserCancel \/ UserDelete \/ LeaseLapses \/ Stop \/ Halt \/ Crash \/ Boot
    PROVE  OwnerInv' /\ RestRows /\ Fading /\ sent' = sent /\ batch'.token \in {batch.token, NoToken}
<1>1. Shapes /\ sent' = sent /\ issued' = issued
  BY DEF OwnerInv, CancelSignal, UserCancel, UserDelete, LeaseLapses, Stop, Halt, Crash, Boot
<1>2. /\ workers' = [t \in Tokens |-> workers'[t]] /\ \A t \in Tokens : IsWorker(workers'[t])
      /\ Fading /\ \A t \in Tokens : workers'[t].pc # "none" => workers[t].pc # "none"
      /\ \A t \in Tokens : workers'[t].pc = "none" => workers'[t] = Nobody
  <2>1. CASE workers' = workers BY <1>1, <2>1 DEF Fading, Same, IsWorker, OwnerInv, Shapes, Tokened
  <2>2. ASSUME NEW S, workers' = [t \in Tokens |-> IF t \in S THEN [workers[t] EXCEPT !.live = FALSE] ELSE workers[t]]
        PROVE  <1>2
    BY <2>2, StopForm DEF Fading, Same
  <2>3. CASE workers' = [t \in Tokens |-> Nobody]
    BY <2>3, NobodyForm DEF Fading
  <2>4. CASE CancelSignal
    <3> DEFINE S == {t \in Tokens : t = registry /\ t = cancel.token}
    <3>1. workers' = [t \in Tokens |-> IF t \in S THEN [workers[t] EXCEPT !.live = FALSE] ELSE workers[t]]
      BY <2>4 DEF CancelSignal
    <3> HIDE DEF S
    <3>2. QED BY <2>2, <3>1
  <2>5. CASE Stop
    <3> DEFINE S == Tokens
    <3>1. workers' = [t \in Tokens |-> IF t \in S THEN [workers[t] EXCEPT !.live = FALSE] ELSE workers[t]]
      BY <2>5 DEF Stop
    <3> HIDE DEF S
    <3>2. QED BY <2>2, <3>1
  <2>6. CASE Halt \/ Crash BY <2>3, <2>6 DEF Halt, Crash, Gone
  <2>7. CASE UserCancel \/ UserDelete \/ LeaseLapses \/ Boot
    BY <2>1, <2>7 DEF UserCancel, UserDelete, LeaseLapses, Boot
  <2>8. QED BY <2>4, <2>5, <2>6, <2>7
<1>3. /\ caller' = [d \in Callers |-> caller'[d]] /\ \A d \in Callers : DOMAIN caller'[d] = {"pc", "token"}
      /\ \A d \in Callers : caller'[d].token \in {caller[d].token, NoToken}
  <2>1. CASE caller' = caller BY <1>1, <2>1 DEF Shapes
  <2>2. CASE caller' = [d \in Callers |-> Idle]
    <3>1. DOMAIN Idle = {"pc", "token"} /\ Idle.token = NoToken BY DEF Idle
    <3>2. QED BY <2>2, <3>1
  <2>3. QED BY <2>1, <2>2 DEF CancelSignal, UserCancel, UserDelete, LeaseLapses, Stop, Halt, Crash, Boot, Gone
<1>4. RestRows /\ SteadyBatch /\ DOMAIN batch' = {"status", "token", "live"}
  <2>1. CASE UNCHANGED <<batch, rows>> BY <1>1, <2>1, SameRest DEF SteadyBatch, Shapes
  <2>2. CASE LeaseLapses
    <3>1. rows' = rows /\ batch' = [batch EXCEPT !.live = FALSE] BY <2>2 DEF LeaseLapses
    <3>2. batch'.token = batch.token /\ batch'.status = batch.status /\ DOMAIN batch' = {"status", "token", "live"}
      BY <1>1, <3>1 DEF Shapes
    <3>3. QED BY <1>1, <3>1, <3>2, SameRest DEF SteadyBatch
  <2>3. CASE UserDelete
    <3>1. rows' = rows /\ batch' = Shut("deleted") /\ batch.status \notin Open /\ "deleted" \notin Open
      BY <2>3 DEF UserDelete, Open
    <3>2. \A r \in Rows : rows'[r].status # "running" BY <3>1 DEF OwnerInv, Claimed
    <3>3. QED BY <1>1, <3>1, <3>2, ShutForm, SameRest DEF SteadyBatch
  <2>4. CASE UserCancel
    <3>1. CASE batch.status \in Open
      <4>1. rows' = rows /\ batch' = [batch EXCEPT !.status = "canceling"] BY <2>4, <3>1 DEF UserCancel
      <4>2. batch'.token = batch.token /\ batch'.status \in Open /\ DOMAIN batch' = {"status", "token", "live"}
        BY <1>1, <4>1 DEF Shapes, Open
      <4>3. QED BY <1>1, <3>1, <4>1, <4>2, SameRest DEF SteadyBatch
    <3>2. CASE batch.status \notin Open
      <4>1. rows' = On(Abandon) /\ batch' = Shut("canceled") /\ "canceled" \notin Open BY <2>4, <3>2 DEF UserCancel, Open
      <4>2. QED BY <1>1, <4>1, OnRest, ShutForm DEF SteadyBatch
    <3>3. QED BY <3>1, <3>2
  <2>5. CASE CancelSignal \/ Stop \/ Halt \/ Crash \/ Boot
    BY <2>1, <2>5 DEF CancelSignal, Stop, Halt, Crash, Boot
  <2>6. QED BY <2>2, <2>3, <2>4, <2>5
<1>5. Shapes' BY <1>2, <1>3, <1>4, RestSteady DEF Shapes, RestRows, IsRow, IsWorker
<1>6. SteadyTokens BY <1>1, <1>2, <1>3 DEF SteadyTokens
<1>7. QED BY <1>1, <1>2, <1>4, <1>5, <1>6, RestSteady, SteadyKeeps DEF SteadyBatch

\* The worker of a claim begins with nothing; the one it displaces loses its Context.
LEMMA StartForm ==
    ASSUME OwnerInv, NEW c \in Callers, StartWorker(c)
    PROVE  OwnerInv' /\ RestRows /\ Fading /\ sent' = sent /\ batch' = batch
<1> DEFINE t == caller[c].token
<1>1. Shapes /\ sent' = sent /\ issued' = issued /\ batch' = batch /\ rows' = rows BY DEF OwnerInv, StartWorker
<1>2. RestRows /\ SteadyBatch /\ SteadyRows BY <1>1, SameRest, RestSteady DEF SteadyBatch
<1>3. /\ caller' = [d \in Callers |-> caller'[d]] /\ \A d \in Callers : DOMAIN caller'[d] = {"pc", "token"}
      /\ \A d \in Callers : caller'[d].token \in {caller[d].token, NoToken}
  <2>1. \E pc : Goto(c, pc) BY DEF StartWorker
  <2>2. QED BY <1>1, <2>1, GotoForm
<1>4. CASE workers' = workers
  <2>1. Shapes' BY <1>1, <1>3, <1>4 DEF Shapes
  <2>2. SteadyTokens BY <1>1, <1>3, <1>4 DEF SteadyTokens, OwnerInv, Tokened
  <2>3. Fading BY <1>4 DEF Fading, Same
  <2>4. QED BY <1>1, <1>2, <2>1, <2>2, <2>3, SteadyKeeps
<1>5. CASE phase = "up"
  <2>1. Goto(c, "idle") /\ workers' = [u \in Tokens |-> CASE u = t -> [Nobody EXCEPT !.pc = "list", !.live = TRUE]
                                              [] u # t /\ u = registry -> [workers[u] EXCEPT !.live = FALSE]
                                              [] OTHER -> workers[u]]
    BY <1>5 DEF StartWorker
  <2> DEFINE first == [Nobody EXCEPT !.pc = "list", !.live = TRUE]
  <2>2. IsWorker(first) /\ Empty(first) /\ first.pc = "list" BY DEF Nobody, IsWorker, Empty
  <2> HIDE DEF first
  <2>3. \A u \in Tokens : u # t => workers'[u] = [workers[u] EXCEPT !.live = FALSE] \/ workers'[u] = workers[u] BY <2>1
  <2>4. \A u \in Tokens : u = t => workers'[u] = first BY <2>1 DEF first
  <2>5. \A u \in Tokens : IsWorker(workers[u]) /\ Same(workers[u], workers[u]) /\ (workers[u].pc = "none" => workers[u] = Nobody)
    BY DEF OwnerInv, Shapes, Tokened, IsWorker, Same
  <2>6. \A u \in Tokens : u # t => /\ IsWorker(workers'[u]) /\ Same(workers'[u], workers[u])
                                   /\ (workers'[u].pc = "none" => workers'[u] = Nobody)
    BY <2>3, <2>5, DeadForm
  <2>7. workers' = [u \in Tokens |-> workers'[u]] BY <2>1
  <2>8. Fading BY <2>2, <2>4, <2>6 DEF Fading
  <2>9. caller'[c].token = NoToken
    <3>1. caller' = [caller EXCEPT ![c] = Idle] BY <2>1 DEF Goto
    <3>2. QED BY <1>1, <3>1 DEF Shapes, Idle
  <2>10. Shapes' BY <1>1, <1>3, <2>2, <2>4, <2>6, <2>7 DEF Shapes, IsWorker
  <2>11. Tokened'
    <3>1. issued' \in 0 .. MaxClaims /\ batch'.token \in 0 .. issued' /\ (batch'.status \in Open => batch'.token # NoToken)
      BY <1>1 DEF OwnerInv, Tokened, Open
    <3>2. issued \in Nat /\ NoToken = 0 BY DEF OwnerInv, Tokened, NoToken
    <3>3. \A d \in Callers : caller'[d].token \in 0 .. issued' BY <1>1, <1>3, <3>2 DEF OwnerInv, Tokened
    <3>4. \A d \in Callers : caller'[d].token # NoToken => caller'[d].token = caller[d].token /\ d # c /\ caller[d].token # t
      BY <1>3, <2>9 DEF OwnerInv, Tokened
    <3>5. \A d \in Callers : caller'[d].token # NoToken => workers'[caller'[d].token].pc = "none"
      <4>1. SUFFICES ASSUME NEW d \in Callers, caller'[d].token # NoToken PROVE workers'[caller'[d].token].pc = "none" OBVIOUS
      <4>2. caller[d].token \in Tokens /\ caller[d].token # t /\ workers[caller[d].token].pc = "none"
        BY <3>2, <3>4, <4>1, BatchAssumption DEF OwnerInv, Tokened, Tokens, MaxClaims
      <4>3. QED BY <2>6, <3>4, <4>1, <4>2 DEF Same
    <3>6. \A d, e \in Callers : caller'[d].token = caller'[e].token /\ caller'[d].token # NoToken => d = e
      BY <3>4 DEF OwnerInv, Tokened
    <3>7. \A u \in Tokens : workers'[u].pc # "none" => u <= issued'
      <4>1. t \in Tokens => t <= issued BY <3>2 DEF OwnerInv, Tokened
      <4>2. \A u \in Tokens : u # t => (workers'[u].pc # "none" => u <= issued) BY <2>6 DEF Same, OwnerInv, Tokened
      <4>3. QED BY <1>1, <4>1, <4>2
    <3>8. \A u \in Tokens : workers'[u].pc = "none" => workers'[u] = Nobody BY <2>2, <2>4, <2>6
    <3>9. QED BY <3>1, <3>3, <3>5, <3>6, <3>7, <3>8 DEF Tokened
  <2>12. Claimed'
    <3>1. \A r \in Rows : rows[r].status = "running" => \A d \in Callers : caller'[d].token # batch.token
      BY <1>3 DEF OwnerInv, Claimed, Tokened
    <3>2. QED BY <1>1, <3>1 DEF OwnerInv, Claimed, Open
  <2>13. QED BY <1>1, <1>2, <2>8, <2>10, <2>11, <2>12 DEF OwnerInv
<1>6. QED BY <1>4, <1>5 DEF StartWorker

-----------------------------------------------------------------------------
(* No row is published twice. *)

Sending == {"slot", "send"}
Runs(t, r) == rows[r].status = "running" /\ rows[r].token = t

\* While a request may be under way its row is marked, or was closed by hand.
Locked(t, rw) == /\ ~rw.item
                 /\ \/ rw.status = "running" /\ rw.kind = "remote_started" /\ rw.token = t
                    \/ rw.status = "failed" /\ rw.kind = "uncertain_remote"

\* What worker t knows of row r: the snapshot is not ahead of the table, and for the owner of the batch not behind it
\* on what it has still to do; it sends only a marked row that was not sent before, goes on to the local part only with
\* an item number, and reports a failure that may be retried only when nothing was sent or the number was saved.
WorkerOK(t, r) ==
    /\ workers[t].row = r => workers[t].pc \notin {"list", "next"}
    /\ r \in workers[t].kept => rows[r].item
    /\ workers[t].row = r => r \notin workers[t].todo
    /\ batch.token = t /\ rows[r].item /\ (r \in workers[t].todo \/ (workers[t].pc = "claim" /\ workers[t].row = r))
          => r \in workers[t].kept
    /\ workers[t].row = r /\ workers[t].pc \in Sending => Locked(t, rows[r]) /\ sent[r] = 0
    /\ workers[t].row = r /\ workers[t].pc \in {"local", "success"} => rows[r].item
    /\ workers[t].row = r /\ workers[t].pc = "prepare" /\ Runs(t, r)
          => rows[r].kind = "" /\ (rows[r].item => r \in workers[t].kept)
    /\ workers[t].row = r /\ workers[t].pc = "fail" /\ workers[t].kind # "uncertain_remote" /\ Runs(t, r) /\ sent[r] # 0
          => rows[r].item

\* A row that was sent has its item number, is marked, or is closed by hand.
RowOK(r) == /\ sent[r] \in {0, 1}
            /\ sent[r] = 1 => rows[r].item \/ Unknown(rows[r])
                             \/ (rows[r].status = "failed" /\ rows[r].kind = "uncertain_remote")

OneSender == \A t, u \in Tokens : workers[t].pc \in Sending /\ workers[u].pc \in Sending
                 /\ workers[t].row = workers[u].row /\ workers[t].row \in Rows => t = u

SentInv == /\ sent = [r \in Rows |-> sent[r]]
           /\ \A t \in Tokens : workers[t].todo \in SUBSET Rows
           /\ \A r \in Rows : RowOK(r) /\ \A t \in Tokens : WorkerOK(t, r)
           /\ OneSender

LEMMA Numbers == 0 \notin Rows /\ NoToken \notin Tokens /\ Rows \in SUBSET Nat
BY BatchAssumption DEF Rows, Tokens, NoToken

LEMMA InitSent == Init => SentInv
<1> SUFFICES ASSUME Init PROVE SentInv OBVIOUS
<1>1. \A t \in Tokens : workers[t] = Nobody BY DEF Init
<1>2. \A r \in Rows : sent[r] = 0 /\ sent = [x \in Rows |-> sent[x]] BY DEF Init
<1>3. \A r \in Rows : RowOK(r) BY <1>2 DEF RowOK
<1>4. \A r \in Rows, t \in Tokens : WorkerOK(t, r) BY <1>1, Numbers, NobodyForm DEF WorkerOK, Empty, Sending
<1>5. OneSender BY <1>1, NobodyForm DEF OneSender, Sending
<1>6. QED BY <1>1, <1>2, <1>3, <1>4, <1>5, NobodyForm DEF SentInv, Empty, Init

\* Steps in which rows rest and workers fade.
LEMMA RestKeeps ==
    ASSUME OwnerInv, SentInv, RestRows, Fading, sent' = sent, FreshToken
    PROVE  SentInv'
<1>1. \A r \in Rows : Rest(rows[r], rows'[r]) BY DEF RestRows
<1>2. ASSUME NEW r \in Rows PROVE RowOK(r)'
  <2>1. RowOK(r) /\ sent'[r] = sent[r] /\ Rest(rows[r], rows'[r]) BY <1>1, <1>2 DEF SentInv
  <2>2. CASE rows'[r] = rows[r] BY <2>1, <2>2 DEF RowOK, Unknown
  <2>3. CASE rows'[r] # rows[r]
    <3>1. rows[r].item => rows'[r].item BY <2>1 DEF Rest
    <3>2. Unknown(rows[r]) => rows'[r].status = "failed" /\ rows'[r].kind = "uncertain_remote" BY <2>1, <2>3 DEF Rest
    <3>3. ~(rows[r].status = "failed" /\ rows[r].kind = "uncertain_remote") BY <2>1, <2>3 DEF Rest
    <3>4. sent'[r] \in {0, 1} /\ (sent'[r] = 1 => rows'[r].item \/ (rows'[r].status = "failed" /\ rows'[r].kind = "uncertain_remote"))
      BY <2>1, <3>1, <3>2, <3>3 DEF RowOK
    <3>5. QED BY <3>4 DEF RowOK
  <2>4. QED BY <2>2, <2>3
<1>3. ASSUME NEW r \in Rows, NEW t \in Tokens PROVE WorkerOK(t, r)'
  <2>1. CASE Empty(workers'[t]) BY <2>1, <1>3, Numbers DEF Empty, WorkerOK
  <2>2. CASE Same(workers'[t], workers[t])
    <3>1. WorkerOK(t, r) /\ Rest(rows[r], rows'[r]) BY <1>1, <1>3 DEF SentInv
    <3>2. rows'[r].item = rows[r].item /\ (Runs(t, r)' => rows'[r] = rows[r]) BY <3>1 DEF Rest, Runs
    <3>3. Locked(t, rows[r]) => Locked(t, rows'[r]) BY <3>1 DEF Locked, Rest, Unknown
    <3>4. batch'.token = t => batch.token = t \/ (workers'[t].todo = {} /\ workers'[t].row = 0)
      BY <1>3, Numbers, NobodyForm DEF FreshToken, Empty
    <3>5. QED BY <1>3, <2>2, <3>1, <3>2, <3>3, <3>4, Numbers DEF WorkerOK, Same, Runs
  <2>3. QED BY <1>3, <2>1, <2>2 DEF Fading
<1>4. OneSender' BY Numbers DEF SentInv, OneSender, Fading, Same, Empty
<1>5. \A t \in Tokens : workers'[t].todo \in SUBSET Rows BY DEF SentInv, Fading, Same, Empty
<1>6. QED BY <1>2, <1>3, <1>4, <1>5 DEF SentInv

-----------------------------------------------------------------------------
(* Workers. *)

LEMMA ToForm ==
    ASSUME OwnerInv, NEW t \in Tokens, NEW pc
    PROVE  LET w == To(t, pc) IN
           /\ IsWorker(w) /\ w.pc = pc
           /\ pc \in Last => Empty(w)
           /\ pc \notin Last => w.todo = workers[t].todo /\ w.kept = workers[t].kept
           /\ pc = "next" => w.row = 0
           /\ pc \notin Last \cup {"next"} => w.row = workers[t].row /\ w.kind = workers[t].kind
<1>1. DOMAIN workers[t] = {"pc", "live", "todo", "kept", "row", "kind"} BY DEF OwnerInv, Shapes
<1>2. CASE pc \in Last
  <2> DEFINE w == [Nobody EXCEPT !.pc = pc, !.live = workers[t].live]
  <2>1. To(t, pc) = w BY <1>2 DEF To, Last
  <2>2. IsWorker(w) /\ w.pc = pc /\ Empty(w) BY DEF Nobody, IsWorker, Empty
  <2>3. pc # "next" BY <1>2 DEF Last
  <2>4. QED BY <1>2, <2>1, <2>2, <2>3
<1>3. CASE pc = "next"
  <2> DEFINE w == [workers[t] EXCEPT !.pc = pc, !.row = 0, !.kind = ""]
  <2>1. To(t, pc) = w /\ pc \notin Last BY <1>3 DEF To, Last
  <2>2. IsWorker(w) /\ w.pc = pc /\ w.row = 0 /\ w.todo = workers[t].todo /\ w.kept = workers[t].kept
    BY <1>1 DEF IsWorker
  <2>3. QED BY <1>3, <2>1, <2>2
<1>4. CASE pc \notin Last \cup {"next"}
  <2> DEFINE w == [workers[t] EXCEPT !.pc = pc]
  <2>1. To(t, pc) = w BY <1>4 DEF To
  <2>2. IsWorker(w) /\ w.pc = pc /\ w.row = workers[t].row /\ w.todo = workers[t].todo /\ w.kept = workers[t].kept
        /\ w.kind = workers[t].kind
    BY <1>1 DEF IsWorker
  <2>3. QED BY <1>4, <2>1, <2>2
<1>5. QED BY <1>2, <1>3, <1>4

LEMMA ErrorForm ==
    ASSUME OwnerInv, NEW t \in Tokens, NEW k
    PROVE  LET w == Error(t, k) IN
           /\ IsWorker(w) /\ w.pc = "fail" /\ w.kind = k
           /\ w.row = workers[t].row /\ w.todo = workers[t].todo /\ w.kept = workers[t].kept
<1>1. DOMAIN workers[t] = {"pc", "live", "todo", "kept", "row", "kind"} BY DEF OwnerInv, Shapes
<1>2. QED BY <1>1 DEF Error, IsWorker

LEMMA StepForm ==
    ASSUME OwnerInv, NEW t \in Tokens, NEW w, Step(t, w), IsWorker(w)
    PROVE  /\ workers' = [u \in Tokens |-> workers'[u]] /\ \A u \in Tokens : IsWorker(workers'[u])
           /\ workers'[t] = w /\ \A u \in Tokens : u # t => workers'[u] = workers[u]
BY DEF OwnerInv, Shapes, Step, IsWorker

\* The row at hand is written by the worker that runs it, or claimed by the worker of the batch.
Touched(t, r) ==
    /\ r = workers[t].row
    /\ Runs(t, r) \/ (rows[r].status = "pending" /\ Owned(t))
    /\ rows[r].item => rows'[r].item
    /\ rows'[r].item # rows[r].item => Runs(t, r)
    /\ rows'[r].status = "running" => rows'[r].token = t

LEMMA WriteForm ==
    ASSUME OwnerInv, NEW t \in Tokens, NEW rw, WriteRow(t, rw), workers[t].row \in Rows => IsRow(rw)
    PROVE  /\ rows' = [r \in Rows |-> rows'[r]] /\ \A r \in Rows : IsRow(rows'[r])
           /\ \A r \in Rows : rows'[r] = IF r = workers[t].row THEN rw ELSE rows[r]
BY DEF OwnerInv, Shapes, WriteRow, IsRow

\* One step of worker t.
Moves(t, w) ==
    /\ workers[t].pc # "none" /\ Step(t, w) /\ IsWorker(w) /\ w.pc # "none"
    /\ caller' = caller /\ issued' = issued /\ SteadyBatch /\ DOMAIN batch' = {"status", "token", "live"}
    /\ rows' = [r \in Rows |-> rows'[r]] /\ \A r \in Rows : IsRow(rows'[r])

LEMMA MoveKeepsOwner ==
    ASSUME OwnerInv, NEW t \in Tokens, NEW w, Moves(t, w), SteadyRows
    PROVE  OwnerInv'
<1>1. /\ workers' = [u \in Tokens |-> workers'[u]] /\ \A u \in Tokens : IsWorker(workers'[u])
      /\ workers'[t] = w /\ \A u \in Tokens : u # t => workers'[u] = workers[u]
  BY StepForm DEF Moves
<1>2. Shapes' BY <1>1 DEF Shapes, Moves, OwnerInv, IsWorker, IsRow
<1>3. SteadyTokens BY <1>1 DEF SteadyTokens, Moves, OwnerInv, Tokened
<1>4. QED BY <1>2, <1>3, SteadyKeeps DEF Moves

LEMMA TouchedIsSteady ==
    ASSUME OwnerInv, NEW t \in Tokens, workers[t].pc # "none", \A r \in Rows : rows'[r] = rows[r] \/ Touched(t, r)
    PROVE  SteadyRows
<1> SUFFICES ASSUME NEW r \in Rows, rows'[r].status = "running", Touched(t, r)
             PROVE  \/ rows[r].status = "running" /\ rows'[r].token = rows[r].token
                    \/ batch.status \in Open /\ rows'[r].token = batch.token /\ workers[batch.token].pc # "none"
  BY DEF SteadyRows
<1>1. rows'[r].token = t BY DEF Touched
<1>2. QED BY <1>1 DEF Touched, Runs, Owned, Open

LEMMA MoveKeeps ==
    ASSUME OwnerInv, SentInv, NEW t \in Tokens, NEW w, Moves(t, w), w.todo \in SUBSET Rows,
           sent' = [r \in Rows |-> sent'[r]],
           \A r \in Rows : rows'[r] = rows[r] \/ Touched(t, r),
           \A r \in Rows : sent'[r] = sent[r] \/ (workers[t].pc = "send" /\ workers[t].row = r),
           \A r \in Rows : RowOK(r)' /\ WorkerOK(t, r)',
           w.pc \in Sending => w.row = workers[t].row /\ (workers[t].pc \in Sending \/ (w.row \in Rows => Runs(t, w.row)))
    PROVE  OwnerInv' /\ SentInv'
<1>1. workers'[t] = w /\ \A u \in Tokens : u # t => workers'[u] = workers[u] BY StepForm DEF Moves
<1>2. OwnerInv' BY TouchedIsSteady, MoveKeepsOwner DEF Moves
<1>3. ASSUME NEW u \in Tokens, u # t, NEW r \in Rows PROVE WorkerOK(u, r)'
  <2>1. workers'[u] = workers[u] /\ WorkerOK(u, r) /\ WorkerOK(t, r) BY <1>1, <1>3 DEF SentInv
  <2>2. rows'[r] = rows[r] \/ Touched(t, r) BY <1>3
  <2>3. sent'[r] = sent[r] \/ (workers[t].pc = "send" /\ workers[t].row = r) BY <1>3
  <2>4. batch'.token = u => batch.token = u BY <1>3, Numbers DEF Moves, SteadyBatch
  <2>5. rows[r].item => rows'[r].item BY <2>2 DEF Touched
  <2>6. Runs(u, r)' => rows'[r] = rows[r] /\ Runs(u, r) BY <1>3, <2>2 DEF Touched, Runs
  <2>7. Locked(u, rows[r]) => rows'[r] = rows[r] BY <1>3, <2>2 DEF Locked, Touched, Runs
  <2>8. batch.token = u /\ rows'[r].item => rows[r].item
    <3>1. Runs(t, r) => batch.token = t BY <1>3 DEF OwnerInv, Claimed, Runs
    <3>2. QED BY <1>3, <2>2, <3>1 DEF Touched
  <2>9. workers[u].row = r /\ workers[u].pc \in Sending => sent'[r] = sent[r]
    BY <1>3, <2>3 DEF SentInv, OneSender, Sending
  <2>10. Runs(u, r) => sent'[r] = sent[r]
    <3>1. workers[t].pc = "send" /\ workers[t].row = r => Locked(t, rows[r]) BY <2>1 DEF WorkerOK, Sending
    <3>2. QED BY <1>3, <2>3, <3>1 DEF Locked, Runs
  <2>11. QED BY <2>1, <2>4, <2>5, <2>6, <2>7, <2>8, <2>9, <2>10 DEF WorkerOK
<1>4. OneSender'
  <2> SUFFICES ASSUME NEW u \in Tokens, u # t, w.pc \in Sending, workers[u].pc \in Sending,
                      w.row = workers[u].row, w.row \in Rows
               PROVE  FALSE
    BY <1>1 DEF SentInv, OneSender
  <2>1. CASE workers[t].pc \in Sending BY <2>1 DEF SentInv, OneSender
  <2>2. CASE Runs(t, w.row)
    <3>1. Locked(u, rows[w.row]) BY DEF SentInv, WorkerOK
    <3>2. QED BY <2>2, <3>1 DEF Locked, Runs
  <2>3. QED BY <2>1, <2>2
<1>5. \A u \in Tokens : workers'[u].todo \in SUBSET Rows BY <1>1 DEF SentInv
<1>6. \A u \in Tokens, r \in Rows : WorkerOK(u, r)' BY <1>3
<1>7. QED BY <1>2, <1>4, <1>5, <1>6 DEF SentInv

-----------------------------------------------------------------------------
(* The steps of a worker. *)

\* It stops working on rows.
LEMMA EndMove ==
    ASSUME OwnerInv, SentInv, NEW t \in Tokens, workers[t].pc # "none", NEW pc \in Last, Step(t, To(t, pc)),
           RestRows, SteadyBatch, DOMAIN batch' = {"status", "token", "live"},
           caller' = caller, issued' = issued, sent' = sent
    PROVE  OwnerInv' /\ SentInv'
<1> DEFINE w == To(t, pc)
<1>1. IsWorker(w) /\ w.pc = pc /\ Empty(w) BY ToForm
<1>2. w.pc # "none" BY <1>1 DEF Last
<1> HIDE DEF w
<1>3. Moves(t, w) BY <1>1, <1>2, RestSteady DEF Moves, RestRows, w
<1>4. OwnerInv' BY <1>3, RestSteady, MoveKeepsOwner
<1>5. workers'[t] = w /\ \A u \in Tokens : u # t => workers'[u] = workers[u] BY <1>1, StepForm DEF w
<1>6. Fading BY <1>1, <1>5 DEF Fading, Same
<1>7. FreshToken BY DEF FreshToken, SteadyBatch
<1>8. QED BY <1>4, <1>6, <1>7, RestKeeps

\* It goes on and writes nothing.
LEMMA QuietMove ==
    ASSUME OwnerInv, SentInv, NEW t \in Tokens, workers[t].pc # "none", NEW w, Step(t, w), IsWorker(w), w.pc # "none",
           batch'.token = batch.token, batch'.status = batch.status, DOMAIN batch' = {"status", "token", "live"},
           rows' = rows, caller' = caller, issued' = issued, sent' = sent, w.todo \in SUBSET Rows,
           workers'[t] = w => \A r \in Rows : WorkerOK(t, r)',
           w.pc \in Sending => w.row = workers[t].row /\ workers[t].pc \in Sending
    PROVE  OwnerInv' /\ SentInv'
<1>1. Moves(t, w) BY DEF Moves, SteadyBatch, OwnerInv, Shapes, IsRow
<1>2. workers'[t] = w BY StepForm
<1>3. \A r \in Rows : RowOK(r)' BY DEF SentInv, RowOK, Unknown
<1>4. sent' = [r \in Rows |-> sent'[r]] BY DEF SentInv
<1>5. QED BY <1>1, <1>2, <1>3, <1>4, MoveKeeps

\* It writes the row at hand.
LEMMA WriteMove ==
    ASSUME OwnerInv, SentInv, NEW t \in Tokens, workers[t].pc # "none", NEW w, Step(t, w), IsWorker(w), w.pc # "none",
           batch' = batch, caller' = caller, issued' = issued, sent' = sent, w.todo = workers[t].todo,
           NEW rw, WriteRow(t, rw), workers[t].row \in Rows => IsRow(rw),
           \A r \in Rows : r = workers[t].row /\ rows'[r] = rw => Touched(t, r) /\ RowOK(r)',
           workers'[t] = w /\ (\A r \in Rows : r # workers[t].row => rows'[r] = rows[r])
              /\ (\A r \in Rows : r = workers[t].row => rows'[r] = rw) => \A r \in Rows : WorkerOK(t, r)',
           w.pc \in Sending => w.row = workers[t].row /\ (w.row \in Rows => Runs(t, w.row))
    PROVE  OwnerInv' /\ SentInv'
<1>1. /\ rows' = [r \in Rows |-> rows'[r]] /\ \A r \in Rows : IsRow(rows'[r])
      /\ \A r \in Rows : rows'[r] = IF r = workers[t].row THEN rw ELSE rows[r]
  BY WriteForm
<1>2. Moves(t, w) BY <1>1 DEF Moves, SteadyBatch, OwnerInv, Shapes
<1>3. workers'[t] = w BY StepForm
<1>4. ASSUME NEW r \in Rows PROVE RowOK(r)'
  <2>1. CASE r = workers[t].row BY <1>1, <1>4, <2>1
  <2>2. CASE r # workers[t].row
    <3>1. RowOK(r) /\ rows'[r] = rows[r] /\ sent'[r] = sent[r] BY <1>1, <1>4, <2>2 DEF SentInv
    <3>2. QED BY <3>1 DEF RowOK, Unknown
  <2>3. QED BY <2>1, <2>2
<1>5. sent' = [r \in Rows |-> sent'[r]] /\ w.todo \in SUBSET Rows BY DEF SentInv
<1>6. \A r \in Rows : rows'[r] = rows[r] \/ Touched(t, r) BY <1>1
<1>7. \A r \in Rows : WorkerOK(t, r)' BY <1>1, <1>3
<1>8. QED BY <1>2, <1>4, <1>5, <1>6, <1>7, MoveKeeps

\* A failure that is unknown at the platform, or of a row with its item number, or of one that nobody has sent.
LEMMA ErrorMove ==
    ASSUME OwnerInv, SentInv, NEW t \in Tokens, workers[t].pc # "none", NEW k, Step(t, Error(t, k)),
           UNCHANGED <<batch, rows, caller, issued, sent>>,
           \A r \in Rows : workers[t].row = r /\ k # "uncertain_remote" /\ Runs(t, r) => sent[r] = 0 \/ rows[r].item
    PROVE  OwnerInv' /\ SentInv'
<1> DEFINE w == Error(t, k)
<1>1. /\ IsWorker(w) /\ w.pc = "fail" /\ w.kind = k
      /\ w.row = workers[t].row /\ w.todo = workers[t].todo /\ w.kept = workers[t].kept
  BY ErrorForm
<1> HIDE DEF w
<1>2. ASSUME workers'[t] = w, NEW r \in Rows PROVE WorkerOK(t, r)'
  <2>1. WorkerOK(t, r) BY <1>2 DEF SentInv
  <2>2. QED BY <1>1, <1>2, <2>1 DEF WorkerOK, Runs, Sending
<1>3. w.todo \in SUBSET Rows /\ DOMAIN batch' = {"status", "token", "live"} BY <1>1 DEF SentInv, OwnerInv, Shapes
<1>4. Step(t, w) BY DEF w
<1>5. QED BY <1>1, <1>2, <1>3, <1>4, QuietMove DEF Sending

LEMMA ListStep == ASSUME OwnerInv, SentInv, NEW t \in Tokens, WorkerList(t) PROVE OwnerInv' /\ SentInv'
<1>1. workers[t].pc = "list" /\ UNCHANGED <<batch, rows, caller, issued, sent>> BY DEF WorkerList, At, WorkerKeeps
<1>2. CASE ~workers[t].live
  <2>1. Step(t, To(t, "read")) /\ "read" \in Last BY <1>2 DEF WorkerList, Last
  <2>2. RestRows /\ SteadyBatch /\ DOMAIN batch' = {"status", "token", "live"} BY <1>1, SameRest DEF OwnerInv, Shapes, SteadyBatch
  <2>3. QED BY <1>1, <2>1, <2>2, EndMove
<1>3. CASE workers[t].live
  <2> DEFINE w == [workers[t] EXCEPT !.pc = "next", !.todo = With(rows, "pending"), !.kept = {r \in Rows : rows[r].item}]
  <2>1. Step(t, w) BY <1>3 DEF WorkerList
  <2>2. IsWorker(w) /\ w.pc = "next" /\ w.row = workers[t].row /\ w.todo = With(rows, "pending")
        /\ w.kept = {r \in Rows : rows[r].item}
    BY DEF OwnerInv, Shapes, IsWorker
  <2> HIDE DEF w
  <2>3. ASSUME workers'[t] = w, NEW r \in Rows PROVE WorkerOK(t, r)'
    <3>1. workers[t].row # r BY <1>1, <2>3 DEF SentInv, WorkerOK
    <3>2. QED BY <1>1, <2>2, <2>3, <3>1 DEF WorkerOK
  <2>4. w.todo \in SUBSET Rows /\ DOMAIN batch' = {"status", "token", "live"} BY <1>1, <2>2 DEF With, OwnerInv, Shapes
  <2>5. QED BY <1>1, <2>1, <2>2, <2>3, <2>4, QuietMove DEF Sending
<1>4. QED BY <1>2, <1>3

LEMMA NextStep == ASSUME OwnerInv, SentInv, NEW t \in Tokens, NextRow(t) PROVE OwnerInv' /\ SentInv'
<1>1. workers[t].pc = "next" /\ UNCHANGED <<rows, caller, issued, sent>> BY DEF NextRow, At, WorkerKeeps
<1>2. CASE ~(workers[t].todo # {} /\ workers[t].live /\ Owned(t))
  <2>1. batch' = batch /\ \E pc \in Last : Step(t, To(t, pc)) BY <1>2 DEF NextRow, Last
  <2>2. RestRows /\ SteadyBatch /\ DOMAIN batch' = {"status", "token", "live"}
    BY <1>1, <2>1, SameRest DEF OwnerInv, Shapes, SteadyBatch
  <2>3. QED BY <1>1, <2>1, <2>2, EndMove
<1>3. CASE workers[t].todo # {} /\ workers[t].live /\ Owned(t)
  <2> DEFINE m == Min(workers[t].todo)
             w == [workers[t] EXCEPT !.pc = "claim", !.row = m, !.todo = workers[t].todo \ {m}]
  <2>1. Step(t, w) /\ batch' = [batch EXCEPT !.live = TRUE] BY <1>3 DEF NextRow
  <2>2. m \in workers[t].todo
    <3>1. workers[t].todo \in SUBSET Nat BY Numbers DEF SentInv
    <3>2. QED BY <1>3, <3>1, MinIsMember
  <2> HIDE DEF m
  <2>3. IsWorker(w) /\ w.pc = "claim" /\ w.row = m /\ w.todo = workers[t].todo \ {m} /\ w.kept = workers[t].kept
    BY DEF OwnerInv, Shapes, IsWorker
  <2> HIDE DEF w
  <2>4. batch'.token = batch.token /\ batch'.status = batch.status /\ DOMAIN batch' = {"status", "token", "live"}
    BY <2>1 DEF OwnerInv, Shapes
  <2>5. ASSUME workers'[t] = w, NEW r \in Rows PROVE WorkerOK(t, r)'
    <3>1. WorkerOK(t, r) BY <2>5 DEF SentInv
    <3>2. QED BY <1>1, <2>2, <2>3, <2>4, <2>5, <3>1 DEF WorkerOK, Sending
  <2>6. w.todo \in SUBSET Rows BY <2>3 DEF SentInv
  <2>7. QED BY <1>1, <2>1, <2>3, <2>4, <2>5, <2>6, QuietMove DEF Sending
<1>4. QED BY <1>2, <1>3

LEMMA ClaimStep == ASSUME OwnerInv, SentInv, NEW t \in Tokens, ClaimRow(t) PROVE OwnerInv' /\ SentInv'
<1>1. workers[t].pc = "claim" /\ UNCHANGED <<batch, caller, issued, sent>> BY DEF ClaimRow, At, WorkerKeeps
<1>2. DOMAIN batch' = {"status", "token", "live"} BY <1>1 DEF OwnerInv, Shapes
<1> DEFINE old == rows[workers[t].row]
<1>3. CASE workers[t].live /\ CanClaimRow(t)
  <2> DEFINE w  == To(t, "prepare")
             rw == [old EXCEPT !.status = "running", !.token = t, !.kind = ""]
  <2>1. Step(t, w) /\ WriteRow(t, rw) BY <1>3 DEF ClaimRow
  <2>2. /\ IsWorker(w) /\ w.pc = "prepare" /\ w.row = workers[t].row
        /\ w.todo = workers[t].todo /\ w.kept = workers[t].kept
    BY ToForm DEF Last
  <2>3. workers[t].row \in Rows => IsRow(rw) /\ rw.status = "running" /\ rw.token = t /\ rw.kind = "" /\ rw.item = old.item
    BY DEF OwnerInv, Shapes, IsRow
  <2> HIDE DEF w, rw
  <2>4. old.status = "pending" /\ Owned(t) BY <1>3 DEF CanClaimRow
  <2>5. ASSUME NEW r \in Rows, r = workers[t].row, rows'[r] = rw PROVE Touched(t, r) /\ RowOK(r)'
    <3>1. Touched(t, r) BY <2>3, <2>4, <2>5 DEF Touched
    <3>2. RowOK(r) BY <2>5 DEF SentInv
    <3>3. QED BY <1>1, <2>3, <2>4, <2>5, <3>1, <3>2 DEF RowOK, Unknown
  <2>6. ASSUME workers'[t] = w, \A r \in Rows : r # workers[t].row => rows'[r] = rows[r],
               \A r \in Rows : r = workers[t].row => rows'[r] = rw, NEW r \in Rows
        PROVE  WorkerOK(t, r)'
    <3>1. WorkerOK(t, r) BY <2>6 DEF SentInv
    <3>2. batch.token = t BY <2>4 DEF Owned
    <3>3. rows'[r].item = rows[r].item BY <2>3, <2>6
    <3>4. workers[t].row = r => rows'[r].kind = "" BY <2>3, <2>6
    <3>5. QED BY <1>1, <2>2, <2>6, <3>1, <3>2, <3>3, <3>4 DEF WorkerOK, Sending
  <2>7. \A r \in Rows : r = workers[t].row /\ rows'[r] = rw => Touched(t, r) /\ RowOK(r)' BY <2>5
  <2>8. workers'[t] = w /\ (\A r \in Rows : r # workers[t].row => rows'[r] = rows[r])
           /\ (\A r \in Rows : r = workers[t].row => rows'[r] = rw) => \A r \in Rows : WorkerOK(t, r)'
    BY <2>6
  <2>9. w.pc \notin Sending /\ w.pc # "none" /\ workers[t].pc # "none" BY <1>1, <2>2 DEF Sending
  <2>10. workers[t].row \in Rows => IsRow(rw) BY <2>3
  <2>11. QED BY <1>1, <2>1, <2>2, <2>7, <2>8, <2>9, <2>10, WriteMove
<1>4. CASE ~(workers[t].live /\ CanClaimRow(t))
  <2>1. rows' = rows /\ (Step(t, To(t, "read")) \/ Step(t, To(t, "next"))) BY <1>4 DEF ClaimRow
  <2>2. CASE Step(t, To(t, "read"))
    <3>1. RestRows /\ SteadyBatch /\ "read" \in Last BY <1>1, <2>1, SameRest DEF OwnerInv, SteadyBatch, Last
    <3>2. QED BY <1>1, <1>2, <2>2, <3>1, EndMove
  <2>3. CASE Step(t, To(t, "next"))
    <3> DEFINE w == To(t, "next")
    <3>1. IsWorker(w) /\ w.pc = "next" /\ w.row = 0 /\ w.todo = workers[t].todo /\ w.kept = workers[t].kept
      BY ToForm DEF Last
    <3> HIDE DEF w
    <3>2. ASSUME workers'[t] = w, NEW r \in Rows PROVE WorkerOK(t, r)'
      <4>1. WorkerOK(t, r) /\ r # 0 BY <3>2, Numbers DEF SentInv
      <4>2. QED BY <1>1, <2>1, <3>1, <3>2, <4>1 DEF WorkerOK, Sending
    <3>3. Step(t, w) /\ w.todo \in SUBSET Rows BY <2>3, <3>1 DEF SentInv, w
    <3>4. QED BY <1>1, <1>2, <2>1, <3>1, <3>2, <3>3, QuietMove DEF Sending
  <2>4. QED BY <2>1, <2>2, <2>3
<1>5. QED BY <1>3, <1>4

\* It goes on with the row at hand.
LEMMA GoOn ==
    ASSUME OwnerInv, SentInv, NEW t \in Tokens, workers[t].pc # "none", NEW pc, Step(t, To(t, pc)),
           UNCHANGED <<batch, rows, caller, issued, sent>>,
           \/ pc = "send" /\ workers[t].pc \in Sending
           \/ pc \in {"local", "success"} /\ \A r \in Rows : workers[t].row = r => rows[r].item
           \/ pc = "next"
    PROVE  OwnerInv' /\ SentInv'
<1> DEFINE w == To(t, pc)
<1>1. /\ IsWorker(w) /\ w.pc = pc /\ (pc = "next" => w.row = 0) /\ (pc # "next" => w.row = workers[t].row)
      /\ w.todo = workers[t].todo /\ w.kept = workers[t].kept
  BY ToForm DEF Last
<1> HIDE DEF w
<1>2. ASSUME workers'[t] = w, NEW r \in Rows PROVE WorkerOK(t, r)'
  <2>1. WorkerOK(t, r) /\ r # 0 BY <1>2, Numbers DEF SentInv
  <2>2. QED BY <1>1, <1>2, <2>1 DEF WorkerOK, Sending, Locked
<1>3. Step(t, w) /\ w.todo \in SUBSET Rows /\ DOMAIN batch' = {"status", "token", "live"}
  BY <1>1 DEF SentInv, OwnerInv, Shapes, w
<1>4. w.pc # "none" /\ (w.pc \in Sending => w.row = workers[t].row /\ workers[t].pc \in Sending) BY <1>1 DEF Sending
<1>5. QED BY <1>1, <1>2, <1>3, <1>4, QuietMove

\* A row its worker runs and has not sent, or sent with an item number to show for it.
LEMMA UnsentRow ==
    ASSUME SentInv, NEW t \in Tokens, NEW r \in Rows, workers[t].row = r, workers[t].pc = "prepare", r \notin workers[t].kept,
           Runs(t, r)
    PROVE  sent[r] = 0 /\ ~rows[r].item
BY DEF SentInv, WorkerOK, RowOK, Unknown, Runs

LEMMA PrepareStep == ASSUME OwnerInv, SentInv, NEW t \in Tokens, Prepare(t) PROVE OwnerInv' /\ SentInv'
<1>1. workers[t].pc = "prepare" /\ UNCHANGED <<batch, caller, issued, sent>> BY DEF Prepare, At, WorkerKeeps
<1>2. CASE workers[t].row \in workers[t].kept /\ Step(t, To(t, "local")) /\ rows' = rows
  <2>1. \A r \in Rows : workers[t].row = r => rows[r].item BY <1>2 DEF SentInv, WorkerOK
  <2>2. QED BY <1>1, <1>2, <2>1, GoOn
<1>3. CASE workers[t].row \notin workers[t].kept /\ Step(t, Error(t, "publish")) /\ rows' = rows
  <2>1. \A r \in Rows : workers[t].row = r /\ Runs(t, r) => sent[r] = 0 BY <1>1, <1>3, UnsentRow
  <2>2. QED BY <1>1, <1>3, <2>1, ErrorMove
<1>4. ASSUME NEW w, w = To(t, "slot") \/ w = Error(t, "publish"), Step(t, w),
             workers[t].row \notin workers[t].kept, Mine(t),
             WriteRow(t, [rows[workers[t].row] EXCEPT !.kind = "remote_started"])
      PROVE  OwnerInv' /\ SentInv'
  <2> DEFINE old == rows[workers[t].row]
             rw == [old EXCEPT !.kind = "remote_started"]
  <2>1. /\ IsWorker(w) /\ (w.pc = "slot" \/ (w.pc = "fail" /\ w.kind = "publish")) /\ w.row = workers[t].row
        /\ w.todo = workers[t].todo /\ w.kept = workers[t].kept
    BY <1>4, ToForm, ErrorForm DEF Last
  <2>2. workers[t].row \in Rows =>
            /\ IsRow(rw) /\ rw.status = "running" /\ rw.token = t /\ rw.kind = "remote_started" /\ rw.item = old.item
            /\ Runs(t, workers[t].row) /\ sent[workers[t].row] = 0 /\ ~old.item
    <3>1. workers[t].row \in Rows => Runs(t, workers[t].row) /\ DOMAIN old = {"status", "kind", "token", "item"}
      BY <1>4 DEF Mine, Runs, OwnerInv, Shapes
    <3>2. workers[t].row \in Rows => sent[workers[t].row] = 0 /\ ~old.item BY <1>1, <1>4, <3>1, UnsentRow
    <3>3. QED BY <3>1, <3>2 DEF IsRow, Runs
  <2>3. WriteRow(t, rw) BY <1>4
  <2> HIDE DEF rw
  <2>4. ASSUME NEW r \in Rows, r = workers[t].row, rows'[r] = rw PROVE Touched(t, r) /\ RowOK(r)'
    BY <1>1, <2>2, <2>4 DEF Touched, RowOK
  <2>5. ASSUME workers'[t] = w, \A r \in Rows : r # workers[t].row => rows'[r] = rows[r],
               \A r \in Rows : r = workers[t].row => rows'[r] = rw, NEW r \in Rows
        PROVE  WorkerOK(t, r)'
    <3>1. WorkerOK(t, r) BY <2>5 DEF SentInv
    <3>2. rows'[r].item = rows[r].item BY <2>2, <2>5
    <3>3. workers[t].row = r => Locked(t, rows'[r]) /\ sent'[r] = 0 BY <1>1, <2>2, <2>5 DEF Locked
    <3>4. QED BY <1>1, <2>1, <2>5, <3>1, <3>2, <3>3 DEF WorkerOK, Sending
  <2>6. QED BY <1>1, <1>4, <2>1, <2>2, <2>3, <2>4, <2>5, WriteMove
<1>5. QED BY <1>2, <1>3, <1>4 DEF Prepare

LEMMA SlotStep == ASSUME OwnerInv, SentInv, NEW t \in Tokens, ReserveSlot(t) PROVE OwnerInv' /\ SentInv'
<1>1. workers[t].pc = "slot" /\ UNCHANGED <<batch, rows, caller, issued, sent>> BY DEF ReserveSlot, At, WorkerKeeps
<1>2. \A r \in Rows : workers[t].row = r => sent[r] = 0 BY <1>1 DEF SentInv, WorkerOK, Sending
<1>3. CASE \E k : Step(t, Error(t, k)) BY <1>1, <1>2, <1>3, ErrorMove
<1>4. CASE Step(t, To(t, "send")) BY <1>1, <1>4, GoOn DEF Sending
<1>5. QED BY <1>3, <1>4 DEF ReserveSlot

LEMMA SendStep == ASSUME OwnerInv, SentInv, NEW t \in Tokens, SendRow(t) PROVE OwnerInv' /\ SentInv'
<1>1. workers[t].pc = "send" /\ UNCHANGED <<batch, rows, caller, issued>> BY DEF SendRow, At, WorkerKeeps
<1>2. \A r \in Rows : workers[t].row = r => sent[r] = 0 /\ Locked(t, rows[r]) BY <1>1 DEF SentInv, WorkerOK, Sending
<1>3. CASE sent' = sent /\ \E k : Step(t, Error(t, k)) BY <1>1, <1>2, <1>3, ErrorMove
<1>4. ASSUME NEW w, w = To(t, "save") \/ w = Error(t, "uncertain_remote"), Step(t, w),
             sent' = [sent EXCEPT ![workers[t].row] = @ + 1]
      PROVE  OwnerInv' /\ SentInv'
  <2>1. /\ IsWorker(w) /\ (w.pc = "save" \/ (w.pc = "fail" /\ w.kind = "uncertain_remote")) /\ w.row = workers[t].row
        /\ w.todo = workers[t].todo /\ w.kept = workers[t].kept
    BY <1>4, ToForm, ErrorForm DEF Last
  <2>2. /\ sent' = [r \in Rows |-> sent'[r]]
        /\ \A r \in Rows : sent'[r] = IF r = workers[t].row THEN 1 ELSE sent[r]
    BY <1>2, <1>4 DEF SentInv
  <2>3. ASSUME NEW r \in Rows PROVE RowOK(r)'
    <3>1. RowOK(r) /\ rows'[r] = rows[r] BY <1>1, <2>3 DEF SentInv
    <3>2. CASE r # workers[t].row BY <2>2, <3>1, <3>2 DEF RowOK, Unknown
    <3>3. CASE r = workers[t].row
      <4>1. sent'[r] = 1 /\ Locked(t, rows'[r]) BY <1>2, <2>2, <3>1, <3>3
      <4>2. QED BY <4>1 DEF RowOK, Locked, Unknown
    <3>4. QED BY <3>2, <3>3
  <2>4. workers'[t] = w BY <1>4, <2>1, StepForm
  <2>5. ASSUME NEW r \in Rows PROVE WorkerOK(t, r)'
    <3>1. WorkerOK(t, r) BY <2>5 DEF SentInv
    <3>2. QED BY <1>1, <2>1, <2>4, <3>1 DEF WorkerOK, Sending
  <2>6. Moves(t, w) /\ w.todo \in SUBSET Rows
    BY <1>1, <1>4, <2>1 DEF Moves, SteadyBatch, OwnerInv, Shapes, IsRow, SentInv
  <2>7. \A r \in Rows : rows'[r] = rows[r] /\ (sent'[r] = sent[r] \/ (workers[t].pc = "send" /\ workers[t].row = r))
    BY <1>1, <2>2
  <2>8. w.pc \notin Sending BY <2>1 DEF Sending
  <2>9. QED BY <2>2, <2>3, <2>5, <2>6, <2>7, <2>8, MoveKeeps
<1>5. QED BY <1>3, <1>4 DEF SendRow

LEMMA SaveStep == ASSUME OwnerInv, SentInv, NEW t \in Tokens, SaveRemote(t) PROVE OwnerInv' /\ SentInv'
<1>1. workers[t].pc = "save" /\ UNCHANGED <<batch, caller, issued, sent>> BY DEF SaveRemote, At, WorkerKeeps
<1>2. CASE ~Mine(t)
  <2>1. rows' = rows /\ Step(t, Error(t, "uncertain_remote")) BY <1>2 DEF SaveRemote
  <2>2. QED BY <1>1, <2>1, ErrorMove
<1>3. ASSUME NEW w, w = To(t, "local") \/ w = Error(t, "post_publish"), Step(t, w), Mine(t),
             WriteRow(t, [rows[workers[t].row] EXCEPT !.item = TRUE, !.kind = "post_publish"])
      PROVE  OwnerInv' /\ SentInv'
  <2> DEFINE old == rows[workers[t].row]
             rw == [old EXCEPT !.item = TRUE, !.kind = "post_publish"]
  <2>1. /\ IsWorker(w) /\ (w.pc = "local" \/ w.pc = "fail") /\ w.row = workers[t].row
        /\ w.todo = workers[t].todo /\ w.kept = workers[t].kept
    BY <1>3, ToForm, ErrorForm DEF Last
  <2>2. workers[t].row \in Rows => IsRow(rw) /\ rw.status = "running" /\ rw.token = t /\ rw.item /\ Runs(t, workers[t].row)
    BY <1>3 DEF OwnerInv, Shapes, IsRow, Mine, Runs
  <2>3. WriteRow(t, rw) BY <1>3
  <2> HIDE DEF rw
  <2>4. ASSUME NEW r \in Rows, r = workers[t].row, rows'[r] = rw PROVE Touched(t, r) /\ RowOK(r)'
    <3>1. Touched(t, r) BY <2>2, <2>4 DEF Touched
    <3>2. RowOK(r) BY <2>4 DEF SentInv
    <3>3. QED BY <1>1, <2>2, <2>4, <3>1, <3>2 DEF RowOK
  <2>5. ASSUME workers'[t] = w, \A r \in Rows : r # workers[t].row => rows'[r] = rows[r],
               \A r \in Rows : r = workers[t].row => rows'[r] = rw, NEW r \in Rows
        PROVE  WorkerOK(t, r)'
    <3>1. WorkerOK(t, r) BY <2>5 DEF SentInv
    <3>2. workers[t].row = r => rows'[r].item BY <2>2, <2>5
    <3>3. workers[t].row # r => rows'[r] = rows[r] BY <2>5
    <3>4. QED BY <1>1, <2>1, <2>5, <3>1, <3>2, <3>3 DEF WorkerOK, Sending, Runs
  <2>6. QED BY <1>1, <1>3, <2>1, <2>2, <2>3, <2>4, <2>5, WriteMove DEF Sending
<1>4. QED BY <1>2, <1>3 DEF SaveRemote

LEMMA CompleteStep == ASSUME OwnerInv, SentInv, NEW t \in Tokens, Complete(t) PROVE OwnerInv' /\ SentInv'
<1>1. workers[t].pc = "local" /\ UNCHANGED <<batch, rows, caller, issued, sent>> BY DEF Complete, At, WorkerKeeps
<1>2. \A r \in Rows : workers[t].row = r => rows[r].item BY <1>1 DEF SentInv, WorkerOK
<1>3. CASE Step(t, To(t, "success")) BY <1>1, <1>2, <1>3, GoOn
<1>4. CASE Step(t, Error(t, "post_publish")) BY <1>1, <1>2, <1>4, ErrorMove
<1>5. QED BY <1>3, <1>4 DEF Complete

\* The row at hand is ended by its worker.
LEMMA EndRow ==
    ASSUME OwnerInv, SentInv, NEW t \in Tokens, workers[t].pc # "none", NEW pc \in {"next", "read"}, Step(t, To(t, pc)),
           UNCHANGED <<batch, caller, issued, sent>>, Mine(t), NEW rw, WriteRow(t, rw),
           workers[t].row \in Rows => IsRow(rw) /\ rw.status # "running" /\ rw.item = rows[workers[t].row].item,
           workers[t].row \in Rows /\ sent[workers[t].row] # 0
              => rw.item \/ (rw.status = "failed" /\ rw.kind = "uncertain_remote")
    PROVE  OwnerInv' /\ SentInv'
<1> DEFINE w == To(t, pc)
<1>1. /\ IsWorker(w) /\ w.pc = pc /\ w.row = 0
      /\ (w.todo = {} /\ w.kept = {}) \/ (w.todo = workers[t].todo /\ w.kept = workers[t].kept)
  BY ToForm DEF Last, Empty
<1> HIDE DEF w
<1>2. workers'[t] = w /\ Step(t, w) BY <1>1, StepForm DEF w
<1>3. /\ rows' = [r \in Rows |-> rows'[r]] /\ \A r \in Rows : IsRow(rows'[r])
      /\ \A r \in Rows : rows'[r] = IF r = workers[t].row THEN rw ELSE rows[r]
  BY WriteForm
<1>4. ASSUME NEW r \in Rows PROVE rows'[r] = rows[r] \/ Touched(t, r)
  BY <1>3, <1>4 DEF Touched, Runs, Mine
<1>5. ASSUME NEW r \in Rows PROVE RowOK(r)'
  <2>1. RowOK(r) /\ sent'[r] = sent[r] BY <1>5 DEF SentInv
  <2>2. CASE r = workers[t].row BY <1>3, <2>1, <2>2 DEF RowOK
  <2>3. CASE r # workers[t].row BY <1>3, <2>1, <2>3 DEF RowOK, Unknown
  <2>4. QED BY <2>2, <2>3
<1>6. ASSUME NEW r \in Rows PROVE WorkerOK(t, r)'
  <2>1. WorkerOK(t, r) /\ r # 0 /\ rows'[r].item = rows[r].item BY <1>3, <1>6, Numbers DEF SentInv
  <2>2. QED BY <1>1, <1>2, <2>1 DEF WorkerOK, Sending
<1>7. Moves(t, w) /\ w.todo \in SUBSET Rows /\ sent' = [r \in Rows |-> sent'[r]]
  BY <1>1, <1>2, <1>3 DEF Moves, SteadyBatch, OwnerInv, Shapes, SentInv
<1>8. QED BY <1>1, <1>4, <1>5, <1>6, <1>7, MoveKeeps DEF Sending

LEMMA SuccessStep == ASSUME OwnerInv, SentInv, NEW t \in Tokens, MarkSuccess(t) PROVE OwnerInv' /\ SentInv'
<1>1. workers[t].pc = "success" /\ UNCHANGED <<batch, caller, issued, sent>> BY DEF MarkSuccess, At, WorkerKeeps
<1>2. \A r \in Rows : workers[t].row = r => rows[r].item BY <1>1 DEF SentInv, WorkerOK
<1>3. CASE ~(workers[t].live /\ Mine(t))
  <2>1. rows' = rows /\ Step(t, Error(t, "publish")) BY <1>3 DEF MarkSuccess
  <2>2. QED BY <1>1, <1>2, <2>1, ErrorMove
<1>4. CASE workers[t].live /\ Mine(t)
  <2> DEFINE old == rows[workers[t].row]
             rw == [old EXCEPT !.status = "success", !.kind = "", !.token = NoToken]
  <2>1. WriteRow(t, rw) /\ Step(t, To(t, "next")) BY <1>4 DEF MarkSuccess
  <2>2. workers[t].row \in Rows => IsRow(rw) /\ rw.status # "running" /\ rw.item = old.item /\ rw.item
    BY <1>2 DEF OwnerInv, Shapes, IsRow
  <2> HIDE DEF rw
  <2>3. QED BY <1>1, <1>4, <2>1, <2>2, EndRow
<1>5. QED BY <1>3, <1>4

LEMMA FailStep ==
    ASSUME OwnerInv, SentInv, NEW t \in Tokens, MarkFailed(t) \/ SessionExpired(t) PROVE OwnerInv' /\ SentInv'
<1>1. workers[t].pc = "fail" /\ UNCHANGED <<batch, caller, issued, sent>> BY DEF MarkFailed, SessionExpired, At, WorkerKeeps
<1>2. CASE ~Mine(t)
  <2>1. rows' = rows /\ Step(t, To(t, "read")) /\ "read" \in Last BY <1>2 DEF MarkFailed, SessionExpired, Last
  <2>2. RestRows /\ SteadyBatch /\ DOMAIN batch' = {"status", "token", "live"}
    BY <1>1, <2>1, SameRest DEF OwnerInv, Shapes, SteadyBatch
  <2>3. QED BY <1>1, <2>1, <2>2, EndMove
<1>3. CASE Mine(t)
  <2> DEFINE old == rows[workers[t].row]
             rw == Failed(old, workers[t].kind)
  <2>1. WriteRow(t, rw) /\ \E pc \in {"next", "read"} : Step(t, To(t, pc)) BY <1>3 DEF MarkFailed, SessionExpired
  <2>2. workers[t].row \in Rows => IsRow(rw) /\ rw.status = "failed" /\ rw.kind = workers[t].kind /\ rw.item = old.item
    <3>1. workers[t].row \in Rows => DOMAIN old = {"status", "kind", "token", "item"} BY DEF OwnerInv, Shapes
    <3> HIDE DEF old
    <3>2. QED BY <3>1, RowForms DEF IsRow
  <2>3. workers[t].row \in Rows /\ sent[workers[t].row] # 0 => old.item \/ workers[t].kind = "uncertain_remote"
    BY <1>1, <1>3 DEF SentInv, WorkerOK, Runs, Mine
  <2> HIDE DEF rw
  <2>4. QED BY <1>1, <1>3, <2>1, <2>2, <2>3, EndRow
<1>4. QED BY <1>2, <1>3

\* finish, finishInterrupted and what follows.
LEMMA FinishStep ==
    ASSUME OwnerInv, SentInv, NEW t \in Tokens,
           FinishRead(t) \/ FinalizeCanceled(t) \/ FinalizeInterrupted(t) \/ FinalizeBatch(t)
    PROVE  OwnerInv' /\ SentInv'
<1>1. workers[t].pc # "none" /\ UNCHANGED <<caller, issued, sent>> /\ \E pc \in Last : Step(t, To(t, pc))
  BY DEF FinishRead, FinalizeCanceled, FinalizeInterrupted, FinalizeBatch, At, WorkerKeeps, Last
<1>2. RestRows /\ SteadyBatch /\ DOMAIN batch' = {"status", "token", "live"}
  <2>1. CASE UNCHANGED <<batch, rows>> BY <2>1, SameRest DEF OwnerInv, Shapes, SteadyBatch
  <2>2. CASE FinalizeCanceled(t) \/ FinalizeInterrupted(t)
    BY <2>2, CloseForm DEF FinalizeCanceled, FinalizeInterrupted
  <2>3. CASE FinalizeBatch(t) /\ batch' # batch
    <3>1. rows' = rows /\ Unfinished(rows) = {} /\ batch' = Shut(FinalBatchStatus(rows))
      BY <2>3 DEF FinalizeBatch, CanFinalize
    <3>2. \A r \in Rows : rows'[r].status # "running" BY <3>1, QuietRows
    <3>3. Shapes BY DEF OwnerInv
    <3>4. QED BY <3>1, <3>2, <3>3, SameRest, ShutForm, FinalForm DEF SteadyBatch
  <2>4. QED BY <2>1, <2>2, <2>3 DEF FinishRead, FinalizeBatch
<1>3. QED BY <1>1, <1>2, EndMove

LEMMA FailureStep == ASSUME OwnerInv, SentInv, NEW t \in Tokens, StatementFails(t) PROVE OwnerInv' /\ SentInv'
<1>1. /\ workers[t].pc \notin {"none", "exit", "slot", "send", "local"} /\ Step(t, AfterError(t))
      /\ UNCHANGED <<batch, rows, caller, issued, sent>>
  BY DEF StatementFails, WorkerKeeps
<1>2. CASE workers[t].pc = "prepare"
  <2>1. Step(t, Error(t, "publish")) BY <1>1, <1>2 DEF AfterError
  <2>2. \A r \in Rows : workers[t].row = r /\ Runs(t, r) => sent[r] = 0 \/ rows[r].item
    BY <1>2, UnsentRow DEF SentInv, WorkerOK
  <2>3. QED BY <1>1, <2>1, <2>2, ErrorMove
<1>3. CASE workers[t].pc = "save"
  <2>1. Step(t, Error(t, "uncertain_remote")) BY <1>1, <1>3 DEF AfterError
  <2>2. QED BY <1>1, <2>1, ErrorMove
<1>4. CASE workers[t].pc = "success"
  <2>1. Step(t, Error(t, "publish")) BY <1>1, <1>4 DEF AfterError
  <2>2. \A r \in Rows : workers[t].row = r => rows[r].item BY <1>4 DEF SentInv, WorkerOK
  <2>3. QED BY <1>1, <2>1, <2>2, ErrorMove
<1>5. CASE workers[t].pc \notin {"prepare", "save", "success"}
  <2>1. \E pc \in Last : Step(t, To(t, pc))
    <3>1. CASE workers[t].pc \in {"list", "next", "claim", "fail", "finish", "done"}
      <4>1. AfterError(t) = To(t, "read") BY <3>1 DEF AfterError
      <4>2. QED BY <1>1, <4>1 DEF Last
    <3>2. CASE workers[t].pc \notin {"list", "next", "claim", "fail", "finish", "done"}
      <4>1. AfterError(t) = To(t, "exit") BY <1>5, <3>2 DEF AfterError
      <4>2. QED BY <1>1, <4>1 DEF Last
    <3>3. QED BY <3>1, <3>2
  <2>2. RestRows /\ SteadyBatch /\ DOMAIN batch' = {"status", "token", "live"}
    BY <1>1, SameRest DEF OwnerInv, Shapes, SteadyBatch
  <2>3. QED BY <1>1, <2>1, <2>2, EndMove
<1>6. QED BY <1>2, <1>3, <1>4, <1>5

\* A worker returns, or its two hours are over.
LEMMA LeavingStep == ASSUME OwnerInv, SentInv, NEW t \in Tokens, Exit(t) \/ Disturbed(t) PROVE OwnerInv' /\ SentInv'
<1>1. UNCHANGED <<batch, rows, caller, issued, sent>> BY DEF Exit, Disturbed, WorkerKeeps
<1>2. workers[t].pc # "none" BY DEF Exit, Disturbed, At
<1>3. PICK w : /\ Step(t, w) /\ IsWorker(w)
               /\ Same(w, workers[t]) \/ Empty(w)
               /\ w.pc = "none" => w = Nobody
  <2>1. CASE Exit(t)
    <3>1. Step(t, Nobody) BY <2>1 DEF Exit
    <3>2. QED BY <3>1, NobodyForm
  <2>2. CASE Disturbed(t)
    <3> DEFINE w == [workers[t] EXCEPT !.live = FALSE]
    <3>1. Step(t, w) BY <2>2 DEF Disturbed
    <3>2. IsWorker(w) /\ Same(w, workers[t]) /\ (w.pc = "none" => w = Nobody) BY DeadForm
    <3> HIDE DEF w
    <3>3. QED BY <3>1, <3>2
  <2>3. QED BY <2>1, <2>2
<1>4. /\ workers' = [u \in Tokens |-> workers'[u]] /\ \A u \in Tokens : IsWorker(workers'[u])
      /\ workers'[t] = w /\ \A u \in Tokens : u # t => workers'[u] = workers[u]
  BY <1>3, StepForm
<1>5. Fading BY <1>3, <1>4 DEF Fading, Same
<1>6. RestRows /\ SteadyBatch /\ FreshToken BY <1>1, SameRest DEF OwnerInv, SteadyBatch, FreshToken
<1>7. Shapes' BY <1>1, <1>4 DEF Shapes, OwnerInv, IsWorker
<1>8. SteadyTokens BY <1>1, <1>2, <1>3, <1>4 DEF SteadyTokens, OwnerInv, Tokened
<1>9. QED BY <1>1, <1>5, <1>6, <1>7, <1>8, RestSteady, SteadyKeeps, RestKeeps

-----------------------------------------------------------------------------
(* Theorems. *)

LEMMA NextKeeps == OwnerInv /\ SentInv /\ [Next]_vars => OwnerInv' /\ SentInv'
<1> SUFFICES ASSUME OwnerInv, SentInv, [Next]_vars PROVE OwnerInv' /\ SentInv' OBVIOUS
<1>1. CASE UNCHANGED vars
  <2>1. UNCHANGED <<batch, rows, caller, workers, sent, issued>> BY <1>1 DEF vars
  <2>2. OwnerInv' BY <2>1 DEF OwnerInv, Shapes, Tokened, Claimed, Open
  <2>3. RestRows /\ Fading /\ FreshToken BY <2>1, SameRest DEF OwnerInv, Fading, Same, FreshToken
  <2>4. QED BY <2>1, <2>2, <2>3, RestKeeps
<1>2. CASE UserStart \/ UserRetry \/ ScanList \/ ScanExpire
           \/ \E c \in Callers : Reset(c) \/ ListPending(c) \/ FinalizeEmpty(c) \/ Release(c) \/ CallerFails(c)
  <2>1. PICK c \in Callers : \/ Reset(c) \/ ListPending(c) \/ FinalizeEmpty(c) \/ Release(c) \/ CallerFails(c)
                            \/ ScanList \/ ScanExpire \/ UserStart \/ UserRetry
    BY <1>2 DEF Callers
  <2>2. OwnerInv' /\ RestRows /\ workers' = workers /\ sent' = sent /\ (batch'.token = batch.token \/ batch'.token = NoToken)
    BY <2>1, CallerForm
  <2>3. Fading /\ FreshToken BY <2>2 DEF Fading, Same, FreshToken
  <2>4. QED BY <2>2, <2>3, RestKeeps
<1>3. CASE \E c \in Callers : ClaimBatch(c)
  <2>1. /\ OwnerInv' /\ RestRows /\ workers' = workers /\ sent' = sent
        /\ (batch'.token = batch.token \/ (batch'.token \in Tokens /\ workers[batch'.token] = Nobody))
    BY <1>3, ClaimForm
  <2>2. Fading /\ FreshToken BY <2>1 DEF Fading, Same, FreshToken
  <2>3. QED BY <2>1, <2>2, RestKeeps
<1>4. CASE \E c \in Callers : StartWorker(c)
  <2>1. OwnerInv' /\ RestRows /\ Fading /\ sent' = sent /\ batch' = batch BY <1>4, StartForm
  <2>2. QED BY <2>1, RestKeeps DEF FreshToken
<1>5. CASE CancelSignal \/ UserCancel \/ UserDelete \/ LeaseLapses \/ Stop \/ Halt \/ Crash \/ Boot
  <2>1. OwnerInv' /\ RestRows /\ Fading /\ sent' = sent /\ batch'.token \in {batch.token, NoToken} BY <1>5, EnvironmentForm
  <2>2. QED BY <2>1, RestKeeps DEF FreshToken
<1>6. CASE \E t \in Tokens : WorkerStep(t)
  BY <1>6, ListStep, NextStep, ClaimStep, PrepareStep, SlotStep, SendStep, SaveStep, CompleteStep, SuccessStep, FailStep,
     FinishStep, LeavingStep DEF WorkerStep
<1>7. CASE \E t \in Tokens : SessionExpired(t) \/ StatementFails(t) \/ Disturbed(t)
  BY <1>7, FailStep, FailureStep, LeavingStep
<1>8. QED BY <1>1, <1>2, <1>3, <1>4, <1>5, <1>6, <1>7 DEF Next, CallerStep

\* A row that is running is under the batch's present claim, whoever was interrupted, took over or gave back.
THEOREM OneOwnerHolds == Spec => []OneOwner
<1>1. OwnerInv => OneOwner BY DEF OwnerInv, Claimed, OneOwner
<1>2. QED BY <1>1, InitOwner, InitSent, NextKeeps, PTL DEF Spec

\* No row is put on the platform twice, whatever is interrupted, retried, recovered or taken over.
THEOREM PublishedOnceHolds == Spec => []PublishedOnce
<1>1. SentInv => PublishedOnce BY DEF SentInv, RowOK, PublishedOnce
<1>2. QED BY <1>1, InitOwner, InitSent, NextKeeps, PTL DEF Spec
\* An accepted cancellation ends in "canceled": nobody who holds the batch's claim, recovers it, starts it
\* again or deletes it takes a batch out of "canceling" in another way.
THEOREM CancelingOnlyCancelsHolds == Spec => CancelingOnlyCancels
<1>1. ASSUME OwnerInv, [Next]_vars, batch.status = "canceling" PROVE batch'.status \in {"canceling", "canceled"}
  <2>1. ~Claimable /\ \A t : ~Owned(t) BY <1>1 DEF Claimable, Owned
  <2>2. DOMAIN batch = {"status", "token", "live"} BY <1>1 DEF OwnerInv, Shapes
  <2>3. CASE UNCHANGED vars BY <1>1, <2>3 DEF vars
  <2>4. CASE UserStart \/ UserRetry \/ ScanList \/ ScanExpire
    BY <1>1, <2>4, ShutForm DEF UserStart, UserRetry, ScanList, ScanExpire
  <2>5. CASE \E c \in Callers : CallerStep(c) \/ CallerFails(c)
    BY <1>1, <2>1, <2>5 DEF CallerStep, ClaimBatch, Reset, ListPending, FinalizeEmpty, StartWorker, Release, FailClaimed,
                            CanFinalize, CallerFails
  <2>6. CASE \E t \in Tokens : WorkerStep(t)
    <3>1. PICK t \in Tokens : WorkerStep(t) BY <2>6
    <3>2. CASE FinalizeCanceled(t) BY <1>1, <3>2, ShutForm DEF FinalizeCanceled, CloseCanceled
    <3>3. CASE ~FinalizeCanceled(t)
      BY <1>1, <2>1, <3>1, <3>3 DEF WorkerStep, WorkerList, NextRow, ClaimRow, Prepare, ReserveSlot, SendRow, SaveRemote,
           Complete, MarkSuccess, MarkFailed, FinishRead, FinalizeInterrupted, CloseInterrupted, FinalizeBatch, CanFinalize, Exit
    <3>4. QED BY <3>2, <3>3
  <2>7. CASE \E t \in Tokens : SessionExpired(t) \/ StatementFails(t) \/ Disturbed(t)
    BY <1>1, <2>7 DEF SessionExpired, StatementFails, Disturbed
  <2>8. CASE UserCancel \/ UserDelete BY <1>1, <2>2, <2>8, ShutForm DEF UserCancel, UserDelete, Open
  <2>9. CASE CancelSignal \/ LeaseLapses \/ Stop \/ Halt \/ Crash \/ Boot
    BY <1>1, <2>2, <2>9 DEF CancelSignal, LeaseLapses, Stop, Halt, Crash, Boot
  <2>10. QED BY <1>1, <2>3, <2>4, <2>5, <2>6, <2>7, <2>8, <2>9 DEF Next
<1>2. QED BY <1>1, InitOwner, InitSent, NextKeeps, PTL DEF Spec, CancelingOnlyCancels
=============================================================================
