--------------------------- MODULE MessagesProofs ---------------------------
(***************************************************************************)
(* What becomes of a message on its way in, for every number of events,    *)
(* slots, schedulers, conversations and disturbances: the handling of an   *)
(* event (EventIntake) and the copy of the conversation (Chat).            *)
(***************************************************************************)
EXTENDS EventIntake, Chat, FiniteSetTheorems, WellFoundedInduction, TLAPS

(* EventIntake. *)

\* The slots are numbered; the receive loop has an event in hand only while it hands it over, and runs in a session only.
HandsAreTyped ==
    /\ slots = [i \in 1 .. Slots |-> slots[i]]
    /\ recv.pc \in {"select", "dispatch", "ended"}
    /\ recv.pc # "dispatch" => recv.frame \notin Events
    /\ loop # "session" => recv.pc = "ended"

\* The row and the schedulers' locals keep their types, and a scheduler that selected the row since its counter was
\* reset has seen no more claims than were made; if it has seen all of them it is the holder.
IsRow(r) ==
    /\ r = [id |-> r.id, status |-> r.status, claims |-> r.claims, due |-> r.due, live |-> r.live]
    /\ r.id \in Nat /\ r.claims \in Nat
Local == [pc : {"idle", "selected", "replay"}, id : Nat, version : Nat]

UpToDate(s) == s \notin outdated /\ sched[s].pc # "idle" /\ sched[s].id = task.id /\ task.status # "none"

HolderInv ==
    /\ IsRow(task) /\ sched \in [Schedulers -> Local]
    /\ \A s \in Schedulers : UpToDate(s) =>
          /\ sched[s].version <= task.claims
          /\ sched[s].pc = "replay" /\ sched[s].version = task.claims /\ task.status = "running" => holder = s

\* A reset of the counter outdates everybody at work.
LEMMA ResetKeeps ==
    ASSUME HolderInv, IsRow(task)', sched' \in [Schedulers -> Local], Outdates PROVE HolderInv'
BY DEF HolderInv, UpToDate, Outdates

\* A scheduler leaves; the row is as before, deleted or not running any more.
LEMMA LeavingKeeps ==
    ASSUME HolderInv, NEW s \in Schedulers, Leaves(s), holder' = holder,
           IsRow(task)', task' = task \/ task'.status = "none"
                          \/ (task'.id = task.id /\ task'.claims = task.claims /\ task.status # "none" /\ task'.status # "running")
    PROVE  HolderInv'
<1>1. sched' \in [Schedulers -> Local] BY DEF Leaves, Asleep, HolderInv, Local
<1>2. ASSUME NEW u \in Schedulers, UpToDate(u)'
      PROVE  /\ sched'[u].version <= task'.claims
             /\ sched'[u].pc = "replay" /\ sched'[u].version = task'.claims /\ task'.status = "running" => holder' = u
  <2>1. u # s BY <1>2 DEF Leaves, Asleep, HolderInv, UpToDate
  <2>2. sched'[u] = sched[u] /\ (u \in outdated' <=> u \in outdated) BY <2>1 DEF Leaves, HolderInv
  <2>3. UpToDate(u) BY <1>2, <2>2 DEF UpToDate
  <2>4. QED BY <1>2, <2>2, <2>3 DEF HolderInv, UpToDate
<1>3. QED BY <1>1, <1>2 DEF HolderInv

LEMMA ClaimKeeps == ASSUME HolderInv, NEW s \in Schedulers, Claim(s) PROVE HolderInv'
<1>1. CASE Claimable /\ task.id = sched[s].id
  <2>1. task' = [task EXCEPT !.status = "running", !.claims = @ + 1, !.live = TRUE] /\ holder' = s /\ outdated' = outdated
    BY <1>1 DEF Claim
  <2>2. IsRow(task)' /\ task'.claims = task.claims + 1 /\ task'.id = task.id /\ task.claims \in Nat
    <3>1. task' = [id |-> task.id, status |-> "running", claims |-> task.claims + 1, due |-> task.due, live |-> TRUE]
      <4>1. PICK i, st, c, d, l : task = [id |-> i, status |-> st, claims |-> c, due |-> d, live |-> l]
        BY DEF HolderInv, IsRow
      <4>2. task' = [task EXCEPT !.status = "running", !.claims = c + 1, !.live = TRUE] BY <2>1, <4>1
      <4>3. QED BY <4>1, <4>2
    <3>2. task.claims \in Nat /\ task.id \in Nat BY DEF HolderInv, IsRow
    <3>3. QED BY <3>1, <3>2 DEF IsRow
  <2>3. sched' = [sched EXCEPT ![s] = [pc |-> "replay", id |-> sched[s].id, version |-> sched[s].version + 1]]
    <3>1. PICK p, i, v : sched[s] = [pc |-> p, id |-> i, version |-> v] /\ i \in Nat /\ v \in Nat
      BY DEF HolderInv, Local
    <3> DEFINE one == [sched EXCEPT ![s].pc = "replay"]
    <3>2. sched' = [one EXCEPT ![s].version = @ + 1] BY <1>1 DEF Claim
    <3>3. one = [sched EXCEPT ![s] = [pc |-> "replay", id |-> i, version |-> v]]
      <4>1. [sched[s] EXCEPT !.pc = "replay"] = [pc |-> "replay", id |-> i, version |-> v] BY <3>1
      <4>2. one = [sched EXCEPT ![s] = [sched[s] EXCEPT !.pc = "replay"]] OBVIOUS
      <4>3. QED BY <4>1, <4>2
    <3>4. one[s] = [pc |-> "replay", id |-> i, version |-> v] /\ one \in [Schedulers -> Local]
      BY <3>1, <3>3 DEF HolderInv, Local
    <3> HIDE DEF one
    <3>5. [one[s] EXCEPT !.version = @ + 1] = [pc |-> "replay", id |-> i, version |-> v + 1] BY <3>4
    <3>6. sched' = [one EXCEPT ![s] = [pc |-> "replay", id |-> i, version |-> v + 1]] BY <3>2, <3>5
    <3>7. QED BY <3>1, <3>3, <3>6 DEF HolderInv
  <2>4. sched' \in [Schedulers -> Local] /\ sched'[s].version = sched[s].version + 1 /\ sched[s].version \in Nat
        /\ sched'[s].id = sched[s].id
    <3>1. sched[s] \in Local BY DEF HolderInv
    <3>2. sched'[s] = [pc |-> "replay", id |-> sched[s].id, version |-> sched[s].version + 1] BY <2>3 DEF HolderInv
    <3>3. sched'[s] \in Local /\ sched'[s].version = sched[s].version + 1 /\ sched[s].version \in Nat
          /\ sched'[s].id = sched[s].id
      BY <3>1, <3>2 DEF Local
    <3>4. QED BY <2>3, <3>3 DEF HolderInv
  <2>5. task.status # "none" /\ sched[s].pc = "selected" BY <1>1 DEF Claimable, Claim
  <2>6. ASSUME NEW u \in Schedulers, UpToDate(u)'
        PROVE  /\ sched'[u].version <= task'.claims
               /\ sched'[u].pc = "replay" /\ sched'[u].version = task'.claims /\ task'.status = "running" => holder' = u
    <3>1. CASE u = s
      <4>1. UpToDate(s) BY <1>1, <2>1, <2>5, <2>6, <3>1 DEF UpToDate
      <4>2. sched[s].version <= task.claims BY <4>1 DEF HolderInv
      <4>3. QED BY <2>1, <2>2, <2>4, <3>1, <4>2
    <3>2. CASE u # s
      <4>1. sched'[u] = sched[u] BY <2>3, <3>2 DEF HolderInv
      <4>2. UpToDate(u) BY <2>1, <2>2, <2>5, <2>6, <4>1 DEF UpToDate
      <4>3. sched[u].version <= task.claims /\ sched[u].version \in Nat BY <4>2 DEF HolderInv, Local
      <4>4. QED BY <2>2, <4>1, <4>3
    <3>3. QED BY <3>1, <3>2
  <2>7. QED BY <2>2, <2>4, <2>6 DEF HolderInv
<1>2. CASE ~(Claimable /\ task.id = sched[s].id)
  <2>1. Leaves(s) /\ task' = task /\ holder' = holder BY <1>2 DEF Claim
  <2>2. IsRow(task)' BY <2>1 DEF HolderInv
  <2>3. QED BY <2>1, <2>2, LeavingKeeps
<1>3. QED BY <1>1, <1>2

LEMMA FinishKeeps == ASSUME HolderInv, NEW s \in Schedulers, FinishDone(s) \/ FinishFailed(s) PROVE HolderInv'
<1>1. IsRow(task)'
  <2>1. PICK i, st, c, d, l : task = [id |-> i, status |-> st, claims |-> c, due |-> d, live |-> l]
    BY DEF HolderInv, IsRow
  <2>2. task.id \in Nat /\ task.claims \in Nat BY DEF HolderInv, IsRow
  <2>3. CASE FinishDone(s) BY <2>1, <2>2, <2>3 DEF FinishDone, Deleted, NoTask, IsRow
  <2>4. CASE FinishFailed(s)
    <3>1. task' = task \/ \E x : task' = [id |-> i, status |-> x, claims |-> c, due |-> FALSE, live |-> FALSE]
      BY <2>1, <2>4 DEF FinishFailed
    <3>2. QED BY <2>1, <2>2, <3>1 DEF IsRow
  <2>5. QED BY <2>3, <2>4
<1>2. task' = task \/ task'.status = "none"
      \/ (task'.id = task.id /\ task'.claims = task.claims /\ task.status # "none" /\ task'.status # "running")
  BY DEF FinishDone, FinishFailed, Deleted, NoTask, HolderInv, IsRow, Holds
<1>3. Leaves(s) /\ holder' = holder BY DEF FinishDone, FinishFailed
<1>4. QED BY <1>1, <1>2, <1>3, LeavingKeeps

\* Steps that touch the row's due or lease only, or delete it.
LEMMA RowStepKeeps == ASSUME HolderInv, FallsDue \/ LeaseExpires \/ Discard PROVE HolderInv'
<1>1. /\ IsRow(task)'
      /\ task'.status = "none" \/ (task'.id = task.id /\ task'.claims = task.claims /\ task'.status = task.status)
  BY DEF FallsDue, LeaseExpires, Discard, Deleted, NoTask, HolderInv, IsRow
<1>2. sched' = sched /\ holder' = holder /\ outdated' = outdated BY DEF FallsDue, LeaseExpires, Discard
<1>3. QED BY <1>1, <1>2 DEF HolderInv, UpToDate

LEMMA SelectKeeps == ASSUME HolderInv, NEW s \in Schedulers, Select(s) PROVE HolderInv'
<1>1. sched' = [sched EXCEPT ![s] = [pc |-> "selected", id |-> task.id, version |-> task.claims]]
      /\ task' = task /\ holder' = holder /\ outdated' = outdated
  BY DEF Select
<1>2. sched' \in [Schedulers -> Local] BY <1>1 DEF HolderInv, IsRow, Local
<1>3. ASSUME NEW u \in Schedulers, UpToDate(u)'
      PROVE  /\ sched'[u].version <= task'.claims
             /\ sched'[u].pc = "replay" /\ sched'[u].version = task'.claims /\ task'.status = "running" => holder' = u
  <2>1. CASE u = s BY <1>1, <2>1 DEF HolderInv, IsRow
  <2>2. CASE u # s BY <1>1, <1>3, <2>2 DEF HolderInv, UpToDate
  <2>3. QED BY <2>1, <2>2
<1>4. QED BY <1>1, <1>2, <1>3 DEF HolderInv

LEMMA DeferKeeps ==
    ASSUME HolderInv, Defer \/ Revive \/ \E s \in Schedulers : ReplayDefers(s) PROVE HolderInv'
<1>1. IsRow(task)' BY DEF Defer, Revive, ReplayDefers, Deferred, HolderInv, IsRow
<1>2. sched' \in [Schedulers -> Local] /\ Outdates
  BY DEF Defer, Revive, ReplayDefers, Asleep, HolderInv, Local
<1>3. QED BY <1>1, <1>2, ResetKeeps

THEOREM HolderInvHolds == IntakeSpec => []HolderInv
<1>1. IntakeInit => HolderInv BY DEF IntakeInit, Init, NoTask, Asleep, HolderInv, UpToDate, IsRow, Local
<1>2. HolderInv /\ [IntakeNext]_allVars => HolderInv'
  <2> SUFFICES ASSUME HolderInv, [IntakeNext]_allVars PROVE HolderInv' OBVIOUS
  <2>1. CASE UNCHANGED vars BY <2>1 DEF vars, HolderInv, UpToDate
  <2>2. CASE Selects \/ Clock \/ Others \/ Discarded
    <3>1. CASE \E s \in Schedulers : Crash(s)
      <4>1. PICK s \in Schedulers : Leaves(s) /\ task' = task /\ holder' = holder BY <3>1 DEF Crash
      <4>2. IsRow(task)' BY <4>1 DEF HolderInv
      <4>3. QED BY <4>1, <4>2, LeavingKeeps
    <3>2. QED BY <2>2, <3>1, SelectKeeps, RowStepKeeps, DeferKeeps DEF Selects, Clock, Others, Discarded
  <2>3. CASE \E s \in Schedulers : Replay(s)
    BY <2>3, ClaimKeeps, FinishKeeps, DeferKeeps DEF Replay, TaskStep, Replayed
  <2>4. CASE Dies
    <3>1. Leaves(Own) /\ task' = task /\ holder' = holder /\ Own \in Schedulers BY <2>4, IntakeAssumption DEF Dies
    <3>2. IsRow(task)' BY <3>1 DEF HolderInv
    <3>3. QED BY <3>1, <3>2, LeavingKeeps
  <2>5. CASE \E i \in 1 .. Slots : Handle(i)
    BY <2>1, <2>5, DeferKeeps DEF Handle, Handled, HandlerDefers, HandlerFails
  <2>6. CASE ConnStep \/ Disturbs BY <2>1, <2>6 DEF ConnStep, Disturbs
  <2>7. QED BY <2>1, <2>2, <2>3, <2>4, <2>5, <2>6 DEF IntakeNext, allVars, vars
<1>3. QED BY <1>1, <1>2, PTL DEF IntakeSpec

\* Whoever settles a deferred task claimed it last, or goes by a counter that was reset (FinishDeferredTask compares
\* id and attempt_count, DeferTask starts the count again).
THEOREM OnlyHolderFinishesHolds == IntakeSpec => OnlyHolderFinishes
<1>1. HolderInv => [\A s \in Schedulers : (FinishDone(s) \/ FinishFailed(s)) /\ task' # task
                                              => holder = s \/ s \in outdated]_vars
  <2> SUFFICES ASSUME HolderInv, NEW s \in Schedulers, FinishDone(s) \/ FinishFailed(s), task' # task, s \notin outdated
               PROVE  holder = s
    OBVIOUS
  <2>1. Holds(s) /\ sched[s].pc = "replay" BY DEF FinishDone, FinishFailed
  <2>2. UpToDate(s) BY <2>1 DEF Holds, UpToDate
  <2>3. QED BY <2>1, <2>2 DEF Holds, HolderInv
<1>2. QED BY <1>1, HolderInvHolds, PTL DEF OnlyHolderFinishes

-----------------------------------------------------------------------------
\* The events somebody has, whoever it is.
Had(f) == f \in InHand \cup settled \cup excused \/ (f = Keyed /\ task.status # "none")

KeptInv == HandsAreTyped /\ \A f \in acked \cap Events : Had(f)

\* An event in a slot, or in the hands of the receive loop.
LEMMA InHandIs == ASSUME HandsAreTyped, NEW f \in Events
                  PROVE  f \in InHand <=> (\E i \in 1 .. Slots : slots[i] = f) \/ recv.frame = f
BY ConnectionAssumption DEF InHand, Busy, HandsAreTyped, Items, Nobody

LEMMA InHandIsNext == ASSUME HandsAreTyped', NEW f \in Events
                      PROVE  f \in InHand' <=> (\E i \in 1 .. Slots : slots'[i] = f) \/ recv'.frame = f
BY ConnectionAssumption DEF InHand, Busy, HandsAreTyped, Items, Nobody

\* Nothing the proof looks at changes, or only grows.
LEMMA Bystander ==
    ASSUME KeptInv, acked' = acked, slots' = slots, loop' # "session" => recv'.pc = "ended",
           recv' = recv \/ (recv.pc # "dispatch" /\ recv'.pc \in {"select", "ended"} /\ recv'.frame \notin Events),
           settled \subseteq settled', excused \subseteq excused',
           Keyed \in settled' \/ (task.status # "none" => task'.status # "none")
    PROVE  KeptInv'
<1>1. HandsAreTyped' BY DEF KeptInv, HandsAreTyped
<1>2. ASSUME NEW f \in acked' \cap Events PROVE Had(f)'
  <2>1. Had(f) /\ HandsAreTyped /\ f \in Events BY <1>2 DEF KeptInv
  <2>2. f \in InHand => f \in InHand'
    BY <1>1, <2>1, InHandIs, InHandIsNext DEF HandsAreTyped
  <2>3. QED BY <2>1, <2>2 DEF Had
<1>3. QED BY <1>1, <1>2 DEF KeptInv

\* What leaves a slot is settled, excused or deferred.
LEMMA SlotFreed ==
    ASSUME KeptInv, NEW i \in 1 .. Slots, slots' = [slots EXCEPT ![i] = Nobody], acked' = acked, recv' = recv, loop' = loop,
           settled \subseteq settled', excused \subseteq excused',
           task.status # "none" => task'.status # "none",
           slots[i] \in Events => slots[i] \in settled' \cup excused' \/ (slots[i] = Keyed /\ task'.status # "none")
    PROVE  KeptInv'
<1>1. HandsAreTyped' BY DEF KeptInv, HandsAreTyped
<1>2. ASSUME NEW f \in acked' \cap Events PROVE Had(f)'
  <2>1. Had(f) /\ HandsAreTyped /\ f \in Events BY <1>2 DEF KeptInv
  <2>2. CASE slots[i] = f BY <2>1, <2>2 DEF Had
  <2>3. CASE slots[i] # f
    <3>1. f \in InHand => f \in InHand'
      BY <1>1, <2>1, <2>3, InHandIs, InHandIsNext DEF HandsAreTyped
    <3>2. QED BY <2>1, <3>1 DEF Had
  <2>4. QED BY <2>2, <2>3
<1>3. QED BY <1>1, <1>2 DEF KeptInv

\* Receive: what is acknowledged is in the loop's hands.
LEMMA ReceiveKeeps == ASSUME KeptInv, Receive, UNCHANGED <<vars, settled>> PROVE KeptInv'
<1> DEFINE f == Head(pushes)
<1>1. /\ slots' = slots /\ excused' = excused /\ settled' = settled /\ task' = task
      /\ recv.frame \notin Events /\ loop = "session" /\ loop' = loop
  BY DEF Receive, KeptInv, HandsAreTyped, vars
<1>2. CASE f \in Controls
  <2>1. recv' = [pc |-> "ended", frame |-> Nobody, by |-> f] /\ acked' = acked BY <1>2 DEF Receive
  <2>2. recv.pc # "dispatch" /\ recv'.frame \notin Events
    BY <2>1, ConnectionAssumption DEF Receive, Items
  <2>3. QED BY <1>1, <2>1, <2>2, Bystander
<1>3. CASE f \notin Controls
  <2>1. recv'.pc = "dispatch" /\ recv'.frame = f /\ acked' \subseteq acked \cup {f}
    BY <1>3 DEF Receive, Waiting
  <2>2. HandsAreTyped' BY <1>1, <2>1 DEF KeptInv, HandsAreTyped
  <2>3. ASSUME NEW e \in acked' \cap Events PROVE Had(e)'
    <3>1. CASE e = f BY <2>1, <2>2, <2>3, <3>1, InHandIsNext DEF Had
    <3>2. CASE e # f
      <4>1. Had(e) /\ HandsAreTyped BY <2>1, <2>3, <3>2 DEF KeptInv
      <4>2. e \in InHand => e \in InHand' BY <1>1, <2>2, <2>3, <4>1, InHandIs, InHandIsNext
      <4>3. QED BY <1>1, <4>1, <4>2 DEF Had
    <3>3. QED BY <3>1, <3>2
  <2>4. QED BY <2>2, <2>3 DEF KeptInv
<1>4. QED BY <1>2, <1>3

\* Dispatch: a slot takes the event, or the account was stopped.
LEMMA DispatchKeeps == ASSUME KeptInv, Dispatch, UNCHANGED <<vars, settled>> PROVE KeptInv'
<1>1. /\ acked' = acked /\ recv' = Waiting /\ settled' = settled /\ task' = task /\ HandsAreTyped
      /\ loop = "session" /\ loop' = loop
  BY DEF Dispatch, KeptInv, HandsAreTyped, vars
<1>2. recv'.pc = "select" /\ recv'.frame \notin Events
  BY <1>1, ConnectionAssumption DEF Waiting, Items
<1>3. CASE accepting /\ Free # {} /\ slots' = [slots EXCEPT ![CHOOSE i \in Free : TRUE] = recv.frame] /\ excused' = excused
  <2>1. PICK i \in Free : slots' = [slots EXCEPT ![i] = recv.frame]
    BY <1>3
  <2>2. i \in 1 .. Slots /\ slots[i] = Nobody BY <2>1 DEF Free
  <2>3. slots'[i] = recv.frame /\ \A j \in 1 .. Slots : j # i => slots'[j] = slots[j]
    BY <1>1, <2>1, <2>2 DEF HandsAreTyped
  <2>4. HandsAreTyped' BY <1>1, <1>2, <2>1 DEF HandsAreTyped
  <2>5. ASSUME NEW f \in acked' \cap Events PROVE Had(f)'
    <3>1. Had(f) /\ f # Nobody BY <1>1, <2>5, ConnectionAssumption DEF KeptInv, Items
    <3>2. f \in InHand => f \in InHand'
      BY <1>1, <2>2, <2>3, <2>4, <2>5, <3>1, InHandIs, InHandIsNext
    <3>3. QED BY <1>1, <1>3, <3>1, <3>2 DEF Had
  <2>6. QED BY <2>4, <2>5 DEF KeptInv
<1>4. CASE slots' = slots /\ (recv.frame \in Events => recv.frame \in excused') /\ excused \subseteq excused'
  <2>1. HandsAreTyped' BY <1>1, <1>2, <1>4 DEF HandsAreTyped
  <2>2. ASSUME NEW f \in acked' \cap Events PROVE Had(f)'
    <3>1. Had(f) BY <1>1, <2>2 DEF KeptInv
    <3>2. f \in InHand => f \in InHand' \cup excused'
      BY <1>1, <1>4, <2>1, <2>2, InHandIs, InHandIsNext
    <3>3. QED BY <1>1, <1>4, <3>1, <3>2 DEF Had
  <2>3. QED BY <2>1, <2>2 DEF KeptInv
<1>5. recv.frame \in Events => ~Drops(recv.frame)
  BY ConnectionAssumption DEF Drops
<1>6. QED BY <1>3, <1>4, <1>5 DEF Dispatch

\* The other steps of the connection leave the hands alone.
LEMMA ConnectionKeeps == ASSUME KeptInv, ConnStep \/ Disturbs PROVE KeptInv'
<1>1. CASE ConnStep
  <2>1. CASE Receive BY <1>1, <2>1, ReceiveKeeps DEF ConnStep
  <2>2. CASE Dispatch BY <1>1, <2>2, DispatchKeeps DEF ConnStep
  <2>3. CASE Connect \/ ReceiveEnds \/ SessionEnds
    <3>1. /\ recv.pc # "dispatch" /\ recv'.pc \in {"select", "ended"} /\ recv'.frame = Nobody
          /\ loop' # "session" => recv'.pc = "ended"
      BY <2>3 DEF Connect, ReceiveEnds, SessionEnds, Waiting, NoFrame, KeptInv, HandsAreTyped
    <3>2. recv'.frame \notin Events BY <3>1, ConnectionAssumption DEF Items
    <3>3. acked' = acked /\ slots' = slots /\ excused' = excused
      BY <2>3 DEF Connect, ReceiveEnds, SessionEnds
    <3>4. settled' = settled /\ task' = task BY <1>1 DEF ConnStep, vars
    <3>5. QED BY <3>1, <3>2, <3>3, <3>4, Bystander
  <2>4. CASE Pump \/ BeatFails \/ BeatEnds \/ DialEnds
    <3>1. /\ acked' = acked /\ slots' = slots /\ excused' = excused /\ recv' = recv
          /\ loop' # "session" => recv'.pc = "ended"
      BY <2>4 DEF Pump, Read, Unblock, PumpEnds, BeatFails, BeatEnds, DialEnds, KeptInv, HandsAreTyped
    <3>2. settled' = settled /\ task' = task BY <1>1 DEF ConnStep, vars
    <3>3. QED BY <3>1, <3>2, Bystander
  <2>5. QED BY <1>1, <2>1, <2>2, <2>3, <2>4 DEF ConnStep
<1>2. CASE Disturbs
  <2>1. /\ acked' = acked /\ slots' = slots /\ excused' = excused /\ recv' = recv
        /\ loop' # "session" => recv'.pc = "ended"
    BY <1>2 DEF Disturbs, LineBreaks, Rotate, StopAccount, StartAccount, KeptInv, HandsAreTyped
  <2>2. settled' = settled /\ task' = task BY <1>2 DEF Disturbs, vars
  <2>3. QED BY <2>1, <2>2, Bystander
<1>3. QED BY <1>1, <1>2

\* A crash excuses what was in hand.
LEMMA DeathKeeps == ASSUME KeptInv, Dies PROVE KeptInv'
<1>1. /\ acked' = acked /\ settled' = settled /\ task' = task /\ excused' = excused \cup InHand
      /\ slots' = [i \in 1 .. Slots |-> Nobody] /\ recv' = NoFrame
  BY DEF Dies, ProcessDies
<1>2. HandsAreTyped'
  <2>1. Nobody \notin Events BY ConnectionAssumption DEF Items
  <2>2. QED BY <1>1, <2>1 DEF HandsAreTyped, NoFrame
<1>3. QED BY <1>1, <1>2 DEF KeptInv, Had

\* A handler ends, fails or defers, or a chat message ends.
LEMMA HandlersKeep == ASSUME KeptInv, NEW i \in 1 .. Slots, Handle(i) PROVE KeptInv'
<1> USE DEF HandsAreTyped
<1>1. CASE Handled(i) BY <1>1, SlotFreed DEF Handled, vars
<1>2. CASE HandlerFails(i) BY <1>2, SlotFreed DEF HandlerFails, vars
<1>3. CASE HandlerDefers(i)
  <2>1. task'.status = "pending" BY <1>3 DEF HandlerDefers, Defer, Deferred
  <2>2. QED BY <1>3, <2>1, SlotFreed DEF HandlerDefers
<1>4. CASE ChatEnds(i) /\ UNCHANGED <<vars, settled>>
  <2>1. slots[i] \notin Events BY <1>4, ConnectionAssumption DEF ChatEnds
  <2>2. QED BY <1>4, <2>1, SlotFreed DEF ChatEnds, vars
<1>5. QED BY <1>1, <1>2, <1>3, <1>4 DEF Handle

\* The row stays until the run was started or an operator discarded it.
LEMMA RowKeeps ==
    ASSUME KeptInv, IsRow(task), Selects \/ Clock \/ Others \/ Discarded \/ \E s \in Schedulers : Replay(s)
    PROVE  KeptInv'
<1>1. acked' = acked /\ slots' = slots /\ recv' = recv /\ loop' = loop /\ excused' = excused
  BY DEF Selects, Clock, Others, Discarded, Replay, TaskStep, Replayed, connVars
<1>2. settled \subseteq settled'
  BY DEF Selects, Clock, Others, Discarded, Replay, TaskStep, Replayed
<1>3. Keyed \in settled' \/ (task.status # "none" => task'.status # "none")
  <2>1. CASE Discarded \/ \E s \in Schedulers : Replayed(s) BY <2>1 DEF Discarded, Replayed
  <2>2. CASE Selects \/ Clock BY <2>2 DEF Selects, Select, Clock, FallsDue, LeaseExpires, IsRow
  <2>3. CASE Others
    BY <2>3 DEF Others, LeaseExpires, Revive, Deferred, Crash, IsRow
  <2>4. ASSUME NEW s \in Schedulers, TaskStep(s) PROVE task.status # "none" => task'.status # "none"
    <3>1. CASE Claim(s) BY <3>1 DEF Claim, Claimable, IsRow
    <3>2. CASE FinishFailed(s) BY <3>2 DEF FinishFailed, Holds, IsRow
    <3>3. CASE ReplayDefers(s) BY <3>3 DEF ReplayDefers, Deferred
    <3>4. QED BY <2>4, <3>1, <3>2, <3>3 DEF TaskStep
  <2>5. QED BY <2>1, <2>2, <2>3, <2>4 DEF Replay
<1>4. QED BY <1>1, <1>2, <1>3, Bystander DEF KeptInv, HandsAreTyped

THEOREM KeptInvHolds == IntakeSpec => []KeptInv
<1>1. IntakeInit => KeptInv
  <2> SUFFICES ASSUME IntakeInit PROVE KeptInv OBVIOUS
  <2>1. acked = {} /\ slots = [i \in 1 .. Slots |-> Nobody] /\ recv = NoFrame
    BY DEF IntakeInit, ConnInit, Offline
  <2>2. Nobody \notin Events BY ConnectionAssumption DEF Items
  <2>3. QED BY <2>1, <2>2 DEF KeptInv, HandsAreTyped, NoFrame
<1>2. KeptInv /\ HolderInv /\ [IntakeNext]_allVars => KeptInv'
  <2> SUFFICES ASSUME KeptInv, HolderInv, [IntakeNext]_allVars PROVE KeptInv' OBVIOUS
  <2>1. CASE UNCHANGED allVars
    BY <2>1, Bystander DEF allVars, connVars, vars, KeptInv, HandsAreTyped
  <2>2. CASE IntakeNext
    BY <2>2, ConnectionKeeps, DeathKeeps, HandlersKeep, RowKeeps DEF IntakeNext, HolderInv
  <2>3. QED BY <2>1, <2>2
<1>3. QED BY <1>1, <1>2, HolderInvHolds, PTL DEF IntakeSpec

\* No acknowledged event is without somebody who has it (messageDispatcher.dispatch, deferTask).
THEOREM EventsAreKeptHolds == IntakeSpec => []EventsAreKept
<1>1. KeptInv => EventsAreKept BY DEF KeptInv, Had, EventsAreKept
<1>2. QED BY <1>1, KeptInvHolds, PTL

-----------------------------------------------------------------------------
(* Chat: a message is announced once, what is shown as sent arrived, and a *)
(* page does not hide what was stored after it was read.  Whatever is on   *)
(* its way names a message that was written (FromBuyer) or one that        *)
(* arrived (FromSeller).                                                   *)

ChatTypes ==
    /\ time \in Nat \ {0} /\ acts \in Nat
    /\ wrote \in [Msgs -> Nat] /\ \A m \in Msgs : wrote[m] <= time
    /\ arrived \in [Sends -> Nat] /\ \A s \in Sends : arrived[s] <= time
    /\ inRow \in [Msgs -> {"absent", "unread", "read"}]
    /\ ownRow \in [Keys -> [status : {"absent", "sending", "sent", "failed"}, at : Nat, read : BOOLEAN]]
    /\ session \in [there : BOOLEAN, lastAt : Nat, unread : Nat, blank : BOOLEAN]
    /\ page \in [Pages -> [step : {"idle", "count", "upsert", "sync"}, visible : BOOLEAN, at : Nat,
                           official : Nat, system : BOOLEAN, count : Nat]]
    /\ send \in [Sends -> {"idle", "calling", "sent", "failed", "ended", "cut"}]
    /\ told \in [Msgs -> Nat]

Told == \A m \in Msgs : told[m] <= 1 /\ (told[m] = 1 => inRow[m] # "absent")

FromBuyer ==
    /\ \A m \in Msgs : inRow[m] # "absent" => wrote[m] > 0
    /\ \A m \in saving : m \in Msgs /\ wrote[m] > 0
    /\ waiting # None => waiting \in Msgs /\ wrote[waiting] > 0
    /\ \A x \in incoming : x.kind = "message" => x.of \in Msgs /\ wrote[x.of] > 0
    /\ \A x \in history : x.kind = "message" => x.of \in Msgs /\ wrote[x.of] > 0

FromSeller ==
    /\ \A x \in incoming : x.kind = "echo" => x.of \in Sends /\ arrived[x.of] > 0
    /\ \A x \in history : x.kind = "own" => x.of \in Sends /\ arrived[x.of] > 0
    /\ \A s \in Sends : send[s] = "sent" => arrived[s] > 0
    /\ SentArrived

\* What was stored unread since a page was read has moved the conversation's row past that page.
OnePage == \A p, q \in Pages : p = q
Newer == \A p \in Pages : \A m \in Msgs :
             page[p].step # "idle" /\ inRow[m] = "unread" /\ wrote[m] > page[p].at => session.lastAt >= wrote[m]

ChatInv == ChatTypes /\ Told /\ FromBuyer /\ FromSeller /\ (OnePage => Newer)

-----------------------------------------------------------------------------
(* The newest time, and the tables.                                        *)

LEMMA PushIs == \A k, x : Push(k, x).kind = k /\ Push(k, x).of = x
BY DEF Push

LEMMA MaxIs ==
    ASSUME NEW top \in Nat, NEW S, S # {}, S \subseteq 0 .. top
    PROVE  Max(S) \in S /\ \A y \in S : y <= Max(S)
<1> DEFINE T == {top - x : x \in S}
<1>1. T \subseteq Nat /\ T # {}  OBVIOUS
<1>2. PICK t \in T : \A u \in T : ~(<<u, t>> \in OpToRel(<, Nat))  BY <1>1, NatLessThanWellFounded, WFMin
<1>3. \A u \in T : t <= u
  <2>1. \A u \in T : u \in Nat /\ t \in Nat  BY <1>1, <1>2
  <2>2. \A u \in T : ~(u < t)  BY <1>2, <2>1 DEF OpToRel
  <2>3. QED  BY <2>1, <2>2
<1>4. PICK x \in S : t = top - x  BY <1>2
<1>5. ASSUME NEW y \in S  PROVE x >= y
  <2>1. top - y \in T  OBVIOUS
  <2>2. t <= top - y  BY <1>3, <2>1
  <2>3. QED  BY <1>4, <2>2
<1>6. \A y \in S : Max(S) \in S /\ Max(S) >= y  BY <1>5 DEF Max
<1>7. QED  BY <1>6

LEMMA ModifyIs == ASSUME ChatTypes PROVE Modify \in Nat /\ \A m \in Msgs : wrote[m] <= Modify
<1> DEFINE S == {1} \cup {wrote[m] : m \in Msgs} \cup {arrived[s] : s \in Sends}
<1>1. S # {} /\ S \subseteq 0 .. time  BY DEF ChatTypes
<1>2. time \in Nat /\ \A m \in Msgs : wrote[m] \in S  BY DEF ChatTypes
<1>3. Modify = Max(S)  BY DEF Modify
<1> HIDE DEF S
<1>4. Max(S) \in S /\ \A y \in S : y <= Max(S)  BY <1>1, <1>2, MaxIs
<1>5. Modify \in S /\ \A m \in Msgs : wrote[m] <= Modify  BY <1>2, <1>3, <1>4
<1>6. Modify \in 0 .. time  BY <1>1, <1>5
<1>7. QED  BY <1>2, <1>5, <1>6

\* One of two numbers.
LEMMA EitherIs == ASSUME NEW a \in Nat, NEW b \in Nat PROVE Max({a, b}) \in Nat /\ Min({a, b}) \in Nat
<1>1. \E x \in {a, b} : \A y \in {a, b} : x >= y  OBVIOUS
<1>2. \E x \in {a, b} : \A y \in {a, b} : x =< y  OBVIOUS
<1>3. Max({a, b}) \in {a, b}  BY <1>1 DEF Max
<1>4. Min({a, b}) \in {a, b}  BY <1>2 DEF Min
<1>5. QED  BY <1>3, <1>4

LEMMA CountIs == ASSUME NEW S, S \subseteq Msgs PROVE Cardinality(S) \in Nat
<1>1. IsFiniteSet(Msgs)  BY ChatAssumption, FS_Interval DEF Msgs
<1>2. QED  BY <1>1, FS_Subset, FS_CardinalityType

\* A message of time at moves the conversation's row to that time at least.
LEMMA TouchIs ==
    ASSUME ChatTypes, NEW at \in Nat, NEW delta \in Nat, session' = Touch(at, delta)
    PROVE  /\ session' \in [there : BOOLEAN, lastAt : Nat, unread : Nat, blank : BOOLEAN]
           /\ session'.lastAt >= session.lastAt /\ session'.lastAt >= at
BY DEF ChatTypes, Touch

LEMMA ReadUpToIs ==
    ASSUME ChatTypes, NEW at, ownRow' = ReadUpTo(ownRow, at)
    PROVE  /\ ownRow' \in [Keys -> [status : {"absent", "sending", "sent", "failed"}, at : Nat, read : BOOLEAN]]
           /\ \A k \in Keys : ownRow'[k].status = ownRow[k].status
<1> DEFINE b(k) == ownRow[k].read \/ (ownRow[k].status # "absent" /\ ownRow[k].at <= at)
<1>1. ownRow' = [k \in Keys |-> [ownRow[k] EXCEPT !.read = b(k)]]  BY DEF ReadUpTo
<1>2. \A k \in Keys : b(k) \in BOOLEAN  OBVIOUS
<1> HIDE DEF b
<1> DEFINE Row == [status : {"absent", "sending", "sent", "failed"}, at : Nat, read : BOOLEAN]
<1>3. \A k \in Keys : ownRow[k] \in Row  BY DEF ChatTypes
<1>4. \A r \in Row, x \in BOOLEAN : [r EXCEPT !.read = x] \in Row /\ [r EXCEPT !.read = x].status = r.status
  OBVIOUS
<1>5. \A k \in Keys : ownRow'[k] = [ownRow[k] EXCEPT !.read = b(k)]  BY <1>1
<1>6. ownRow' = [k \in Keys |-> ownRow'[k]]  BY <1>1
<1> HIDE DEF Row
<1>7. ASSUME NEW k \in Keys  PROVE ownRow'[k] \in Row /\ ownRow'[k].status = ownRow[k].status
  <2>1. ownRow[k] \in Row /\ b(k) \in BOOLEAN  BY <1>2, <1>3
  <2>2. /\ [ownRow[k] EXCEPT !.read = b(k)] \in Row
        /\ [ownRow[k] EXCEPT !.read = b(k)].status = ownRow[k].status  BY <1>4, <2>1, Zenon
  <2>3. QED  BY <1>5, <2>2
<1>8. ownRow' \in [Keys -> Row]  BY <1>6, <1>7
<1>9. QED  BY <1>7, <1>8 DEF Row

\* What storing does to the tables: rows stay, and the conversation's row does not go back.
Stores ==
    /\ inRow' \in [Msgs -> {"absent", "unread", "read"}]
    /\ ownRow' \in [Keys -> [status : {"absent", "sending", "sent", "failed"}, at : Nat, read : BOOLEAN]]
    /\ session' \in [there : BOOLEAN, lastAt : Nat, unread : Nat, blank : BOOLEAN]
    /\ session'.lastAt >= session.lastAt

LEMMA SameTables == ASSUME ChatTypes, UNCHANGED rows PROVE Stores
BY DEF ChatTypes, rows, Stores

LEMMA ThereIs ==
    ASSUME ChatTypes, session' = [session EXCEPT !.there = TRUE]
    PROVE  /\ session' \in [there : BOOLEAN, lastAt : Nat, unread : Nat, blank : BOOLEAN]
           /\ session'.lastAt >= session.lastAt
<1>1. session \in [there : BOOLEAN, lastAt : Nat, unread : Nat, blank : BOOLEAN]  BY DEF ChatTypes
<1>2. session'.lastAt = session.lastAt /\ session.lastAt \in Nat  BY <1>1
<1>3. session' \in [there : BOOLEAN, lastAt : Nat, unread : Nat, blank : BOOLEAN]  BY <1>1
<1>4. session'.lastAt >= session.lastAt
  <2> DEFINE a == session.lastAt
             b == session'.lastAt
  <2>1. b = a /\ a \in Nat  BY <1>2
  <2> HIDE DEF a, b
  <2>2. b >= a  BY <2>1
  <2>3. QED  BY <2>2 DEF a, b
<1>5. QED  BY <1>3, <1>4

LEMMA SaveIncomingIs ==
    ASSUME ChatTypes, NEW m \in Msgs, NEW unread \in BOOLEAN, SaveIncoming(m, unread)
    PROVE  /\ Stores /\ inRow'[m] # "absent" /\ \A n \in Msgs : n # m => inRow'[n] = inRow[n]
           /\ inRow[m] # "absent" => inRow'[m] = inRow[m]
           /\ inRow[m] = "absent" => session'.lastAt >= wrote[m]
           /\ \A k \in Keys : ownRow'[k].status = ownRow[k].status
<1>1. CASE inRow[m] # "absent"
  <2>1. session' = [session EXCEPT !.there = TRUE] /\ inRow' = inRow /\ ownRow' = ownRow  BY <1>1 DEF SaveIncoming
  <2>2. session' \in [there : BOOLEAN, lastAt : Nat, unread : Nat, blank : BOOLEAN] /\ session'.lastAt >= session.lastAt
    BY <2>1, ThereIs
  <2>3. QED  BY <1>1, <2>1, <2>2 DEF ChatTypes, Stores
<1>2. CASE inRow[m] = "absent"
  <2>1. PICK to \in {"unread", "read"} : inRow' = [inRow EXCEPT ![m] = to]  BY <1>2 DEF SaveIncoming
  <2>2. PICK delta \in {0, 1} : session' = Touch(wrote[m], delta)  BY <1>2 DEF SaveIncoming
  <2>3. wrote[m] \in Nat /\ delta \in Nat  BY <2>2 DEF ChatTypes
  <2>4. /\ session' \in [there : BOOLEAN, lastAt : Nat, unread : Nat, blank : BOOLEAN]
        /\ session'.lastAt >= session.lastAt /\ session'.lastAt >= wrote[m]  BY <2>2, <2>3, TouchIs
  <2>5. ownRow' = ownRow \/ ownRow' = ReadUpTo(ownRow, wrote[m])  BY <1>2 DEF SaveIncoming
  <2>6. /\ ownRow' \in [Keys -> [status : {"absent", "sending", "sent", "failed"}, at : Nat, read : BOOLEAN]]
        /\ \A k \in Keys : ownRow'[k].status = ownRow[k].status
    <3>1. CASE ownRow' = ownRow  BY <3>1 DEF ChatTypes
    <3>2. CASE ownRow' = ReadUpTo(ownRow, wrote[m])  BY <3>2, ReadUpToIs
    <3>3. QED  BY <2>5, <3>1, <3>2
  <2>7. inRow' \in [Msgs -> {"absent", "unread", "read"}] /\ inRow'[m] # "absent"
        /\ \A n \in Msgs : n # m => inRow'[n] = inRow[n]  BY <2>1 DEF ChatTypes
  <2>8. QED  BY <1>2, <2>4, <2>6, <2>7 DEF Stores
<1>3. QED  BY <1>1, <1>2

\* An own row becomes sent only where the caller says so.
LEMMA SaveOwnIs ==
    ASSUME ChatTypes, NEW k \in Keys, NEW status \in {"sending", "sent"}, NEW at \in Nat, SaveOwn(k, status, at)
    PROVE  /\ Stores /\ inRow' = inRow
           /\ \A l \in Keys : l # k => ownRow'[l].status = ownRow[l].status
           /\ ownRow'[k].status \in {ownRow[k].status, status}
<1>1. CASE ownRow[k].status # "absent"
  <2>1. session' = [session EXCEPT !.there = TRUE] /\ inRow' = inRow /\ ownRow' = ownRow  BY <1>1 DEF SaveOwn
  <2>2. session' \in [there : BOOLEAN, lastAt : Nat, unread : Nat, blank : BOOLEAN] /\ session'.lastAt >= session.lastAt
    BY <2>1, ThereIs
  <2>3. QED  BY <2>1, <2>2 DEF ChatTypes, Stores
<1>2. CASE ownRow[k].status = "absent"
  <2> DEFINE b == k[2] = "platform" /\ ownRow[<<k[1], "local">>].read
             r == [status |-> status, at |-> at, read |-> b]
  <2>1. inRow' = inRow /\ ownRow' = [ownRow EXCEPT ![k] = r] /\ session' = Touch(at, 0)  BY <1>2 DEF SaveOwn
  <2>2. b \in BOOLEAN  OBVIOUS
  <2> HIDE DEF b
  <2>3. r \in [status : {"absent", "sending", "sent", "failed"}, at : Nat, read : BOOLEAN] /\ r.status = status
    BY <2>2
  <2> HIDE DEF r
  <2>4. /\ session' \in [there : BOOLEAN, lastAt : Nat, unread : Nat, blank : BOOLEAN]
        /\ session'.lastAt >= session.lastAt  BY <2>1, TouchIs
  <2>5. QED  BY <2>1, <2>3, <2>4 DEF ChatTypes, Stores
<1>3. QED  BY <1>1, <1>2

LEMMA UpdateStatusIs ==
    ASSUME ChatTypes, NEW k \in Keys, NEW status \in {"sent", "failed"}, UpdateMessageStatus(k, status)
    PROVE  /\ ownRow' \in [Keys -> [status : {"absent", "sending", "sent", "failed"}, at : Nat, read : BOOLEAN]]
           /\ \A l \in Keys : l # k => ownRow'[l].status = ownRow[l].status
           /\ ownRow'[k].status = status
<1> DEFINE r == [ownRow[k] EXCEPT !.status = status]
<1>1. r \in [status : {"absent", "sending", "sent", "failed"}, at : Nat, read : BOOLEAN] /\ r.status = status
  BY DEF ChatTypes
<1>2. ownRow' = [ownRow EXCEPT ![k] = r]  BY DEF UpdateMessageStatus
<1> HIDE DEF r
<1>3. QED  BY <1>1, <1>2 DEF ChatTypes

LEMMA RecordSentIs ==
    ASSUME ChatTypes, NEW k \in Keys, RecordOutgoingSent(k)
    PROVE  /\ Stores /\ inRow' = inRow /\ time' \in {time, time + 1}
           /\ \A l \in Keys : l # k => ownRow'[l].status = ownRow[l].status
<1>1. CASE ownRow[k].status # "absent"
  <2>1. UpdateMessageStatus(k, "sent") /\ inRow' = inRow /\ session' = session /\ time' = time
    BY <1>1 DEF RecordOutgoingSent
  <2>2. QED  BY <2>1, UpdateStatusIs DEF Stores, ChatTypes
<1>2. CASE ownRow[k].status = "absent"
  <2>1. SaveOwn(k, "sent", time + 1) /\ time' = time + 1  BY <1>2 DEF RecordOutgoingSent, Tick
  <2>2. time + 1 \in Nat  BY DEF ChatTypes
  <2>3. QED  BY <2>1, <2>2, SaveOwnIs
<1>3. QED  BY <1>1, <1>2

\* Types are kept by what touches neither the pages nor the clock's history.
LEMMA TypesStay ==
    ASSUME ChatTypes, Stores, time' \in {time, time + 1}, acts' \in {acts, acts + 1}, UNCHANGED <<wrote, arrived>>,
           page' \in [Pages -> [step : {"idle", "count", "upsert", "sync"}, visible : BOOLEAN, at : Nat,
                                official : Nat, system : BOOLEAN, count : Nat]],
           send' \in [Sends -> {"idle", "calling", "sent", "failed", "ended", "cut"}], told' \in [Msgs -> Nat]
    PROVE  ChatTypes'
<1>1. time' \in Nat \ {0} /\ acts' \in Nat /\ time <= time'  BY DEF ChatTypes
<1>2. \A m \in Msgs : wrote[m] <= time'  BY <1>1 DEF ChatTypes
<1>3. \A s \in Sends : arrived[s] <= time'  BY <1>1 DEF ChatTypes
<1>4. QED  BY <1>1, <1>2, <1>3 DEF ChatTypes, Stores

-----------------------------------------------------------------------------
(* The parts of the invariant, and what keeps each.                        *)

\* Nothing is announced, no row goes.
ToldStays == told' = told /\ \A m \in Msgs : inRow[m] # "absent" => inRow'[m] # "absent"

\* What is on its way for the buyer was on its way before, and what is stored was written.
BuyerStays ==
    /\ wrote' = wrote
    /\ \A m \in Msgs : inRow'[m] # "absent" => inRow[m] # "absent" \/ wrote[m] > 0
    /\ saving' \subseteq saving /\ waiting' \in {waiting, None} /\ history' \subseteq history
    /\ \A x \in incoming' : x \in incoming \/ x.kind # "message"

\* What becomes sent has arrived.
SellerStays ==
    /\ arrived' = arrived /\ history' \subseteq history
    /\ \A x \in incoming' : x \in incoming \/ x.kind # "echo"
    /\ \A s \in Sends : send'[s] = "sent" => send[s] = "sent" \/ arrived[s] > 0
    /\ \A k \in Keys : ownRow'[k].status = "sent" => ownRow[k].status = "sent" \/ arrived[k[1]] > 0

\* A page under way stays as it was read, and what becomes unread moves the conversation's row.
NewerStays ==
    /\ wrote' = wrote
    /\ \A p \in Pages : page'[p].step # "idle" => page[p].step # "idle" /\ page'[p].at = page[p].at
    /\ \A m \in Msgs : inRow'[m] = "unread" => inRow[m] = "unread" \/ session'.lastAt >= wrote[m]
    /\ session'.lastAt >= session.lastAt

LEMMA ToldKeeps == ASSUME Told, ToldStays PROVE Told'
BY DEF Told, ToldStays

LEMMA BuyerKeeps == ASSUME FromBuyer, BuyerStays PROVE FromBuyer'
BY DEF FromBuyer, BuyerStays, None

LEMMA KeyIs == \A s \in Sends, side \in {"local", "platform"} : <<s, side>> \in Keys /\ <<s, side>>[1] = s
BY DEF Keys

LEMMA SellerKeeps == ASSUME FromSeller, SellerStays PROVE FromSeller'
<1>1. SentArrived'
  <2> SUFFICES ASSUME NEW s \in Sends, NEW side \in {"local", "platform"}, ownRow'[<<s, side>>].status = "sent"
               PROVE  arrived'[s] > 0
    BY DEF SentArrived
  <2>1. ownRow[<<s, side>>].status = "sent" \/ arrived[s] > 0  BY KeyIs DEF SellerStays
  <2>2. QED  BY <2>1 DEF SellerStays, FromSeller, SentArrived
<1>2. \A s \in Sends : send'[s] = "sent" => arrived'[s] > 0  BY DEF SellerStays, FromSeller
<1>3. QED  BY <1>1, <1>2 DEF SellerStays, FromSeller

LEMMA NewerKeeps == ASSUME ChatTypes, ChatTypes', Newer, NewerStays PROVE Newer'
<1> SUFFICES ASSUME NEW p \in Pages, NEW m \in Msgs,
                    page'[p].step # "idle", inRow'[m] = "unread", wrote'[m] > page'[p].at
             PROVE  session'.lastAt >= wrote'[m]
  BY DEF Newer
<1>1. page[p].step # "idle" /\ wrote[m] > page[p].at /\ wrote' = wrote  BY DEF NewerStays
<1>2. inRow[m] = "unread" \/ session'.lastAt >= wrote[m]  BY DEF NewerStays
<1>3. wrote[m] \in Nat /\ session.lastAt \in Nat /\ session'.lastAt \in Nat /\ session'.lastAt >= session.lastAt
  BY DEF ChatTypes, NewerStays
<1>4. QED  BY <1>1, <1>2, <1>3 DEF Newer

LEMMA Settled ==
    ASSUME ChatInv, ChatTypes', ToldStays, BuyerStays, SellerStays, NewerStays
    PROVE  ChatInv'
BY ToldKeeps, BuyerKeeps, SellerKeeps, NewerKeeps DEF ChatInv, OnePage

LEMMA SettledFor ==
    ASSUME ChatInv, ChatTypes', ToldStays, FromBuyer', SellerStays, NewerStays
    PROVE  ChatInv'
BY ToldKeeps, SellerKeeps, NewerKeeps DEF ChatInv, OnePage

-----------------------------------------------------------------------------
(* The actions.                                                            *)

LEMMA PlatformKeeps == ASSUME ChatInv, BuyerOpens \/ ReadElsewhere \/ Disconnect \/ RepeatPush PROVE ChatInv'
<1>1. /\ UNCHANGED <<time, wrote, arrived, saving, waiting, history, inRow, ownRow, session, page, send, told>>
      /\ acts' = acts + 1 /\ UNCHANGED rows
  BY DEF BuyerOpens, ReadElsewhere, Disconnect, RepeatPush, platform, engine, rows, asked, Act
<1>2. ChatTypes /\ FromBuyer  BY DEF ChatInv
<1>3. ChatTypes'  BY <1>1, <1>2, SameTables, TypesStay DEF ChatTypes
<1>4. \A x \in incoming' : \/ x \in incoming \/ x.kind = "receipt"
                           \/ x.kind = "message" /\ x.of \in Msgs /\ wrote[x.of] > 0
  BY PushIs DEF BuyerOpens, ReadElsewhere, Disconnect, RepeatPush
<1>5. FromBuyer'  BY <1>1, <1>2, <1>4 DEF FromBuyer
<1>6. ToldStays /\ SellerStays /\ NewerStays  BY <1>1, <1>2, <1>4 DEF ToldStays, SellerStays, NewerStays, ChatTypes
<1>7. QED  BY <1>3, <1>5, <1>6, SettledFor

LEMMA BuyerWritesKeeps == ASSUME ChatInv, NEW m \in Msgs, BuyerWrites(m) PROVE ChatInv'
<1>1. /\ UNCHANGED <<arrived, saving, waiting, history, inRow, ownRow, session, page, send, acts, told>>
      /\ time' = time + 1 /\ wrote' = [wrote EXCEPT ![m] = time + 1] /\ wrote[m] = 0
      /\ incoming' = incoming \cup {Push("message", m)}
  BY DEF BuyerWrites, Tick, engine, rows, asked
<1>2. ChatTypes /\ Told /\ FromBuyer /\ FromSeller /\ (OnePage => Newer)  BY DEF ChatInv
<1>3. time \in Nat /\ wrote' \in [Msgs -> Nat] /\ wrote'[m] = time + 1 /\ \A n \in Msgs : n # m => wrote'[n] = wrote[n]
  BY <1>1, <1>2 DEF ChatTypes
<1>4. (\A n \in Msgs : wrote'[n] <= time') /\ \A s \in Sends : arrived'[s] <= time'  BY <1>1, <1>2, <1>3 DEF ChatTypes
<1>5. ChatTypes'  BY <1>1, <1>2, <1>3, <1>4 DEF ChatTypes
<1>6. \A n \in Msgs : wrote[n] > 0 => wrote'[n] > 0 /\ n # m  BY <1>1, <1>2, <1>3 DEF ChatTypes
<1>7. wrote'[m] > 0  BY <1>3
<1>8. FromBuyer'  BY <1>1, <1>2, <1>6, <1>7, PushIs DEF FromBuyer
<1>9. SellerStays /\ Told'  BY <1>1, <1>2, PushIs DEF SellerStays, Told
<1>10. ASSUME Newer  PROVE Newer'
  <2>1. inRow[m] # "unread"  BY <1>1, <1>2 DEF FromBuyer
  <2>2. QED  BY <1>1, <1>3, <1>10, <2>1 DEF Newer
<1>11. QED  BY <1>2, <1>5, <1>8, <1>9, <1>10, SellerKeeps DEF ChatInv, OnePage

LEMMA DispatchMessageKeeps == ASSUME ChatInv, NEW m \in Msgs, DispatchMessage(m) PROVE ChatInv'
<1>1. /\ UNCHANGED <<time, wrote, arrived, saving, history, inRow, ownRow, session, page, send, acts, told>>
      /\ UNCHANGED rows /\ incoming' \subseteq incoming /\ Push("message", m) \in incoming /\ waiting' \in {waiting, m}
  BY DEF DispatchMessage, platform, rows, asked
<1>2. ChatTypes /\ FromBuyer  BY DEF ChatInv
<1>3. ChatTypes'  BY <1>1, <1>2, SameTables, TypesStay DEF ChatTypes
<1>4. wrote[m] > 0  BY <1>1, <1>2, PushIs DEF FromBuyer
<1>5. FromBuyer'  BY <1>1, <1>2, <1>4 DEF FromBuyer
<1>6. ToldStays /\ SellerStays /\ NewerStays  BY <1>1, <1>2 DEF ToldStays, SellerStays, NewerStays, ChatTypes
<1>7. QED  BY <1>3, <1>5, <1>6, SettledFor

LEMMA DebounceKeeps == ASSUME ChatInv, DebounceEnds PROVE ChatInv'
<1>1. /\ UNCHANGED <<time, wrote, arrived, incoming, history, inRow, ownRow, session, page, send, acts, told>>
      /\ UNCHANGED rows /\ waiting # None /\ saving' = saving \cup {waiting} /\ waiting' = None
  BY DEF DebounceEnds, platform, rows, asked
<1>2. ChatTypes /\ FromBuyer  BY DEF ChatInv
<1>3. ChatTypes'  BY <1>1, <1>2, SameTables, TypesStay DEF ChatTypes
<1>4. FromBuyer'  BY <1>1, <1>2 DEF FromBuyer
<1>5. ToldStays /\ SellerStays /\ NewerStays  BY <1>1, <1>2 DEF ToldStays, SellerStays, NewerStays, ChatTypes
<1>6. QED  BY <1>3, <1>4, <1>5, SettledFor

LEMMA RecordIncomingKeeps == ASSUME ChatInv, NEW m \in Msgs, RecordIncoming(m) PROVE ChatInv'
<1>1. /\ UNCHANGED <<time, wrote, arrived, incoming, waiting, history, page, send, acts>>
      /\ m \in saving /\ saving' \subseteq saving /\ SaveIncoming(m, TRUE)
      /\ told' = [told EXCEPT ![m] = told[m] + (IF inRow[m] = "absent" THEN 1 ELSE 0)]
  BY DEF RecordIncoming, platform, asked
<1>2. ChatTypes /\ Told /\ FromBuyer  BY DEF ChatInv
<1>3. /\ Stores /\ inRow'[m] # "absent" /\ \A n \in Msgs : n # m => inRow'[n] = inRow[n]
      /\ inRow[m] # "absent" => inRow'[m] = inRow[m]
      /\ inRow[m] = "absent" => session'.lastAt >= wrote[m]
      /\ \A k \in Keys : ownRow'[k].status = ownRow[k].status
  BY <1>1, <1>2, SaveIncomingIs
<1> DEFINE n == told[m] + (IF inRow[m] = "absent" THEN 1 ELSE 0)
<1>4. told' \in [Msgs -> Nat] /\ told'[m] <= 1 /\ \A o \in Msgs : o # m => told'[o] = told[o]
  <2>1. told \in [Msgs -> Nat] /\ told[m] <= 1 /\ (inRow[m] = "absent" => told[m] # 1)  BY <1>2 DEF ChatTypes, Told
  <2>2. n \in {0, 1}  BY <2>1
  <2>3. told' = [told EXCEPT ![m] = n]  BY <1>1
  <2> HIDE DEF n
  <2>4. QED  BY <2>1, <2>2, <2>3
<1>5. ChatTypes'  BY <1>1, <1>2, <1>3, <1>4, TypesStay DEF ChatTypes
<1>6. Told'  BY <1>2, <1>3, <1>4 DEF Told
<1>7. BuyerStays  BY <1>1, <1>2, <1>3 DEF BuyerStays, FromBuyer
<1>8. SellerStays  BY <1>1, <1>3 DEF SellerStays
<1>9. NewerStays  BY <1>1, <1>3 DEF NewerStays, Stores
<1>10. QED  BY <1>2, <1>5, <1>6, <1>7, <1>8, <1>9, BuyerKeeps, SellerKeeps, NewerKeeps DEF ChatInv, OnePage

\* What stores an own message, or marks own rows, moves nothing else.
LEMMA OwnKeeps ==
    ASSUME ChatInv, Stores, inRow' = inRow, time' \in {time, time + 1}, acts' \in {acts, acts + 1},
           UNCHANGED <<wrote, arrived, saving, waiting, page, told>>, history' \subseteq history,
           incoming' \subseteq incoming,
           send' \in [Sends -> {"idle", "calling", "sent", "failed", "ended", "cut"}],
           \A s \in Sends : send'[s] = "sent" => send[s] = "sent" \/ arrived[s] > 0,
           \A k \in Keys : ownRow'[k].status = "sent" => ownRow[k].status = "sent" \/ arrived[k[1]] > 0
    PROVE  ChatInv'
<1>1. ChatTypes  BY DEF ChatInv
<1>2. ChatTypes'  BY <1>1, TypesStay DEF ChatTypes
<1>3. ToldStays /\ BuyerStays  BY DEF ToldStays, BuyerStays
<1>4. SellerStays /\ NewerStays  BY DEF SellerStays, NewerStays, Stores
<1>5. QED  BY <1>2, <1>3, <1>4, Settled

LEMMA OwnEchoKeeps == ASSUME ChatInv, NEW s \in Sends, OwnEcho(s) PROVE ChatInv'
<1> DEFINE k == <<s, "platform">>
<1>1. /\ UNCHANGED <<wrote, arrived, saving, waiting, history, page, send, acts, told>>
      /\ Push("echo", s) \in incoming /\ incoming' \subseteq incoming /\ RecordOutgoingSent(k)
  BY DEF OwnEcho, platform, engine, asked
<1>2. ChatTypes /\ FromSeller  BY DEF ChatInv
<1>3. k \in Keys /\ k[1] = s  BY KeyIs
<1>4. arrived[s] > 0  BY <1>1, <1>2, PushIs DEF FromSeller
<1> HIDE DEF k
<1>5. /\ Stores /\ inRow' = inRow /\ time' \in {time, time + 1}
      /\ \A l \in Keys : l # k => ownRow'[l].status = ownRow[l].status
  BY <1>1, <1>2, <1>3, RecordSentIs
<1>6. \A l \in Keys : ownRow'[l].status = "sent" => ownRow[l].status = "sent" \/ arrived[l[1]] > 0
  BY <1>3, <1>4, <1>5
<1>7. QED  BY <1>1, <1>2, <1>5, <1>6, OwnKeeps DEF ChatTypes

LEMMA MessageReadKeeps == ASSUME ChatInv, NEW s \in Sends, HandleMessageRead(s) PROVE ChatInv'
<1>1. /\ UNCHANGED <<time, wrote, arrived, saving, waiting, history, inRow, session, page, send, acts, told>>
      /\ incoming' \subseteq incoming
  BY DEF HandleMessageRead, platform, engine, asked
<1>2. PICK at : ownRow' = ReadUpTo(ownRow, at)  BY DEF HandleMessageRead
<1>3. ChatTypes  BY DEF ChatInv
<1>4. /\ ownRow' \in [Keys -> [status : {"absent", "sending", "sent", "failed"}, at : Nat, read : BOOLEAN]]
      /\ \A k \in Keys : ownRow'[k].status = ownRow[k].status
  BY <1>2, <1>3, ReadUpToIs
<1>5. Stores  BY <1>1, <1>3, <1>4 DEF Stores, ChatTypes
<1>6. QED  BY <1>1, <1>3, <1>4, <1>5, OwnKeeps DEF ChatTypes

LEMMA StoreEntryKeeps == ASSUME ChatInv, StoreEntry PROVE ChatInv'
<1>1. PICK x \in history : /\ history' = history \ {x}
                           /\ \/ x.kind = "message" /\ SaveIncoming(x.of, FALSE)
                              \/ x.kind = "own" /\ SaveOwn(<<x.of, "platform">>, "sent", arrived[x.of])
                           /\ UNCHANGED <<time, platform, incoming, engine, page, mark, send, acts, told>>
  BY DEF StoreEntry
<1>2. UNCHANGED <<time, wrote, arrived, incoming, saving, waiting, page, send, acts, told>> /\ history' \subseteq history
  BY <1>1 DEF platform, engine
<1>3. ChatTypes /\ FromBuyer /\ FromSeller  BY DEF ChatInv
<1>4. CASE x.kind = "message" /\ SaveIncoming(x.of, FALSE)
  <2> DEFINE m == x.of
  <2>1. m \in Msgs /\ wrote[m] > 0  BY <1>3, <1>4 DEF FromBuyer
  <2>2. SaveIncoming(m, FALSE)  BY <1>4
  <2> HIDE DEF m
  <2>3. /\ Stores /\ inRow'[m] # "absent" /\ \A n \in Msgs : n # m => inRow'[n] = inRow[n]
        /\ inRow[m] # "absent" => inRow'[m] = inRow[m]
        /\ inRow[m] = "absent" => session'.lastAt >= wrote[m]
        /\ \A k \in Keys : ownRow'[k].status = ownRow[k].status
    BY <1>3, <2>1, <2>2, SaveIncomingIs
  <2>4. ChatTypes'  BY <1>2, <1>3, <2>3, TypesStay DEF ChatTypes
  <2>5. ToldStays  BY <1>2, <2>3 DEF ToldStays
  <2>6. BuyerStays  BY <1>2, <2>1, <2>3 DEF BuyerStays
  <2>7. SellerStays  BY <1>2, <2>3 DEF SellerStays
  <2>8. NewerStays  BY <1>2, <2>3 DEF NewerStays, Stores
  <2>9. QED  BY <2>4, <2>5, <2>6, <2>7, <2>8, Settled
<1>5. CASE x.kind = "own" /\ SaveOwn(<<x.of, "platform">>, "sent", arrived[x.of])
  <2> DEFINE s == x.of
             k == <<s, "platform">>
             at == arrived[s]
  <2>1. s \in Sends /\ arrived[s] > 0  BY <1>3, <1>5 DEF FromSeller
  <2>2. k \in Keys /\ k[1] = s /\ at \in Nat  BY <1>3, <2>1, KeyIs DEF ChatTypes
  <2>3. SaveOwn(k, "sent", at)  BY <1>5
  <2> HIDE DEF k, at
  <2>4. /\ Stores /\ inRow' = inRow
        /\ \A l \in Keys : l # k => ownRow'[l].status = ownRow[l].status
    BY <1>3, <2>2, <2>3, SaveOwnIs
  <2>5. \A l \in Keys : ownRow'[l].status = "sent" => ownRow[l].status = "sent" \/ arrived[l[1]] > 0
    BY <2>1, <2>2, <2>4
  <2>6. QED  BY <1>2, <1>3, <2>4, <2>5, OwnKeeps DEF ChatTypes
<1>6. QED  BY <1>1, <1>4, <1>5

LEMMA SendingKeeps == ASSUME ChatInv, NEW s \in Sends, Start(s) \/ Return(s) \/ SetStatus(s) PROVE ChatInv'
<1> DEFINE k == <<s, "local">>
<1>1. ChatTypes /\ FromSeller  BY DEF ChatInv
<1>2. k \in Keys /\ k[1] = s /\ time + 1 \in Nat
  <2>1. time + 1 \in Nat  BY <1>1 DEF ChatTypes
  <2>2. QED  BY <2>1, KeyIs
<1>3. UNCHANGED <<wrote, arrived, saving, waiting, history, incoming, page, told>>
  BY DEF Start, Return, SetStatus, platform, engine
<1>4. acts' \in {acts, acts + 1}  BY DEF Start, Return, SetStatus, Act
<1>5. /\ send' \in [Sends -> {"idle", "calling", "sent", "failed", "ended", "cut"}]
      /\ \A r \in Sends : send'[r] = "sent" => send[r] = "sent" \/ arrived[r] > 0
  <2>1. PICK to \in {"calling", "sent", "failed", "ended", "cut"} :
          send' = [send EXCEPT ![s] = to] /\ (to = "sent" => arrived[s] > 0)
    BY DEF Start, Return, SetStatus
  <2>2. QED  BY <1>1, <2>1 DEF ChatTypes
<1>6. /\ Stores /\ inRow' = inRow /\ time' \in {time, time + 1}
      /\ \A l \in Keys : ownRow'[l].status = "sent" => ownRow[l].status = "sent" \/ arrived[l[1]] > 0
  <2>1. CASE UNCHANGED <<rows, time>>  BY <1>1, <2>1, SameTables DEF rows
  <2>2. CASE SaveOwn(k, "sending", time + 1) /\ Tick
    <3>1. SaveOwn(k, "sending", time + 1)  BY <2>2
    <3> HIDE DEF k
    <3>2. /\ Stores /\ inRow' = inRow
          /\ \A l \in Keys : l # k => ownRow'[l].status = ownRow[l].status
          /\ ownRow'[k].status \in {ownRow[k].status, "sending"}
      BY <1>1, <1>2, <3>1, SaveOwnIs
    <3>3. QED  BY <2>2, <3>2 DEF Tick
  <2>3. CASE RecordOutgoingSent(k) /\ arrived[s] > 0
    <3>1. RecordOutgoingSent(k) /\ arrived[k[1]] > 0  BY <1>2, <2>3
    <3> HIDE DEF k
    <3>2. /\ Stores /\ inRow' = inRow /\ time' \in {time, time + 1}
          /\ \A l \in Keys : l # k => ownRow'[l].status = ownRow[l].status
      BY <1>1, <1>2, <3>1, RecordSentIs
    <3>3. QED  BY <3>1, <3>2
  <2>4. CASE UpdateMessageStatus(k, send[s]) /\ send[s] \in {"sent", "failed"} /\ UNCHANGED <<time, inRow, session>>
    <3>1. send[s] = "sent" => arrived[k[1]] > 0  BY <1>1, <1>2 DEF FromSeller
    <3> HIDE DEF k
    <3>2. /\ ownRow' \in [Keys -> [status : {"absent", "sending", "sent", "failed"}, at : Nat, read : BOOLEAN]]
          /\ \A l \in Keys : l # k => ownRow'[l].status = ownRow[l].status
          /\ ownRow'[k].status = send[s]
      BY <1>1, <1>2, <2>4, UpdateStatusIs
    <3>3. Stores  BY <1>1, <2>4, <3>2 DEF Stores, ChatTypes
    <3>4. QED  BY <2>4, <3>1, <3>2, <3>3
  <2>5. QED  BY <2>1, <2>2, <2>3, <2>4 DEF Start, Return, SetStatus, rows
<1>7. QED  BY <1>3, <1>4, <1>5, <1>6, OwnKeeps

LEMMA DeliverKeeps == ASSUME ChatInv, NEW s \in Sends, Deliver(s) PROVE ChatInv'
<1>1. /\ UNCHANGED <<wrote, saving, waiting, history, inRow, ownRow, session, page, send, acts, told>>
      /\ time' = time + 1 /\ arrived' = [arrived EXCEPT ![s] = time + 1] /\ arrived[s] = 0
      /\ incoming' = incoming \cup {Push("echo", s)}
  BY DEF Deliver, Tick, engine, rows, asked
<1>2. ChatTypes /\ Told /\ FromBuyer /\ FromSeller /\ (OnePage => Newer)  BY DEF ChatInv
<1>3. /\ time \in Nat /\ arrived' \in [Sends -> Nat] /\ arrived'[s] = time + 1
      /\ \A r \in Sends : r # s => arrived'[r] = arrived[r]
  BY <1>1, <1>2 DEF ChatTypes
<1>4. (\A n \in Msgs : wrote'[n] <= time') /\ \A r \in Sends : arrived'[r] <= time'  BY <1>1, <1>2, <1>3 DEF ChatTypes
<1>5. ChatTypes'  BY <1>1, <1>2, <1>3, <1>4 DEF ChatTypes
<1>6. (\A r \in Sends : arrived[r] > 0 => arrived'[r] > 0) /\ arrived'[s] > 0  BY <1>2, <1>3 DEF ChatTypes
<1>7. SentArrived'  BY <1>1, <1>2, <1>6 DEF FromSeller, SentArrived
<1>8. FromSeller'  BY <1>1, <1>2, <1>6, <1>7, PushIs DEF FromSeller
<1>9. ToldStays /\ BuyerStays  BY <1>1, PushIs DEF ToldStays, BuyerStays
<1>10. NewerStays  BY <1>1, <1>2 DEF NewerStays, ChatTypes
<1>11. QED  BY <1>2, <1>5, <1>8, <1>9, <1>10, ToldKeeps, BuyerKeeps, NewerKeeps DEF ChatInv, OnePage

\* Reading a page, dropping what it does not show, and writing what it shows.
PageSteps == {"idle", "count", "upsert", "sync"}
PageRec   == [step : PageSteps, visible : BOOLEAN, at : Nat, official : Nat, system : BOOLEAN, count : Nat]

\* What a step of a page leaves alone.
PageOnly == UNCHANGED <<time, wrote, arrived, saving, waiting, incoming, history, inRow, ownRow, send, told>>

LEMMA PageKeeps ==
    ASSUME ChatInv, PageOnly, acts' \in {acts, acts + 1},
           page' \in [Pages -> PageRec],
           session' \in [there : BOOLEAN, lastAt : Nat, unread : Nat, blank : BOOLEAN], OnePage /\ Newer => Newer'
    PROVE  ChatInv'
<1>1. ChatTypes  BY DEF ChatInv
<1>2. ChatTypes'  BY <1>1 DEF ChatTypes, PageOnly, PageRec, PageSteps
<1>3. ToldStays /\ BuyerStays /\ SellerStays  BY DEF PageOnly, ToldStays, BuyerStays, SellerStays
<1>4. QED  BY <1>2, <1>3, ToldKeeps, BuyerKeeps, SellerKeeps DEF ChatInv, OnePage

LEMMA NoSessionIs == NoSession \in [there : BOOLEAN, lastAt : Nat, unread : Nat, blank : BOOLEAN]
                     /\ NoPage \in PageRec /\ NoPage.step = "idle"
BY DEF NoSession, NoPage, PageRec, PageSteps

LEMMA FetchPageKeeps == ASSUME ChatInv, NEW p \in Pages, FetchPage(p) PROVE ChatInv'
<1>1. ChatTypes  BY DEF ChatInv
<1>2. PageOnly /\ acts' \in {acts, acts + 1} /\ session' \in {session, NoSession}
  BY DEF FetchPage, PageOnly, platform, engine, Act
<1>3. PICK visible \in BOOLEAN, official \in Nat, system \in BOOLEAN :
        page' = [page EXCEPT ![p] = [NoPage EXCEPT !.step = "count", !.visible = visible, !.at = Modify,
                                        !.official = official, !.system = system]]
  <2> DEFINE last == {m \in Msgs : wrote[m] = Modify}
             sy == last # {} /\ last \subseteq Systems
             vi == ~hidden
  <2>1. Cardinality(RedPoint) \in Nat  BY CountIs DEF RedPoint
  <2>2. sy \in BOOLEAN /\ vi \in BOOLEAN  OBVIOUS
  <2>3. page' = [page EXCEPT ![p] = [NoPage EXCEPT !.step = "count", !.visible = vi, !.at = Modify,
                                        !.official = Cardinality(RedPoint), !.system = sy]]
    BY DEF FetchPage
  <2> HIDE DEF sy, vi
  <2>4. QED  BY <2>1, <2>2, <2>3
<1>4. Modify \in Nat /\ \A m \in Msgs : wrote[m] <= Modify  BY <1>1, ModifyIs
<1> DEFINE r == [NoPage EXCEPT !.step = "count", !.visible = visible, !.at = Modify,
                               !.official = official, !.system = system]
<1>5. r \in PageRec /\ r.at = Modify  BY <1>4 DEF NoPage, PageRec, PageSteps
<1>6. page' = [page EXCEPT ![p] = r]  BY <1>3
<1> HIDE DEF r
<1>7. page' \in [Pages -> PageRec] /\ page'[p].at = Modify  BY <1>1, <1>5, <1>6 DEF ChatTypes, PageRec, PageSteps
<1>8. OnePage => Newer'
  <2> SUFFICES ASSUME OnePage, NEW q \in Pages, NEW m \in Msgs, wrote[m] > page'[q].at  PROVE FALSE
    BY <1>2 DEF Newer, PageOnly
  <2>1. q = p  BY DEF OnePage
  <2>2. wrote[m] \in Nat /\ wrote[m] <= Modify  BY <1>1, <1>4 DEF ChatTypes
  <2>3. QED  BY <1>4, <1>7, <2>1, <2>2
<1>9. QED  BY <1>1, <1>2, <1>7, <1>8, NoSessionIs, PageKeeps DEF ChatTypes

LEMMA DropHiddenKeeps == ASSUME ChatInv, NEW p \in Pages, DropHidden(p) PROVE ChatInv'
<1>1. ChatTypes  BY DEF ChatInv
<1>2. PageOnly /\ acts' = acts /\ session' = NoSession /\ page' = [page EXCEPT ![p] = NoPage]
  BY DEF DropHidden, PageOnly, platform, engine
<1>3. page' \in [Pages -> PageRec] /\ page'[p].step = "idle"
  BY <1>1, <1>2, NoSessionIs DEF ChatTypes, PageRec, PageSteps
<1>4. OnePage => Newer'  BY <1>3 DEF Newer, OnePage
<1>5. QED  BY <1>2, <1>3, <1>4, NoSessionIs, PageKeeps

\* A page that goes on, next to a row that does not go back.
LEMMA PageGoesOn ==
    ASSUME ChatInv, NEW p \in Pages, PageOnly, acts' = acts, NEW r \in PageRec, page' = [page EXCEPT ![p] = r],
           r.step # "idle" => page[p].step # "idle" /\ r.at = page[p].at,
           session' \in [there : BOOLEAN, lastAt : Nat, unread : Nat, blank : BOOLEAN],
           session'.lastAt >= session.lastAt
    PROVE  ChatInv'
<1>1. ChatTypes  BY DEF ChatInv
<1>2. page' \in [Pages -> PageRec] /\ \A q \in Pages : page'[q] = IF q = p THEN r ELSE page[q]
  BY <1>1 DEF ChatTypes, PageRec, PageSteps
<1>3. ChatTypes'  BY <1>1, <1>2 DEF ChatTypes, PageOnly, PageRec, PageSteps
<1>4. NewerStays  BY <1>2 DEF NewerStays, PageOnly
<1>5. QED  BY <1>1, <1>2, <1>3, <1>4, NewerKeeps, PageKeeps

LEMMA CountUnreadKeeps == ASSUME ChatInv, NEW p \in Pages, CountUnread(p) PROVE ChatInv'
<1>1. ChatTypes  BY DEF ChatInv
<1>2. PageOnly /\ acts' = acts /\ session' = session
  BY DEF CountUnread, PageOnly, platform, engine, rows
<1> DEFINE local == Cardinality({m \in Msgs : inRow[m] = "unread"})
           official == page[p].official
<1>3. local \in Nat /\ official \in Nat  BY <1>1, CountIs DEF ChatTypes
<1>4. PICK n \in {0, 1} :
        page' = [page EXCEPT ![p].step = "upsert",
                    ![p].count = IF official = 0 THEN 0
                                 ELSE IF local > 0 THEN Min({local, official}) ELSE official - n]
  BY DEF CountUnread
<1> DEFINE c == IF official = 0 THEN 0 ELSE IF local > 0 THEN Min({local, official}) ELSE official - n
<1>5. c \in Nat
  <2> HIDE DEF local, official
  <2>1. Min({local, official}) \in Nat  BY <1>3, EitherIs
  <2>2. official # 0 => official - n \in Nat  BY <1>3
  <2>3. QED  BY <2>1, <2>2
<1>6. page' = [page EXCEPT ![p] = [page[p] EXCEPT !.step = "upsert", !.count = c]]  BY <1>1, <1>4 DEF ChatTypes
<1> HIDE DEF c
<1> DEFINE r == [page[p] EXCEPT !.step = "upsert", !.count = c]
<1>7. page[p] \in PageRec  BY <1>1 DEF ChatTypes, PageRec, PageSteps
<1>8. r \in PageRec /\ r.at = page[p].at  BY <1>5, <1>7 DEF PageRec, PageSteps
<1>9. page[p].step # "idle"  BY DEF CountUnread
<1>10. page' = [page EXCEPT ![p] = r]  BY <1>6
<1> HIDE DEF r
<1>11. session' \in [there : BOOLEAN, lastAt : Nat, unread : Nat, blank : BOOLEAN] /\ session'.lastAt >= session.lastAt
  BY <1>1, <1>2 DEF ChatTypes
<1>12. QED  BY <1>2, <1>8, <1>9, <1>10, <1>11, PageGoesOn

LEMMA UpsertKeeps == ASSUME ChatInv, NEW p \in Pages, UpsertSession(p) PROVE ChatInv'
<1>1. ChatTypes  BY DEF ChatInv
<1>2. PageOnly /\ acts' = acts /\ page' = [page EXCEPT ![p].step = "sync"] /\ page[p].step = "upsert"
  BY DEF UpsertSession, PageOnly, platform, engine
<1> DEFINE r == [page[p] EXCEPT !.step = "sync"]
<1>3. page[p] \in PageRec  BY <1>1 DEF ChatTypes, PageRec, PageSteps
<1>4. r \in PageRec /\ r.at = page[p].at  BY <1>3 DEF PageRec, PageSteps
<1>5. page' = [page EXCEPT ![p] = r]  BY <1>1, <1>2 DEF ChatTypes
<1> HIDE DEF r
<1> DEFINE at == page[p].at
           most == Max({session.unread, page[p].count})
           newer == session.lastAt <= at
           empty == IF newer THEN NoText(p) ELSE session.blank
<1>6. at \in Nat /\ session.lastAt \in Nat /\ session.unread \in Nat /\ page[p].count \in Nat /\ session.blank \in BOOLEAN
  BY <1>1, <1>3 DEF ChatTypes, PageRec
<1>7. most \in Nat  BY <1>6, EitherIs
<1>8. empty \in BOOLEAN  BY <1>6 DEF NoText
<1>9. session' = [there |-> TRUE, lastAt |-> IF newer THEN at ELSE session.lastAt, unread |-> most, blank |-> empty]
  BY DEF UpsertSession
<1> HIDE DEF at, most, empty
<1>10. session' \in [there : BOOLEAN, lastAt : Nat, unread : Nat, blank : BOOLEAN]  BY <1>6, <1>7, <1>8, <1>9
<1>11. session'.lastAt >= session.lastAt
  <2>1. session'.lastAt = IF newer THEN at ELSE session.lastAt  BY <1>9
  <2>2. QED  BY <1>6, <2>1
<1>12. QED  BY <1>2, <1>4, <1>5, <1>10, <1>11, PageGoesOn

LEMMA SyncKeeps == ASSUME ChatInv, NEW p \in Pages, SyncSessionSummary(p) PROVE ChatInv'
<1>1. ChatTypes  BY DEF ChatInv
<1>2. PageOnly /\ acts' = acts /\ page' = [page EXCEPT ![p] = NoPage]
  BY DEF SyncSessionSummary, PageOnly, platform, engine
<1>3. page[p] \in PageRec /\ page[p].at \in Nat /\ page[p].count \in Nat /\ session.lastAt \in Nat
      /\ session \in [there : BOOLEAN, lastAt : Nat, unread : Nat, blank : BOOLEAN] /\ NoText(p) \in BOOLEAN
  BY <1>1 DEF ChatTypes, PageRec, PageSteps, NoText
<1>4. /\ session' \in [there : BOOLEAN, lastAt : Nat, unread : Nat, blank : BOOLEAN]
      /\ session'.lastAt >= session.lastAt
  <2>1. CASE session' = session  BY <1>3, <2>1
  <2>2. CASE /\ session' = [session EXCEPT !.lastAt = page[p].at, !.unread = page[p].count, !.blank = NoText(p)]
             /\ session.lastAt <= page[p].at
    <3>1. session' \in [there : BOOLEAN, lastAt : Nat, unread : Nat, blank : BOOLEAN]  BY <1>3, <2>2
    <3>2. session'.lastAt = page[p].at  BY <1>3, <2>2
    <3>3. QED  BY <1>3, <2>2, <3>1, <3>2
  <2>3. QED  BY <2>1, <2>2 DEF SyncSessionSummary
<1>5. NoPage \in PageRec /\ NoPage.step = "idle"  BY NoSessionIs
<1>6. QED  BY <1>2, <1>4, <1>5, PageGoesOn

LEMMA FetchHistoryKeeps == ASSUME ChatInv, FetchHistory PROVE ChatInv'
<1>1. /\ UNCHANGED <<time, wrote, arrived, saving, waiting, incoming, inRow, ownRow, session, page, send, told>>
      /\ UNCHANGED rows /\ acts' = acts + 1
      /\ history' = {Push("message", m) : m \in {n \in Msgs : wrote[n] > 0}}
                      \cup {Push("own", s) : s \in {r \in Sends : arrived[r] > 0}}
  BY DEF FetchHistory, platform, engine, rows, Act
<1>2. ChatTypes /\ Told /\ FromBuyer /\ FromSeller  BY DEF ChatInv
<1>3. ChatTypes'  BY <1>1, <1>2, SameTables, TypesStay DEF ChatTypes
<1>4. \A x \in history' : \/ x.kind = "message" /\ x.of \in Msgs /\ wrote[x.of] > 0
                          \/ x.kind = "own" /\ x.of \in Sends /\ arrived[x.of] > 0
  BY <1>1, PushIs
<1>5. FromBuyer'  BY <1>1, <1>2, <1>4 DEF FromBuyer
<1>6. FromSeller'  BY <1>1, <1>2, <1>4 DEF FromSeller, SentArrived
<1>7. ToldStays /\ NewerStays  BY <1>1, <1>2 DEF ToldStays, NewerStays, ChatTypes
<1>8. QED  BY <1>2, <1>3, <1>5, <1>6, <1>7, ToldKeeps, NewerKeeps DEF ChatInv, OnePage

LEMMA MarkKeeps == ASSUME ChatInv, ListIds \/ MarkRows \/ MarkSession \/ ReportRead PROVE ChatInv'
<1>1. /\ UNCHANGED <<time, wrote, arrived, saving, waiting, incoming, history, ownRow, page, send, told>>
      /\ acts' \in {acts, acts + 1}
  BY DEF ListIds, MarkRows, MarkSession, ReportRead, platform, engine, rows, Act
<1>2. ChatTypes  BY DEF ChatInv
<1>3. inRow' = inRow \/ inRow' = [m \in Msgs |-> IF inRow[m] = "unread" THEN "read" ELSE inRow[m]]
  BY DEF ListIds, MarkRows, MarkSession, ReportRead, rows
<1>4. session' = session \/ session' = [session EXCEPT !.unread = 0]
  BY DEF ListIds, MarkRows, MarkSession, ReportRead, rows
<1>5. inRow' \in [Msgs -> {"absent", "unread", "read"}]  BY <1>2, <1>3 DEF ChatTypes
<1>6. \A m \in Msgs : inRow'[m] = inRow[m] \/ (inRow[m] = "unread" /\ inRow'[m] = "read")  BY <1>2, <1>3 DEF ChatTypes
<1>7. /\ session' \in [there : BOOLEAN, lastAt : Nat, unread : Nat, blank : BOOLEAN]
      /\ session'.lastAt = session.lastAt /\ session.lastAt \in Nat
  BY <1>2, <1>4 DEF ChatTypes
<1>8. Stores  BY <1>1, <1>2, <1>5, <1>7 DEF Stores, ChatTypes
<1>9. ChatTypes'  BY <1>1, <1>2, <1>8, TypesStay DEF ChatTypes
<1>10. ToldStays /\ BuyerStays /\ SellerStays  BY <1>1, <1>6 DEF ToldStays, BuyerStays, SellerStays
<1>11. NewerStays  BY <1>1, <1>6, <1>8 DEF NewerStays, Stores
<1>12. QED  BY <1>9, <1>10, <1>11, Settled

LEMMA RestartKeeps == ASSUME ChatInv, Restart PROVE ChatInv'
<1>1. /\ UNCHANGED <<time, wrote, arrived, inRow, ownRow, session, told>> /\ UNCHANGED rows
      /\ acts' = acts + 1 /\ incoming' = {} /\ waiting' = None /\ saving' = {} /\ history' = {}
      /\ page' = [p \in Pages |-> NoPage]
      /\ send' = [s \in Sends |-> IF send[s] \in {"idle", "ended"} THEN send[s] ELSE "cut"]
  BY DEF Restart, platform, rows, Act
<1>2. ChatTypes  BY DEF ChatInv
<1>3. page' \in [Pages -> PageRec]  BY <1>1, NoSessionIs
<1>4. /\ send' \in [Sends -> {"idle", "calling", "sent", "failed", "ended", "cut"}]
      /\ \A s \in Sends : send'[s] # "sent"
  BY <1>1, <1>2 DEF ChatTypes
<1>5. ChatTypes'  BY <1>1, <1>2, <1>3, <1>4, SameTables, TypesStay DEF ChatTypes, PageRec, PageSteps
<1>6. ToldStays /\ BuyerStays /\ SellerStays  BY <1>1, <1>4 DEF ToldStays, BuyerStays, SellerStays
<1>7. NewerStays  BY <1>1, <1>2, NoSessionIs DEF NewerStays, ChatTypes
<1>8. QED  BY <1>5, <1>6, <1>7, Settled

LEMMA ChatStart == ASSUME ChatInit PROVE ChatInv
<1>1. NoSession \in [there : BOOLEAN, lastAt : Nat, unread : Nat, blank : BOOLEAN] /\ NoPage \in PageRec
      /\ NoPage.step = "idle" /\ NoRow \in [status : {"absent"}, at : Nat, read : BOOLEAN]
  BY NoSessionIs DEF NoRow
<1>2. ChatTypes  BY <1>1 DEF ChatInit, ChatTypes, PageRec, PageSteps
<1>3. Told /\ FromBuyer  BY DEF ChatInit, Told, FromBuyer
<1>4. FromSeller  BY <1>1, KeyIs DEF ChatInit, FromSeller, SentArrived
<1>5. Newer  BY <1>1 DEF ChatInit, Newer
<1>6. QED  BY <1>2, <1>3, <1>4, <1>5 DEF ChatInv

LEMMA ChatStep == ASSUME ChatInv, [ChatNext]_chatVars PROVE ChatInv'
<1>1. CASE Platform  BY <1>1, PlatformKeeps, BuyerWritesKeeps DEF Platform
<1>2. CASE Handlers
  BY <1>2, DebounceKeeps, DispatchMessageKeeps, RecordIncomingKeeps, OwnEchoKeeps, MessageReadKeeps DEF Handlers
<1>3. CASE Reading \/ Restart  BY <1>3, FetchHistoryKeeps, StoreEntryKeeps, MarkKeeps, RestartKeeps DEF Reading
<1>4. CASE \E p \in Pages : Refresh(p)
  BY <1>4, FetchPageKeeps, DropHiddenKeeps, CountUnreadKeeps, UpsertKeeps, SyncKeeps DEF Refresh
<1>5. CASE \E s \in Sends : Start(s) \/ Sending(s)  BY <1>5, SendingKeeps, DeliverKeeps DEF Sending
<1>6. CASE UNCHANGED chatVars
  <2>1. UNCHANGED <<time, wrote, arrived, saving, waiting, incoming, history, inRow, ownRow, session, page, send, told, acts>>
    BY <1>6 DEF chatVars, platform, engine, rows, asked
  <2>2. QED  BY <2>1 DEF ChatInv, ChatTypes, Told, FromBuyer, FromSeller, SentArrived, Newer, OnePage
<1>7. QED  BY <1>1, <1>2, <1>3, <1>4, <1>5, <1>6 DEF ChatNext

\* With one page at a time, what is stored unread after the page was read is still counted when the page was applied.
LEMMA SyncStep ==
    ASSUME ChatInv, OnePage, [ChatNext]_chatVars, NEW p \in Pages, NEW m \in Msgs,
           page[p].step = "sync", page'[p].step = "idle", inRow[m] = "unread", wrote[m] > page[p].at, acts' = acts
    PROVE  session'.unread >= session.unread
<1>1. ChatTypes /\ Newer  BY DEF ChatInv
<1>2. acts \in Nat /\ acts' # acts + 1  BY <1>1 DEF ChatTypes
<1>3. page' # page  OBVIOUS
<1>4. \E q \in Pages : DropHidden(q) \/ CountUnread(q) \/ UpsertSession(q) \/ SyncSessionSummary(q)
  BY <1>2, <1>3
  DEF ChatNext, Platform, Handlers, Reading, Refresh, Sending, chatVars, asked, BuyerOpens, ReadElsewhere, Disconnect,
      RepeatPush, BuyerWrites, DebounceEnds, DispatchMessage, RecordIncoming, OwnEcho, HandleMessageRead, FetchHistory,
      StoreEntry, ListIds, MarkRows, MarkSession, ReportRead, Restart, FetchPage, Start, Deliver, Return, SetStatus, Act
<1>5. SyncSessionSummary(p)
  BY <1>4 DEF OnePage, DropHidden, CountUnread, UpsertSession
<1>6. session.lastAt >= wrote[m] /\ session.lastAt \in Nat /\ wrote[m] \in Nat /\ page[p].at \in Nat /\ session.unread \in Nat
  BY <1>1 DEF Newer, ChatTypes
<1>7. ~(session.lastAt <= page[p].at)  BY <1>6
<1>8. session' = session  BY <1>5, <1>7 DEF SyncSessionSummary
<1>9. QED  BY <1>6, <1>8

-----------------------------------------------------------------------------
\* What is announced is stored, what is on its way was written, and what is shown as sent arrived
\* (Service.RecordIncoming, RecordOutgoingSent, SetOutgoingStatus).
THEOREM ChatHolds == ChatSpec => []ChatInv
<1>1. ChatInit => ChatInv  BY ChatStart
<1>2. ChatInv /\ [ChatNext]_chatVars => ChatInv'  BY ChatStep
<1>3. QED  BY <1>1, <1>2, PTL DEF ChatSpec

\* Repeated pushes, restarts and history pages never announce a message of the buyer twice
\* (Service.RecordIncoming next to Service.RecordHistoryPage).
THEOREM ToldOnceHolds == ChatSpec => []ToldOnce
<1>1. ChatInv => ToldOnce  BY DEF ChatInv, Told, ToldOnce
<1>2. QED  BY <1>1, ChatHolds, PTL

\* An own message that is shown as sent did arrive, whatever call failed and whatever row its echo,
\* the history or its status wrote (application/chat/send.go, chat/outgoing.go).
THEOREM SentArrivedHolds == ChatSpec => []SentArrived
<1>1. ChatInv => SentArrived  BY DEF ChatInv, FromSeller
<1>2. QED  BY <1>1, ChatHolds, PTL

\* With one page of the conversation list at a time, a page does not take away a message that was
\* stored after the page was read (ChatStore.SyncSessionSummary).
THEOREM SyncKeepsNewerHolds == ASSUME OnePage PROVE ChatSpec => SyncKeepsNewer
<1>1. ChatInv /\ [ChatNext]_chatVars
        => [\A p \in Pages : \A m \in Msgs :
              page[p].step = "sync" /\ page'[p].step = "idle" /\ inRow[m] = "unread" /\ wrote[m] > page[p].at
                 /\ acts' = acts
              => session'.unread >= session.unread]_chatVars
  BY SyncStep
<1>2. QED  BY <1>1, ChatHolds, PTL DEF ChatSpec, SyncKeepsNewer
=============================================================================
