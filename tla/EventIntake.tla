---------------------------- MODULE EventIntake -----------------------------
(***************************************************************************)
(* The way of a system event from the platform's push to its automation:   *)
(* Connection hands it to a slot, the automation center records it and     *)
(* starts a run, ignores it or defers it, and DeferredTasks has the row    *)
(* and the schedulers that replay it.  Sources: engine/                    *)
(* message_dispatcher.go, adapter/adapter_events.go, automation/center.go, *)
(* events.go, event_pipeline.go and scheduler.go.                          *)
(*                                                                         *)
(* A run that was started is settled here: AutomationRuns goes on with it. *)
(***************************************************************************)
EXTENDS Connection, DeferredTasks

CONSTANTS
    Keyed,  \* the event whose key the row of DeferredTasks has
    Own     \* the scheduler of the process that has the connection

ASSUME IntakeAssumption == Keyed \in Events /\ Own \in Schedulers

VARIABLE settled  \* history: events whose run was started, that no rule wants, or that an operator discarded

allVars == <<connVars, vars, settled>>

IntakeInit == ConnInit /\ Init /\ settled = {}

-----------------------------------------------------------------------------
\* handleTask of what a slot holds: facts recorded, the account neither paused nor disabled, and a run started;
\* or the account disabled, a price mode or no rule that wants the event.
Handled(i) ==
    /\ slots[i] \in Events
    /\ settled' = settled \cup {slots[i]} /\ slots' = [slots EXCEPT ![i] = Nobody]
    /\ UNCHANGED <<loop, accepting, socket, pump, held, pushes, pushed, acked, recv, beat, rotation, excused, faults, vars>>

\* The account is paused, the order cannot be prepared, or the first action is delayed.
HandlerDefers(i) ==
    /\ slots[i] = Keyed /\ accepting
    /\ Defer
    /\ slots' = [slots EXCEPT ![i] = Nobody]
    /\ UNCHANGED <<loop, accepting, socket, pump, held, pushes, pushed, acked, recv, beat, rotation, excused, faults, settled>>

\* A statement fails, by itself or because the account was stopped: the error is logged.
HandlerFails(i) ==
    /\ slots[i] \in Events
    /\ IF accepting THEN Fault ELSE UNCHANGED faults
    /\ excused' = excused \cup {slots[i]} /\ slots' = [slots EXCEPT ![i] = Nobody]
    /\ UNCHANGED <<loop, accepting, socket, pump, held, pushes, pushed, acked, recv, beat, rotation, settled, vars>>

\* A replay starts the run, or finds nothing to do.
Replayed(s) == FinishDone(s) /\ settled' = settled \cup {Keyed} /\ UNCHANGED connVars
Discarded   == Discard /\ settled' = settled \cup {Keyed} /\ UNCHANGED connVars

TaskStep(s) ==
    /\ Claim(s) \/ FinishFailed(s) \/ ReplayDefers(s)
    /\ UNCHANGED <<connVars, settled>>
Selects == (\E s \in Schedulers : Select(s)) /\ UNCHANGED <<connVars, settled>>

\* due_at passes, or the lease of a claim that nobody works on any more.
Clock ==
    /\ FallsDue \/ (LeaseExpires /\ \A s \in Schedulers : sched[s].pc # "replay")
    /\ UNCHANGED <<connVars, settled>>

\* A replay outlasts its lease, another process dies, an operator retries a dead letter.  Bound: each counts as a fault.
Others ==
    /\ LeaseExpires \/ Revive \/ \E s \in Schedulers \ {Own} : Crash(s)
    /\ Fault /\ settled' = settled
    /\ UNCHANGED <<loop, accepting, socket, pump, held, pushes, pushed, acked, recv, beat, rotation, slots, excused>>

\* The scheduler dies with its process.
Dies == ProcessDies /\ Leaves(Own) /\ UNCHANGED <<task, holder, defers, crashes, revivals, settled>>

ConnStep ==
    /\ \/ Connect \/ Pump \/ Receive \/ ReceiveEnds \/ Dispatch \/ BeatFails \/ BeatEnds
       \/ SessionEnds \/ DialEnds
    /\ UNCHANGED <<vars, settled>>
Disturbs == (LineBreaks \/ Rotate \/ StopAccount \/ StartAccount) /\ UNCHANGED <<vars, settled>>

Handle(i) ==
    \/ Handled(i) \/ HandlerDefers(i) \/ HandlerFails(i)
    \/ ChatEnds(i) /\ UNCHANGED <<vars, settled>>
Replay(s) == TaskStep(s) \/ Replayed(s)

IntakeNext ==
    \/ ConnStep \/ Disturbs \/ Dies \/ Selects \/ Clock \/ Others \/ Discarded
    \/ \E i \in 1 .. Slots : Handle(i)
    \/ \E s \in Schedulers : Replay(s)

IntakeSpec == IntakeInit /\ [][IntakeNext]_allVars

Alone(step) == step /\ UNCHANGED <<vars, settled>>

\* The goroutines of a session run, each select is served, responses and the platform's pushes that were sent come
\* in, a handler returns, clocks advance and the scheduler wakes up every second.  Nothing obliges the line to
\* break, the operator to act or a process to die.
FairIntake ==
    /\ IntakeSpec
    /\ WF_allVars(Alone(Connect)) /\ WF_allVars(Alone(Unblock)) /\ WF_allVars(Alone(PumpEnds))
    /\ WF_allVars(Alone(Receive \/ ReceiveEnds)) /\ WF_allVars(Alone(Dispatch))
    /\ WF_allVars(Alone(BeatFails)) /\ WF_allVars(Alone(BeatEnds))
    /\ WF_allVars(Alone(SessionEnds \/ DialEnds))
    /\ \A i \in 1 .. Slots : WF_allVars(Handle(i))
    /\ WF_allVars(Selects) /\ \A s \in Schedulers : WF_allVars(Replay(s))
    /\ WF_allVars(Clock)

-----------------------------------------------------------------------------
(* Properties. *)

\* Once a push is acknowledged the platform does not send it again, so from then on somebody has to have the event: a
\* message under work, a settled run or the deferred row ("system business events must not be dropped",
\* engine/message_dispatcher.go:116), however full the slots are and whatever the connection does meanwhile.  Exempt
\* is what a stop, a crash or a failed statement took out of the handler's hands: nothing keeps it then.
EventsAreKept ==
    \A f \in acked \cap Events :
        f \in InHand \cup settled \cup excused \/ (f = Keyed /\ task.status # "none")

\* What was acknowledged comes to its automation: over every deferral, reconnect and lost claim the event ends settled,
\* or is a dead letter the operator sees.  Exempt is what EventsAreKept exempts, and the row whose last claim was lost.
EventsSettle ==
    \A f \in Events : f \in acked ~> f \in settled \cup excused \/ task.status = "dead_letter" \/ Exhausted

\* A line that went dead without a sign is left: the heartbeat notices, whatever the receive loop is waiting for.
DeadLineIsLeft == socket = "mute" ~> socket # "mute"
=============================================================================
