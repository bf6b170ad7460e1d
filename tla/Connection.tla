----------------------------- MODULE Connection -----------------------------
(***************************************************************************)
(* The message connection of one account: the socket with its read pump,   *)
(* the receive loop that acknowledges and hands over what was pushed, the  *)
(* heartbeat and the timer that renews the token, and the slots in which   *)
(* messages are worked on.  Sources: internal/xianyu/ws/client.go and      *)
(* sync.go, engine/connection_session.go, connection_coordinator.go,       *)
(* message_dispatcher.go and account_lifecycle.go.                         *)
(*                                                                         *)
(* Dialling, the token and the registration are one step (AccountRuntime   *)
(* has them in detail).  What a handler does with a system event is left   *)
(* to EventIntake; a chat message, a read receipt or an echo only holds    *)
(* its slot here (Chat has the rest).                                      *)
(***************************************************************************)
EXTENDS Naturals, Sequences, FiniteSets

CONSTANTS
    Events,     \* system events the platform has for the account
    Chats,      \* chat messages, receipts and echoes it has
    Controls,   \* control frames it may push: a subset of {"kickout", "remove"}
    Buffer,     \* capacity of Conn.pushes, 128 in the code
    Slots,      \* MessageSemaphoreSize, 100 in the code
    MaxFaults   \* bound: broken lines, control frames, renewals, stops, crashes, errors

Items  == Events \cup Chats
Nobody == "nothing"

ASSUME ConnectionAssumption ==
    /\ Buffer \in Nat \ {0} /\ Slots \in Nat \ {0} /\ MaxFaults \in Nat
    /\ Controls \subseteq {"kickout", "remove"}
    /\ Events \cap Chats = {} /\ Items \cap Controls = {} /\ Nobody \notin Items

VARIABLES
    loop,      \* connectionCoordinator.run: "dial", "session", "ended"
    accepting, \* accountLifecycle: not stopped, and the context of run lives
    socket,    \* "up", "mute" (dead without a sign), "gone" (closed by the platform), "closed" (on this side)
    pump,      \* readPump: "reads", "full" with a frame in hand, "done" (readDone)
    held,      \* the frame the full pump holds
    pushes,    \* Conn.pushes
    pushed,    \* what was pushed over this connection
    acked,     \* what the platform has seen acknowledged
    recv,      \* ReceiveLoop: "select", "dispatch" with a frame, "ended", and how it ended
    beat,      \* the heartbeat: "runs", "ended"
    rotation,  \* the token's timer: "armed", "fired", "ended"
    slots,     \* the messages under work, by slot
    excused,   \* history: events in hand when a stop, a crash or an error took them
    faults

connVars == <<loop, accepting, socket, pump, held, pushes, pushed, acked, recv, beat, rotation, slots, excused, faults>>

NoFrame  == [pc |-> "ended", frame |-> Nobody, by |-> "none"]
Waiting  == [pc |-> "select", frame |-> Nobody, by |-> "none"]
Fault    == faults < MaxFaults /\ faults' = faults + 1
Free     == {i \in 1 .. Slots : slots[i] = Nobody}
Busy     == {i \in 1 .. Slots : slots[i] # Nobody}

Offline ==
    /\ socket = "closed" /\ pump = "done" /\ held = Nobody /\ pushes = <<>> /\ pushed = {}
    /\ recv = NoFrame /\ beat = "ended" /\ rotation = "ended"

ConnInit ==
    /\ loop = "dial" /\ accepting = TRUE /\ Offline
    /\ acked = {} /\ slots = [i \in 1 .. Slots |-> Nobody]
    /\ excused = {} /\ faults = 0

-----------------------------------------------------------------------------
\* The handshake, the token and /reg succeed; a failed attempt is repeated.
Connect ==
    /\ loop = "dial" /\ accepting
    /\ loop' = "session" /\ socket' = "up" /\ pump' = "reads" /\ held' = Nobody /\ pushes' = <<>> /\ pushed' = {}
    /\ recv' = Waiting /\ beat' = "runs" /\ rotation' = "armed"
    /\ UNCHANGED <<accepting, acked, slots, excused, faults>>

\* readPump reads a push and queues it; where the queue is full it stands, and reads nothing else.
Read(f) ==
    /\ socket = "up" /\ pump = "reads" /\ f \notin pushed
    /\ f \in (Items \ acked) \cup Controls
    /\ IF f \in Controls THEN Fault ELSE UNCHANGED faults
    /\ pushed' = pushed \cup {f}
    /\ IF Len(pushes) < Buffer
       THEN pushes' = Append(pushes, f) /\ UNCHANGED <<pump, held>>
       ELSE pump' = "full" /\ held' = f /\ UNCHANGED pushes
    /\ UNCHANGED <<loop, accepting, socket, acked, recv, beat, rotation, slots, excused>>

\* There is room again, or the connection was closed on this side and the frame is dropped.
Unblock ==
    /\ pump = "full"
    /\ \/ Len(pushes) < Buffer /\ pushes' = Append(pushes, held) /\ pump' = "reads"
       \/ socket = "closed" /\ pump' = "done" /\ UNCHANGED pushes
    /\ held' = Nobody
    /\ UNCHANGED <<loop, accepting, socket, pushed, acked, recv, beat, rotation, slots, excused, faults>>

PumpEnds ==
    /\ pump = "reads" /\ socket \in {"gone", "closed"} /\ pump' = "done"
    /\ UNCHANGED <<loop, accepting, socket, held, pushes, pushed, acked, recv, beat, rotation, slots, excused, faults>>

\* The platform closes the connection, or the line goes dead without a sign.
LineBreaks ==
    /\ socket = "up" /\ Fault /\ socket' \in {"mute", "gone"}
    /\ UNCHANGED <<loop, accepting, pump, held, pushes, pushed, acked, recv, beat, rotation, slots, excused>>

-----------------------------------------------------------------------------
\* ReceiveLoop takes the next frame; frames queued before the connection ended come first.  A push is acknowledged
\* before it is handed over; the acknowledgement may get lost with the line.
Receive ==
    /\ recv.pc = "select" /\ pushes # <<>>
    /\ LET f == Head(pushes) IN
       /\ pushes' = Tail(pushes)
       /\ IF f \in Controls
          THEN /\ recv' = [pc |-> "ended", frame |-> Nobody, by |-> f]
               /\ socket' = "closed" /\ UNCHANGED acked
          ELSE /\ recv' = [Waiting EXCEPT !.pc = "dispatch", !.frame = f]
               /\ acked' = IF socket = "up" THEN acked \cup {f} ELSE acked
               /\ UNCHANGED socket
    /\ UNCHANGED <<loop, accepting, pump, held, pushed, beat, rotation, slots, excused, faults>>

ReceiveEnds ==
    /\ recv.pc = "select"
    /\ \/ ~accepting
       \/ pump = "done" /\ pushes = <<>>
    /\ recv' = NoFrame
    /\ UNCHANGED <<loop, accepting, socket, pump, held, pushes, pushed, acked, beat, rotation, slots, excused, faults>>

\* Wrong: a system event is dropped like a chat message where all slots are taken.
TakesOrDrops(f) == TRUE

\* A chat message is dropped where all slots are taken, a system event waits.
Drops(f) == f \in Chats

\* messageDispatcher.dispatch: no task begins once the account is stopped.
Dispatch ==
    /\ recv.pc = "dispatch"
    /\ LET f == recv.frame IN
       \/ /\ accepting /\ Free # {}
          /\ slots' = [slots EXCEPT ![CHOOSE i \in Free : TRUE] = f]
          /\ UNCHANGED excused
       \/ /\ accepting /\ Free = {} /\ Drops(f)
          /\ UNCHANGED <<slots, excused>>
       \/ /\ ~accepting
          /\ excused' = excused \cup ({f} \cap Events) /\ UNCHANGED slots
    /\ recv' = Waiting
    /\ UNCHANGED <<loop, accepting, socket, pump, held, pushes, pushed, acked, beat, rotation, faults>>

-----------------------------------------------------------------------------
\* The deferred calls of the heartbeat's end close the connection and stop the timer.
EndBeat ==
    /\ beat' = "ended" /\ socket' = "closed"
    /\ rotation' = IF rotation = "armed" THEN "ended" ELSE rotation

\* Wrong: an answer is not missed, only a failing write is noticed.
FailsToWrite ==
    /\ beat = "runs" /\ (socket = "gone" \/ pump = "full")
    /\ EndBeat
    /\ UNCHANGED <<loop, accepting, pump, held, pushes, pushed, acked, recv, slots, excused, faults>>

\* HeartbeatLoop has always a request out or about to be: one cannot be written, or has no response within thirty
\* seconds because the line is dead or the pump stands, and the connection is closed.
BeatFails ==
    /\ beat = "runs" /\ (socket \in {"mute", "gone"} \/ pump = "full")
    /\ EndBeat
    /\ UNCHANGED <<loop, accepting, pump, held, pushes, pushed, acked, recv, slots, excused, faults>>

\* readDone, the account's stop, or the end of the receive loop; the connection is closed.
BeatEnds ==
    /\ beat # "ended" /\ (pump = "done" \/ ~accepting \/ recv.pc = "ended")
    /\ EndBeat
    /\ UNCHANGED <<loop, accepting, pump, held, pushes, pushed, acked, recv, slots, excused, faults>>

\* The token is about to expire: the connection is closed.  Bound: counted as a fault.
Rotate ==
    /\ rotation = "armed" /\ beat # "ended" /\ accepting /\ Fault
    /\ rotation' = "fired" /\ socket' = "closed"
    /\ UNCHANGED <<loop, accepting, pump, held, pushes, pushed, acked, recv, beat, slots, excused>>

\* runConnectionSession returns after its goroutines; the loop dials again unless the account is stopped or the
\* platform removed the session.
SessionEnds ==
    /\ loop = "session" /\ recv.pc = "ended" /\ rotation # "armed" /\ beat = "ended"
    /\ loop' = IF ~accepting \/ (recv.by = "remove" /\ rotation # "fired") THEN "ended" ELSE "dial"
    /\ accepting' = (loop' = "dial")
    /\ socket' = "closed" /\ pump' = "done" /\ held' = Nobody /\ pushes' = <<>> /\ pushed' = {}
    /\ recv' = NoFrame /\ beat' = "ended" /\ rotation' = "ended"
    /\ UNCHANGED <<acked, slots, excused, faults>>

DialEnds ==
    /\ loop = "dial" /\ ~accepting /\ loop' = "ended"
    /\ UNCHANGED <<accepting, socket, pump, held, pushes, pushed, acked, recv, beat, rotation, slots, excused, faults>>

-----------------------------------------------------------------------------
\* The account is stopped: no new tasks, and the context of the running ones ends.  It also ends with the loop.
StopAccount ==
    /\ accepting /\ Fault /\ accepting' = FALSE
    /\ UNCHANGED <<loop, socket, pump, held, pushes, pushed, acked, recv, beat, rotation, slots, excused>>

\* A new instance after the old one is gone.
StartAccount ==
    /\ loop = "ended" /\ Busy = {}
    /\ loop' = "dial" /\ accepting' = TRUE
    /\ UNCHANGED <<socket, pump, held, pushes, pushed, acked, recv, beat, rotation, slots, excused, faults>>

\* The process dies and comes back.
InHand == Events \cap ({slots[i] : i \in Busy} \cup {recv.frame})
ProcessDies ==
    /\ Fault
    /\ loop' = "dial" /\ accepting' = TRUE
    /\ socket' = "closed" /\ pump' = "done" /\ held' = Nobody /\ pushes' = <<>> /\ pushed' = {}
    /\ recv' = NoFrame /\ beat' = "ended" /\ rotation' = "ended"
    /\ slots' = [i \in 1 .. Slots |-> Nobody] /\ excused' = excused \cup InHand
    /\ UNCHANGED acked

\* A chat message was stored, scheduled or failed.
ChatEnds(i) ==
    /\ slots[i] \in Chats /\ slots' = [slots EXCEPT ![i] = Nobody]
    /\ UNCHANGED <<loop, accepting, socket, pump, held, pushes, pushed, acked, recv, beat, rotation, excused, faults>>

Pump == (\E f \in Items \cup Controls : Read(f)) \/ Unblock \/ PumpEnds
=============================================================================
