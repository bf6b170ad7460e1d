-------------------------- MODULE DeliveryPromise ---------------------------
(***************************************************************************)
(* What an automation run promises to buyer, platform and seller, without  *)
(* leases, attempts, workers or checkpoints: the actions of the plan are   *)
(* performed in order, each at most once, and only a run that is through   *)
(* its plan ends in success.                                               *)
(*                                                                         *)
(* A step is passed in one of three ways: its result was recorded          *)
(* ("advanced"), an operator went past it knowing that it had not been     *)
(* performed ("skipped"), or without knowing ("unknown").  Only in the     *)
(* last case may it still be performed afterwards, by a call in flight.    *)
(***************************************************************************)
EXTENDS Naturals

CONSTANTS
    Size,       \* number of actions in the plan
    Forgetful,  \* steps whose executor may forget that it acted
    Closing     \* steps that must not be passed as "unknown": a later step relies on them

VARIABLES
    effects,    \* how often each step was performed
    passed,     \* how each step was passed, or "open"
    free,       \* steps on which an operator overruled the promise
    outcome     \* "open", "success" or "canceled"

pvars == <<effects, passed, free, outcome>>

PInit == /\ effects = [c \in 1 .. Size |-> 0]
         /\ passed = [c \in 1 .. Size |-> "open"]
         /\ free = {}
         /\ outcome = "open"

Bound(c)   == c \notin free \cup Forgetful
Reached(c) == \A d \in 1 .. c - 1 : passed[d] # "open"

Perform(c) ==
    /\ Reached(c)
    /\ Bound(c) => effects[c] = 0 /\ passed[c] \in {"open", "unknown"}
    /\ effects' = [effects EXCEPT ![c] = @ + 1]
    /\ UNCHANGED <<passed, free, outcome>>

Pass(c, how) ==
    /\ outcome = "open"
    /\ Reached(c) /\ passed[c] = "open"
    /\ how = "skipped" /\ Bound(c) => effects[c] = 0
    /\ how = "unknown" /\ c \in Closing => c \in free'
    /\ passed' = [passed EXCEPT ![c] = how]
    /\ free' \in {free, free \cup {c}}
    /\ UNCHANGED <<effects, outcome>>

\* An operator decides against what the rules of resolution allow.
Overrule(c) == /\ outcome = "open"
               /\ free' = free \cup {c}
               /\ UNCHANGED <<effects, passed, outcome>>

Conclude(result) ==
    /\ outcome = "open"
    /\ result = "success" => \A c \in 1 .. Size : passed[c] # "open"
    /\ outcome' = result
    /\ UNCHANGED <<effects, passed, free>>

PNext == \/ \E c \in 1 .. Size :
               \/ Perform(c) \/ Overrule(c)
               \/ \E how \in {"advanced", "skipped", "unknown"} : Pass(c, how)
         \/ \E result \in {"success", "canceled"} : Conclude(result)

Promise == PInit /\ [][PNext]_pvars
=============================================================================
