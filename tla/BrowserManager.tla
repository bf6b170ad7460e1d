---------------------------- MODULE BrowserManager ----------------------------
(***************************************************************************)
(* The browser manager while the server runs: its installation, the        *)
(* recoveries of accounts the platform asks to verify, and its end.        *)
(* Sources: internal/browser/lifecycle.go, lifecycle_pool.go,              *)
(* cookierenew.go, credential_cookies.go, token_captcha.go,                *)
(* token_captcha_fallback.go and adapter/adapter_events.go.                *)
(*                                                                         *)
(* What happens on a page is one step with any of its outcomes.  An        *)
(* account has at most one recovery at a time: the refresh of its token    *)
(* holds a gate.  A recovery uses the account's profile three times: the   *)
(* first engine, the fallback, and the reading of the cookies.             *)
(***************************************************************************)
EXTENDS Naturals, FiniteSets

CONSTANTS
    Accounts,       \* accounts, one recovery each
    Slots,          \* renewSlots (3 in the code)
    MaxRefetches,   \* fresh addresses asked for after an expired one (2 in the code)
    Fallback        \* drissionFallbackEnabled

ASSUME BrowserAssumption ==
    Slots \in Nat \ {0} /\ MaxRefetches \in Nat /\ Fallback \in BOOLEAN

VARIABLES
    installed,  \* Manager.installed, or "failed" for initErr
    driver,     \* the Playwright driver: "none", "running", "stopped"
    closing, closed,
    inFlight,   \* the registered operations, by who runs them
    renewLocks, \* accounts whose lock is held
    renewSlots, \* accounts that hold a slot
    recovery    \* each account's recovery: program point, engine, refetches, live context, browser process

browserVars == <<installed, driver, closing, closed, inFlight, renewLocks, renewSlots, recovery>>

NoRecovery == [pc |-> "idle", job |-> "", tries |-> 0, ctx |-> TRUE, browser |-> FALSE]

BrowserInit ==
    /\ installed = "no" /\ driver = "none"
    /\ closing = FALSE /\ closed = FALSE
    /\ inFlight = {} /\ renewLocks = {} /\ renewSlots = {}
    /\ recovery = [a \in Accounts |-> NoRecovery]

At(a, pc)    == recovery[a].pc = pc
Move(a, pc)  == recovery' = [recovery EXCEPT ![a].pc = pc]
Job(a, job)  == recovery' = [recovery EXCEPT ![a].job = job, ![a].pc = IF job = "fallback" THEN "slot" ELSE "begin"]
Over(a)      == recovery' = [recovery EXCEPT ![a].pc = "done"]
Registered(a) == recovery[a].job # "fallback"

-----------------------------------------------------------------------------
\* InitializeContext of the start: registered, then initContext; an error that is not the context's is kept.
InitializeContext(ctx) ==
    /\ IF ~ctx \/ closing \/ closed
       THEN UNCHANGED <<installed, driver>>
       ELSE \/ installed' = "yes" /\ driver' = "running"
            \/ installed' = "failed" /\ UNCHANGED driver
    /\ UNCHANGED <<closing, closed, inFlight, renewLocks, renewSlots, recovery>>

\* OnTokenCaptchaVerification: the first engine.
Recover(a) ==
    /\ At(a, "idle") /\ Job(a, "primary")
    /\ UNCHANGED <<installed, driver, closing, closed, inFlight, renewLocks, renewSlots>>

\* What a use of the profile that failed leads to.
AfterFailure(a) ==
    IF recovery[a].job = "primary" /\ Fallback
    THEN Move(a, "refetch")      \* the fallback, after asking for a fresh address
    ELSE Over(a)

BeginOperation(a) ==
    /\ At(a, "begin")
    /\ \/ /\ recovery[a].ctx /\ ~closing /\ ~closed
          /\ inFlight' = inFlight \cup {a} /\ Move(a, "lock")
       \/ /\ ~recovery[a].ctx \/ closing \/ closed
          /\ AfterFailure(a) /\ UNCHANGED inFlight
    /\ UNCHANGED <<installed, driver, closing, closed, renewLocks, renewSlots>>

\* accountRenewLock: before the slot, or after it in the fallback; no context ends this wait.
LockAccount(a) ==
    /\ At(a, "lock") /\ a \notin renewLocks
    /\ renewLocks' = renewLocks \cup {a}
    /\ Move(a, IF Registered(a) THEN "slot" ELSE "init")
    /\ UNCHANGED <<installed, driver, closing, closed, inFlight, renewSlots>>

\* acquireRenewSlot: a slot, or the end of the context.
AcquireRenewSlot(a) ==
    /\ At(a, "slot")
    /\ \/ /\ Cardinality(renewSlots) < Slots
          /\ renewSlots' = renewSlots \cup {a}
          /\ Move(a, IF Registered(a) THEN "init" ELSE "lock")
          /\ UNCHANGED <<inFlight, renewLocks>>
       \/ /\ ~recovery[a].ctx
          /\ AfterFailure(a)
          /\ renewLocks' = renewLocks \ {a} /\ inFlight' = inFlight \ {a}
          /\ UNCHANGED renewSlots
    /\ UNCHANGED <<installed, driver, closing, closed>>

Release(a) ==
    /\ renewSlots' = renewSlots \ {a} /\ renewLocks' = renewLocks \ {a}
    /\ inFlight' = inFlight \ {a}

\* init once more, and the browser: a persistent context, or a process of its own that Playwright connects to.
Launch(a) ==
    /\ At(a, "init")
    /\ \/ /\ installed = "yes" /\ driver = "running"
          /\ recovery' = [recovery EXCEPT ![a].pc = "browse", ![a].browser = TRUE]
          /\ UNCHANGED <<inFlight, renewLocks, renewSlots>>
       \/ AfterFailure(a) /\ Release(a)
    /\ UNCHANGED <<installed, driver, closing, closed>>

\* After the first engine: success, an expired address, or another failure; after the fallback: success or not.
Outcome(a) ==
    \/ /\ recovery[a].job \in {"primary", "fallback"}          \* cookies: the profile is read once more
       /\ recovery' = [recovery EXCEPT ![a].pc = "begin", ![a].job = "snapshot", ![a].browser = FALSE]
    \/ /\ recovery[a].job = "primary" /\ recovery[a].tries < MaxRefetches
       /\ \/ recovery' = [recovery EXCEPT ![a].pc = "begin", ![a].tries = @ + 1, ![a].browser = FALSE]
          \/ recovery' = [recovery EXCEPT ![a].pc = "done", ![a].browser = FALSE]  \* no fresh address, or the token is granted
    \/ /\ recovery[a].job = "primary" /\ Fallback
       /\ recovery' = [recovery EXCEPT ![a].pc = "refetch", ![a].browser = FALSE]
    \/ recovery' = [recovery EXCEPT ![a].pc = "done", ![a].browser = FALSE]

\* The page is done with: the browser is closed or killed, and what it held is given back.
Browse(a) ==
    /\ At(a, "browse")
    /\ Outcome(a) /\ Release(a)
    /\ UNCHANGED <<installed, driver, closing, closed>>

\* The provider is asked again before the fallback; the token may be granted without it.
Refetch(a) ==
    /\ At(a, "refetch")
    /\ Job(a, "fallback") \/ Over(a)
    /\ UNCHANGED <<installed, driver, closing, closed, inFlight, renewLocks, renewSlots>>

CancelRecovery(a) ==
    /\ recovery[a].pc \notin {"idle", "done"} /\ recovery[a].ctx
    /\ recovery' = [recovery EXCEPT ![a].ctx = FALSE]
    /\ UNCHANGED <<installed, driver, closing, closed, inFlight, renewLocks, renewSlots>>

-----------------------------------------------------------------------------
\* CloseContext: no new operation from here on.
RefuseOperations ==
    /\ closing' = TRUE
    /\ UNCHANGED <<installed, driver, closed, inFlight, renewLocks, renewSlots, recovery>>

\* The registered operations have ended: the driver stops.
StopDriver ==
    /\ inFlight = {}
    /\ driver' = (IF driver = "running" THEN "stopped" ELSE driver) /\ closed' = TRUE
    /\ UNCHANGED <<installed, closing, inFlight, renewLocks, renewSlots, recovery>>

BrowserStep(a) ==
    \/ BeginOperation(a) \/ LockAccount(a) \/ AcquireRenewSlot(a) \/ Launch(a)
    \/ Browse(a) \/ Refetch(a)

=============================================================================
