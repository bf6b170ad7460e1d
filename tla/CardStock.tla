----------------------------- MODULE CardStock ------------------------------
(***************************************************************************)
(* The stock of one card group of type data: column cards.data_content,    *)
(* one line per card.  Sellers (sendDataCardWithProof, the batch variables *)
(* of sendTemplate) take the first line, send it, and put it back when it  *)
(* was definitely not sent.  Requests of the card pages append lines, or   *)
(* save the whole form (Cards.Update).  Consume, restore and append read   *)
(* the column and write it back if it still holds what was read; sellers   *)
(* of one process also hold the group's lock during both.                  *)
(***************************************************************************)
EXTENDS Naturals, Sequences

CONSTANTS
    Initial,    \* stock at the start, a sequence of different lines
    Fresh,      \* stock the operator uploads: one request appends one of these sequences
    Sellers,    \* goroutines delivering orders, all in one process
    Appenders,  \* upload requests
    Editors,    \* requests that save the card form with the content it was loaded with
    MaxTries,   \* 20 in the code: attempts of a conditional write
    MaxOrders,  \* bound: deliveries started
    MaxCrashes  \* bound: crashes of the process

Elements(s) == {s[i] : i \in 1 .. Len(s)}
Distinct(s) == \A i, j \in 1 .. Len(s) : s[i] = s[j] => i = j

Uploads == Elements(Fresh)
Lines   == Elements(Initial) \cup UNION {Elements(u) : u \in Uploads}

NoLine == "none"

ASSUME LinesAssumption == /\ Initial \in Seq(Elements(Initial)) /\ Fresh \in Seq(Uploads)
                          /\ \A u \in Uploads : u \in Seq(Elements(u))
                          /\ NoLine \notin Lines
ASSUME StockAssumption == /\ Distinct(Initial) /\ Distinct(Fresh)
                          /\ \A u \in Uploads : Distinct(u) /\ Elements(u) \cap Elements(Initial) = {}
                          /\ \A u, v \in Uploads : u # v => Elements(u) \cap Elements(v) = {}
ASSUME TriesAssumption == MaxTries \in Nat \ {0} /\ MaxOrders \in Nat /\ MaxCrashes \in Nat

VARIABLES
    stock,      \* data_content
    lock,       \* holder of the group's entry in cardLocks, or "free"
    seller,     \* each seller: program point, snapshot read, line it took, attempts
    request,    \* each upload or form request: program point, snapshot, upload, attempts
    uploads,    \* uploads not yet requested
    handed,     \* history: how often a line was, or may have been, given to a buyer
    reverted,   \* history: lines a saved form put back into the stock or dropped from it
    parked,     \* history: lines lost from the stock by a failed restore or a crash; their runs need review
    orders, crashes

vars == <<stock, lock, seller, request, uploads, handed, reverted, parked, orders, crashes>>

Requests == Appenders \cup Editors

IdleSeller  == [pc |-> "idle", snap |-> <<>>, line |-> NoLine, tries |-> 0]
IdleRequest == [pc |-> "idle", snap |-> <<>>, upload |-> <<>>, tries |-> 0]

Init == /\ stock = Initial
        /\ lock = "free"
        /\ seller = [s \in Sellers |-> IdleSeller]
        /\ request = [r \in Requests |-> IdleRequest]
        /\ uploads = Fresh
        /\ handed = [l \in Lines |-> 0]
        /\ parked = {} /\ reverted = {}
        /\ orders = 0 /\ crashes = 0

Outside == <<request, uploads, reverted, orders, crashes>>

-----------------------------------------------------------------------------
\* ConsumeBatchData under lockCard.

StartOrder(s) ==
    /\ seller[s].pc = "idle" /\ lock = "free" /\ orders < MaxOrders
    /\ lock' = s
    /\ orders' = orders + 1
    /\ seller' = [seller EXCEPT ![s] = [IdleSeller EXCEPT !.pc = "take"]]
    /\ UNCHANGED <<stock, request, uploads, handed, reverted, parked, crashes>>

ReadToTake(s) ==
    /\ seller[s].pc = "take"
    /\ IF stock = <<>> \/ seller[s].tries = MaxTries
       THEN seller' = [seller EXCEPT ![s] = IdleSeller] /\ lock' = "free"
       ELSE seller' = [seller EXCEPT ![s].pc = "taking", ![s].snap = stock] /\ lock' = lock
    /\ UNCHANGED <<stock, handed, parked, Outside>>

Take(s) ==
    /\ seller[s].pc = "taking"
    /\ IF stock = seller[s].snap
       THEN /\ stock' = Tail(seller[s].snap)
            /\ seller' = [seller EXCEPT ![s] = [IdleSeller EXCEPT !.pc = "send", !.line = Head(seller[s].snap)]]
            /\ lock' = "free"
       ELSE /\ seller' = [seller EXCEPT ![s].pc = "take", ![s].tries = @ + 1]
            /\ UNCHANGED <<stock, lock>>
    /\ UNCHANGED <<handed, parked, Outside>>

-----------------------------------------------------------------------------
\* sendText: delivered or nobody knows (kept as consumed, run to review), or definitely not sent.

Send(s) ==
    /\ seller[s].pc = "send"
    /\ \/ /\ handed' = [handed EXCEPT ![seller[s].line] = @ + 1]
          /\ seller' = [seller EXCEPT ![s] = IdleSeller]
       \/ /\ handed' = handed
          /\ seller' = [seller EXCEPT ![s].pc = "unsent"]
    /\ UNCHANGED <<stock, lock, parked, Outside>>

\* RestoreBatchData under lockCard.
StartRestore(s) ==
    /\ seller[s].pc = "unsent" /\ lock = "free"
    /\ lock' = s
    /\ seller' = [seller EXCEPT ![s].pc = "restore"]
    /\ UNCHANGED <<stock, handed, parked, Outside>>

\* Wrong: the error path keeps the lock.
ReadToRestoreLocked(s) ==
    /\ seller[s].pc = "restore"
    /\ IF seller[s].tries = MaxTries
       THEN /\ seller' = [seller EXCEPT ![s] = IdleSeller]
            /\ parked' = parked \cup {seller[s].line}
       ELSE /\ seller' = [seller EXCEPT ![s].pc = "restoring", ![s].snap = stock]
            /\ parked' = parked
    /\ UNCHANGED <<stock, lock, handed, Outside>>

ReadToRestore(s) ==
    /\ seller[s].pc = "restore"
    /\ IF seller[s].tries = MaxTries
       THEN /\ seller' = [seller EXCEPT ![s] = IdleSeller]
            /\ parked' = parked \cup {seller[s].line}
            /\ lock' = "free"
       ELSE /\ seller' = [seller EXCEPT ![s].pc = "restoring", ![s].snap = stock]
            /\ UNCHANGED <<lock, parked>>
    /\ UNCHANGED <<stock, handed, Outside>>

\* Wrong: writes back without comparing.
RestoreBlindly(s) ==
    /\ seller[s].pc = "restoring"
    /\ stock' = <<seller[s].line>> \o seller[s].snap
    /\ seller' = [seller EXCEPT ![s] = IdleSeller]
    /\ lock' = "free"
    /\ UNCHANGED <<handed, parked, Outside>>

Restore(s) ==
    /\ seller[s].pc = "restoring"
    /\ IF stock = seller[s].snap
       THEN /\ stock' = <<seller[s].line>> \o seller[s].snap
            /\ seller' = [seller EXCEPT ![s] = IdleSeller]
            /\ lock' = "free"
       ELSE /\ seller' = [seller EXCEPT ![s].pc = "restore", ![s].tries = @ + 1]
            /\ UNCHANGED <<stock, lock>>
    /\ UNCHANGED <<handed, parked, Outside>>

-----------------------------------------------------------------------------
\* AppendBatchData: no lock, the same conditional write.

StartAppend(r) ==
    /\ request[r].pc = "idle" /\ uploads # <<>>
    /\ request' = [request EXCEPT ![r] = [IdleRequest EXCEPT !.pc = "append", !.upload = Head(uploads)]]
    /\ uploads' = Tail(uploads)
    /\ UNCHANGED <<stock, lock, seller, handed, reverted, parked, orders, crashes>>

ReadToAppend(r) ==
    /\ request[r].pc = "append"
    /\ request' = [request EXCEPT ![r] = IF @.tries = MaxTries THEN [@ EXCEPT !.pc = "refused"]
                                         ELSE [@ EXCEPT !.pc = "appending", !.snap = stock]]
    /\ UNCHANGED <<stock, lock, seller, uploads, handed, reverted, parked, orders, crashes>>

WriteAppended(r) ==
    /\ request[r].pc = "appending"
    /\ IF stock = request[r].snap
       THEN /\ stock' = request[r].snap \o request[r].upload
            /\ request' = [request EXCEPT ![r] = IdleRequest]
       ELSE /\ request' = [request EXCEPT ![r].pc = "append", ![r].tries = @ + 1]
            /\ stock' = stock
    /\ UNCHANGED <<lock, seller, uploads, handed, reverted, parked, orders, crashes>>

-----------------------------------------------------------------------------
\* The card form: loaded with all columns, saved with all columns and no condition.

OpenForm(r) ==
    /\ request[r].pc = "idle"
    /\ request' = [request EXCEPT ![r].pc = "form", ![r].snap = stock]
    /\ UNCHANGED <<stock, lock, seller, uploads, handed, reverted, parked, orders, crashes>>

SaveForm(r) ==
    /\ request[r].pc = "form"
    /\ stock' = request[r].snap
    /\ reverted' = reverted \cup {l \in Lines : (l \in Elements(stock)) # (l \in Elements(stock'))}
    /\ request' = [request EXCEPT ![r] = IdleRequest]
    /\ UNCHANGED <<lock, seller, uploads, handed, parked, orders, crashes>>

-----------------------------------------------------------------------------
\* The process dies: what sellers hold is gone from the stock, requests are cut off (an upload
\* that was not acknowledged is sent again by its operator).
Held == {seller[s].line : s \in {t \in Sellers : seller[t].line # NoLine}}

Crash ==
    /\ crashes < MaxCrashes
    /\ crashes' = crashes + 1
    /\ parked' = parked \cup Held
    /\ seller' = [s \in Sellers |-> IdleSeller]
    /\ lock' = "free"
    /\ request' = [r \in Requests |-> IF request[r].upload # <<>>
                                      THEN [request[r] EXCEPT !.pc = "refused"] ELSE IdleRequest]
    /\ UNCHANGED <<stock, uploads, handed, reverted, orders>>

Next == \/ \E s \in Sellers : \/ StartOrder(s) \/ ReadToTake(s) \/ Take(s) \/ Send(s)
                              \/ StartRestore(s) \/ ReadToRestore(s) \/ Restore(s)
        \/ \E r \in Appenders : StartAppend(r) \/ ReadToAppend(r) \/ WriteAppended(r)
        \/ \E r \in Editors : OpenForm(r) \/ SaveForm(r)
        \/ Crash

Spec == Init /\ [][Next]_vars

\* A seller ends its order; the mutex is fair, so a seller that waits for it is served.
Fairness == \A s \in Sellers : /\ WF_vars(ReadToTake(s) \/ Take(s) \/ Send(s) \/ ReadToRestore(s) \/ Restore(s))
                              /\ SF_vars(StartRestore(s))

FairSpec == Spec /\ Fairness
-----------------------------------------------------------------------------
(* Properties. *)

Seller  == [pc : {"idle", "take", "taking", "send", "unsent", "restore", "restoring"},
            snap : Seq(Lines), line : Lines \cup {NoLine}, tries : Nat]
Request == [pc : {"idle", "append", "appending", "refused", "form"},
            snap : Seq(Lines), upload : Uploads \cup {<<>>}, tries : Nat]

\* Every variable keeps the shape of its column or local.
TypeOK == /\ stock \in Seq(Lines)
          /\ lock \in Sellers \cup {"free"}
          /\ seller \in [Sellers -> Seller] /\ request \in [Requests -> Request]
          /\ uploads \in Seq(Uploads)
          /\ handed \in [Lines -> Nat] /\ parked \cup reverted \subseteq Lines
          /\ orders \in Nat /\ crashes \in Nat

\* Where a line is: every occurrence in the stock, in somebody's hands, with a buyer, or lost to review.
Places(l) ==
    [in : {"stock"}, at : {i \in 1 .. Len(stock) : stock[i] = l}]
    \cup [in : {"seller"}, at : {s \in Sellers : seller[s].line = l}]
    \cup [in : {"request"}, at : {r \in Requests : l \in Elements(request[r].upload)}]
    \cup [in : {"upload"}, at : {i \in 1 .. Len(uploads) : l \in Elements(uploads[i])}]
    \cup [in : {"buyer"}, at : 1 .. handed[l]]
    \cup [in : {"review"}, at : {l} \cap parked]

\* No line is duplicated or vanishes, however consuming, restoring, uploading and crashes
\* interleave: it is in the stock once, or in one seller's or request's hands, or with one buyer,
\* or its run needs review (ConsumeBatchData, RestoreBatchData, AppendBatchData).  Exempt are
\* lines that a saved card form reverted, see SoldOnce.
OnePlace == \A l \in Lines \ reverted : \E p \in Places(l) : Places(l) = {p}

\* One-time codes ("docs/wiki: one card per line, consumed by delivery") are given to one buyer.
\* Saving the card form breaks it: Cards.Update writes back the stock the form was loaded with,
\* so lines sold in between are for sale again.
SoldOnce == \A l \in Lines : handed[l] <= 1

\* Every order that takes a line comes to an end: no path leaves the group's lock held
\* (lockCard, unlock on the error paths of consume and restore).
OrdersEnd == \A s \in Sellers : seller[s].pc # "idle" ~> seller[s].pc = "idle"
=============================================================================
