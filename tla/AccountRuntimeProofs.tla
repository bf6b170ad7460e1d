------------------------- MODULE AccountRuntimeProofs -------------------------
(***************************************************************************)
(* One account, for any flows, instances, writes and disturbances: it has  *)
(* one live instance, no session outlives a disable or a delete, and what  *)
(* puts an older login back is a write without the credential lock.        *)
(*                                                                         *)
(* A live instance is the current one (OneLive).  Behind the fence no      *)
(* instance is started, so the one a disable or a delete waited for is the *)
(* last (Fenced), and what connects does so for an enabled account         *)
(* (Connected).                                                            *)
(***************************************************************************)
EXTENDS AccountRuntime, TLAPS

InstSteps == {"none", "made", "renew", "loop", "dialed", "token", "adopt", "solve", "expired",
              "rescue", "bind", "register", "registering", "online", "ending", "ended", "gone"}
FlowSteps == {"idle", "status", "turn", "enable", "fence", "stop", "wait", "stopped", "start",
              "unfence", "call", "rescue"}

Cred == [login : Nat, stamp : Nat]
Row  == [exists : BOOLEAN, enabled : BOOLEAN, cred : Cred]
Inst == [pc : InstSteps, cred : Cred, token : Cred, tries : Nat, late : BOOLEAN]
Flow == [pc : FlowSteps, cred : Cred, target : Insts \cup {None}]

\* The flows that take the fence, and the points of an instance on its way to a session.
Stoppers   == {"disable", "delete"}
Connecting == {"dialed", "token", "adopt", "solve", "bind", "register", "registering", "online"}

Types ==
    /\ row \in Row /\ inst \in [Insts -> Inst] /\ current \in Insts \cup {None}
    /\ rescue \in [busy : BOOLEAN, cred : Cred, by : Insts \cup {None}]
    /\ flow \in [Flows -> Flow] /\ newest \in Nat /\ dropped \in BOOLEAN

OneLive == \A i \in Insts : Live(i) => i = current

\* No credential is of a login nobody saved.
Logins == /\ row.cred.login <= newest /\ rescue.cred.login <= newest
          /\ \A i \in Insts : inst[i].cred.login <= newest

\* Where a flow may be; a stopper that has begun to stop holds the fence until it is done, and waits
\* for the instance that may still be the current one.
Stopping == {"stop", "wait", "stopped", "unfence"}
Place(f, r, whose, cur) ==
    /\ f \in Stoppers => r.pc \in {"idle", "turn", "fence"} \cup Stopping
    /\ r.pc = "turn" => f \in {"edit", "enable", "disable"}
    /\ r.pc = "unfence" => f \in Stoppers
    /\ f \in Stoppers /\ r.pc \in Stopping => whose = f
    /\ f \in Stoppers /\ r.pc = "wait" => cur \in {r.target, None}

Fenced ==
    \A f \in Flows : /\ Place(f, flow[f], fence, current)
                     /\ f \in Stoppers /\ flow[f].pc = "stopped" => \A i \in Insts : ~Live(i)

Connected == dropped \/ \A i \in Insts : inst[i].pc \in Connecting => row.exists /\ row.enabled

AccountInv == Types /\ OneLive /\ Logins /\ Fenced /\ Connected

-----------------------------------------------------------------------------
(* Records.                                                                *)

LEMMA NoneIs == \A i \in Insts : i # None
BY DEF Insts, None

LEMMA BlankIs == NoCred \in Cred /\ NoCred.login = 0 /\ Blank \in Inst /\ Blank.late = FALSE
                 /\ Idle \in Flow /\ Idle.pc = "idle" /\ Blank.cred = NoCred
BY DEF NoCred, Cred, Blank, Inst, InstSteps, Idle, Flow, FlowSteps, None

\* Where an instance goes between two connections.
LEMMA ToIs ==
    ASSUME AccountInv, NEW i \in Insts, NEW pc \in InstSteps
    PROVE  To(i, pc) \in Inst /\ To(i, pc).pc = pc /\ To(i, pc).cred.login = 0 /\ To(i, pc).late = inst[i].late
<1>1. inst[i].late \in BOOLEAN  BY DEF AccountInv, Types, Inst
<1>2. QED  BY <1>1, BlankIs DEF To, Inst

LEMMA MovedIs ==
    ASSUME NEW r \in Inst, NEW pc \in InstSteps
    PROVE  /\ [r EXCEPT !.pc = pc] \in Inst /\ [r EXCEPT !.pc = pc].pc = pc
           /\ [r EXCEPT !.pc = pc].cred = r.cred /\ [r EXCEPT !.pc = pc].late = r.late
BY DEF Inst

LEMMA AtIs ==
    ASSUME AccountInv, NEW i \in Insts
    PROVE  /\ inst[i] \in Inst /\ inst[i].cred \in Cred /\ inst[i].cred.login \in Nat /\ inst[i].cred.login <= newest
           /\ newest \in Nat /\ row \in Row /\ row.cred \in Cred /\ row.cred.login \in Nat /\ row.cred.login <= newest
BY DEF AccountInv, Types, Logins, Inst, Cred, Row

LEMMA RowIs ==
    ASSUME AccountInv
    PROVE  /\ newest \in Nat /\ row \in Row /\ row.cred \in Cred /\ row.cred.login \in Nat
           /\ row.cred.login <= newest /\ row.exists \in BOOLEAN /\ row.enabled \in BOOLEAN
BY DEF AccountInv, Types, Logins, Cred, Row

\* A write of a login that somebody saved.
LEMMA WriteIs ==
    ASSUME AccountInv, NEW login \in Nat, login <= newest, Write(login)
    PROVE  /\ row' \in Row /\ row'.exists = row.exists /\ row'.enabled = row.enabled /\ row'.cred \in Cred
           /\ row'.cred.login = login
<1> DEFINE c == [login |-> login, stamp |-> row.cred.stamp + 1]
<1>1. row \in Row /\ row.cred.stamp \in Nat  BY DEF AccountInv, Types, Row, Cred
<1>2. c \in Cred /\ c.login = login  BY <1>1 DEF Cred
<1>3. row' = [row EXCEPT !.cred = c]  BY DEF Write
<1> HIDE DEF c
<1>4. QED  BY <1>1, <1>2, <1>3 DEF Row

-----------------------------------------------------------------------------
(* The steps of the instance.                                              *)

\* The row keeps what it says of the account, and its login is one that was saved.
SameAccount == /\ row' \in Row /\ row'.exists = row.exists /\ row'.enabled = row.enabled
               /\ row'.cred.login <= newest

LEMMA SameRow == ASSUME AccountInv, UNCHANGED row PROVE SameAccount
BY DEF SameAccount, AccountInv, Types, Logins

LEMMA WrittenRow == ASSUME AccountInv, NEW login \in Nat, login <= newest, Write(login) PROVE SameAccount
BY WriteIs DEF SameAccount

\* A live instance moves on; nobody else does.
LEMMA InstMoves ==
    ASSUME AccountInv, NEW i \in Insts, Live(i), NEW r \in Inst, inst' = [inst EXCEPT ![i] = r],
           r.cred.login <= newest, r.pc \in Connecting => inst[i].pc \in Connecting \/ GetStatus,
           SameAccount, rescue' \in [busy : BOOLEAN, cred : Cred, by : Insts \cup {None}], rescue'.cred.login <= newest,
           UNCHANGED <<current, fence, flow, newest, dropped>>
    PROVE  AccountInv'
<1>1. Types /\ OneLive /\ Logins /\ Fenced /\ Connected  BY DEF AccountInv
<1>2. inst' \in [Insts -> Inst] /\ \A j \in Insts : inst'[j] = IF j = i THEN r ELSE inst[j]  BY <1>1 DEF Types
<1>3. Types'  BY <1>1, <1>2 DEF Types, SameAccount
<1>4. i = current /\ \A f \in Flows : f \in Stoppers => flow[f].pc # "stopped"  BY <1>1 DEF OneLive, Fenced
<1>5. OneLive'  BY <1>1, <1>2, <1>4 DEF OneLive, Live
<1>6. Logins'  BY <1>1, <1>2 DEF Logins, SameAccount
<1>7. Fenced'  BY <1>1, <1>4 DEF Fenced
<1>8. Connected'  BY <1>1, <1>2 DEF Connected, SameAccount, GetStatus
<1>9. QED  BY <1>3, <1>5, <1>6, <1>7, <1>8 DEF AccountInv

LEMMA GoKeeps ==
    ASSUME AccountInv, NEW i \in Insts, Live(i), NEW pc \in InstSteps, Go(i, pc),
           pc \in Connecting => inst[i].pc \in Connecting \/ GetStatus,
           SameAccount, rescue' \in [busy : BOOLEAN, cred : Cred, by : Insts \cup {None}], rescue'.cred.login <= newest,
           UNCHANGED <<current, fence, flow, newest, dropped>>
    PROVE  AccountInv'
<1>1. To(i, pc) \in Inst /\ To(i, pc).pc = pc /\ To(i, pc).cred.login = 0  BY ToIs
<1> DEFINE r == To(i, pc)
<1>2. 0 <= newest  BY DEF AccountInv, Types
<1>3. r \in Inst /\ r.pc = pc /\ r.cred.login <= newest  BY <1>1, <1>2
<1>4. inst' = [inst EXCEPT ![i] = r]  BY DEF Go
<1> HIDE DEF r
<1>5. QED  BY <1>3, <1>4, InstMoves

LEMMA RescueStays ==
    ASSUME AccountInv, UNCHANGED rescue
    PROVE  rescue' \in [busy : BOOLEAN, cred : Cred, by : Insts \cup {None}] /\ rescue'.cred.login <= newest
BY DEF AccountInv, Types, Logins

LEMMA AtLive == ASSUME NEW i \in Insts, inst[i].pc \notin {"none", "ended", "gone"} PROVE Live(i)
BY DEF Live

\* A step of the instance that only decides where it goes.
LEMMA GoesOn ==
    ASSUME AccountInv, NEW i \in Insts, Live(i), NEW pc \in InstSteps, Go(i, pc),
           pc \in Connecting => inst[i].pc \in Connecting \/ GetStatus, UNCHANGED Outside
    PROVE  AccountInv'
<1>1. UNCHANGED <<row, rescue, current, fence, flow, newest, dropped>>  BY DEF Outside, UserSide
<1>2. QED  BY <1>1, SameRow, RescueStays, GoKeeps

LEMMA PrepareKeeps == ASSUME AccountInv, NEW i \in Insts, Prepare(i) PROVE AccountInv'
<1> DEFINE r == [To(i, "renew") EXCEPT !.cred = row.cred]
<1>1. Live(i) /\ UNCHANGED <<row, rescue, current, fence, flow, newest, dropped>>
  BY AtLive DEF Prepare, At, Outside, UserSide
<1>2. CASE Go(i, "ended")  BY <1>1, <1>2, GoesOn DEF InstSteps, Connecting, Prepare
<1>3. CASE inst' = [inst EXCEPT ![i] = r]
  <2>1. To(i, "renew") \in Inst /\ To(i, "renew").pc = "renew"  BY ToIs DEF InstSteps
  <2>2. r \in Inst /\ r.pc = "renew" /\ r.cred = row.cred  BY <2>1, AtIs DEF Inst
  <2> HIDE DEF r
  <2>3. r.cred.login <= newest /\ r.pc \notin Connecting  BY <2>2, AtIs DEF Connecting
  <2>4. QED  BY <1>1, <1>3, <2>2, <2>3, SameRow, RescueStays, InstMoves
<1>4. QED  BY <1>2, <1>3 DEF Prepare, Go

LEMMA StartupRenewedKeeps == ASSUME AccountInv, NEW i \in Insts, StartupRenewed(i) PROVE AccountInv'
<1>1. Live(i) /\ UNCHANGED <<rescue, current, fence, flow, newest, dropped>>
  BY AtLive DEF StartupRenewed, At, UserSide
<1>2. SameAccount  BY AtIs, SameRow, WrittenRow DEF StartupRenewed, Rebased
<1>3. PICK late \in BOOLEAN : inst' = [inst EXCEPT ![i] = [To(i, "loop") EXCEPT !.late = late]]  BY DEF StartupRenewed
<1> DEFINE r == [To(i, "loop") EXCEPT !.late = late]
<1>4. To(i, "loop") \in Inst /\ To(i, "loop").pc = "loop" /\ To(i, "loop").cred.login = 0  BY ToIs DEF InstSteps
<1>5. r \in Inst /\ r.pc = "loop" /\ r.cred.login = 0  BY <1>4 DEF Inst
<1>6. inst' = [inst EXCEPT ![i] = r]  BY <1>3
<1> HIDE DEF r
<1>7. r.cred.login <= newest /\ r.pc \notin Connecting  BY <1>5, AtIs DEF Connecting
<1>8. QED  BY <1>1, <1>2, <1>5, <1>6, <1>7, RescueStays, InstMoves

LEMMA DialKeeps == ASSUME AccountInv, NEW i \in Insts, Dial(i) PROVE AccountInv'
<1>1. Live(i) /\ UNCHANGED Outside  BY AtLive DEF Dial, At
<1>2. (GetStatus /\ Go(i, "dialed")) \/ Go(i, "ended")  BY DEF Dial, MayConnect
<1>3. QED  BY <1>1, <1>2, GoesOn DEF InstSteps, Connecting

\* The credential that is asked with is the row's.
LEMMA AskTokenKeeps == ASSUME AccountInv, NEW i \in Insts, AskToken(i) PROVE AccountInv'
<1> DEFINE r == [To(i, "token") EXCEPT !.cred = row.cred]
<1>1. Live(i) /\ inst[i].pc = "dialed" /\ UNCHANGED <<row, rescue, current, fence, flow, newest, dropped>>
  BY AtLive DEF AskToken, At, Outside, UserSide
<1>2. CASE Go(i, "loop")  BY <1>1, <1>2, GoesOn DEF InstSteps, Connecting, AskToken
<1>3. CASE inst' = [inst EXCEPT ![i] = r]
  <2>1. To(i, "token") \in Inst  BY ToIs DEF InstSteps
  <2>2. r \in Inst /\ r.cred = row.cred  BY <2>1, AtIs DEF Inst
  <2> HIDE DEF r
  <2>3. r.cred.login <= newest /\ inst[i].pc \in Connecting  BY <1>1, <2>2, AtIs DEF Connecting
  <2>4. QED  BY <1>1, <1>3, <2>2, <2>3, SameRow, RescueStays, InstMoves
<1>4. QED  BY <1>2, <1>3 DEF AskToken, Go

LEMMA TokenAnsweredKeeps == ASSUME AccountInv, NEW i \in Insts, TokenAnswered(i) PROVE AccountInv'
<1> DEFINE r == [inst[i] EXCEPT !.cred = row.cred, !.tries = inst[i].tries + 1]
           a == [inst[i] EXCEPT !.pc = "adopt"]
<1>1. /\ Live(i) /\ inst[i].pc = "token" /\ inst[i].pc \in Connecting /\ inst \in [Insts -> Inst]
      /\ UNCHANGED <<row, rescue, current, fence, flow, newest, dropped>>
  BY AtLive DEF TokenAnswered, At, Outside, UserSide, AccountInv, Types, Connecting
<1>2. CASE Go(i, "loop")  BY <1>1, <1>2, GoesOn DEF InstSteps, Connecting, TokenAnswered
<1>3. CASE inst' = [inst EXCEPT ![i] = r]
  <2>1. inst[i] \in Inst /\ inst[i].tries + 1 \in Nat  BY AtIs DEF Inst
  <2>2. r \in Inst /\ r.cred = row.cred  BY <2>1, AtIs DEF Inst
  <2> HIDE DEF r
  <2>3. r.cred.login <= newest  BY <2>2, AtIs
  <2>4. QED  BY <1>1, <1>3, <2>2, <2>3, SameRow, RescueStays, InstMoves
<1>4. CASE inst' = [inst EXCEPT ![i] = a]
  <2>1. a \in Inst /\ a.cred = inst[i].cred  BY AtIs, MovedIs DEF InstSteps
  <2> HIDE DEF a
  <2>2. a.cred.login <= newest  BY <2>1, AtIs
  <2>3. QED  BY <1>1, <1>4, <2>1, <2>2, SameRow, RescueStays, InstMoves
<1>5. QED  BY <1>2, <1>3, <1>4 DEF TokenAnswered, Go

\* A point of the same connection is taken, with the credential that was read or the one just written.
LEMMA StaysConnected ==
    ASSUME AccountInv, NEW i \in Insts, inst[i].pc \in Connecting, NEW pc \in InstSteps,
           NEW c \in Cred, c.login <= newest, NEW n \in Nat,
           \/ inst' = [inst EXCEPT ![i].pc = pc]
           \/ inst' = [inst EXCEPT ![i].pc = pc, ![i].cred = c]
           \/ inst' = [inst EXCEPT ![i].pc = pc, ![i].cred = c, ![i].tries = n],
           SameAccount, UNCHANGED <<rescue, current, fence, flow, newest, dropped>>
    PROVE  AccountInv'
<1> DEFINE r1 == [inst[i] EXCEPT !.pc = pc]
           r2 == [inst[i] EXCEPT !.pc = pc, !.cred = c]
           r3 == [inst[i] EXCEPT !.pc = pc, !.cred = c, !.tries = n]
<1>1. Live(i) /\ inst \in [Insts -> Inst]  BY AtLive DEF AccountInv, Types, Connecting
<1>2. r1 \in Inst /\ r1.cred.login <= newest  BY AtIs, MovedIs
<1>3. r2 \in Inst /\ r2.cred.login <= newest /\ r3 \in Inst /\ r3.cred.login <= newest  BY AtIs DEF Inst
<1>4. \/ inst' = [inst EXCEPT ![i] = r1]
      \/ inst' = [inst EXCEPT ![i] = r2]
      \/ inst' = [inst EXCEPT ![i] = r3]
  BY <1>1
<1> HIDE DEF r1, r2, r3
<1>5. QED  BY <1>1, <1>2, <1>3, <1>4, RescueStays, InstMoves

LEMMA AdoptTokenKeeps == ASSUME AccountInv, NEW i \in Insts, AdoptToken(i) PROVE AccountInv'
<1>1. /\ Live(i) /\ inst[i].pc \in Connecting
      /\ UNCHANGED <<rescue, current, fence, flow, newest, dropped>>
  BY AtLive DEF AdoptToken, At, UserSide, Connecting
<1>2. CASE UNCHANGED row
  <2>1. CASE \E pc \in {"bind", "solve"} : inst' = [inst EXCEPT ![i].pc = pc]
    BY <1>1, <1>2, <2>1, AtIs, SameRow, StaysConnected DEF InstSteps
  <2>2. CASE \E pc \in {"expired", "loop", "ended"} : Go(i, pc)
    BY <1>1, <1>2, <2>2, SameRow, RescueStays, GoKeeps DEF InstSteps, Connecting
  <2>3. CASE Write(inst[i].cred.login)
    <3>1. row'.cred = [login |-> inst[i].cred.login, stamp |-> row.cred.stamp + 1]
      BY <2>3, AtIs DEF Write, Row
    <3>2. FALSE
      <4>1. row.cred.stamp \in Nat  BY AtIs DEF Cred
      <4>2. row.cred.stamp = row.cred.stamp + 1  BY <1>2, <3>1
      <4>3. QED  BY <4>1, <4>2
    <3>3. QED  BY <3>2
  <2>4. QED  BY <2>1, <2>2, <2>3 DEF AdoptToken
<1>3. CASE Write(inst[i].cred.login)
  <2>1. SameAccount /\ row'.cred \in Cred /\ row'.cred.login <= newest  BY <1>3, AtIs, WriteIs, WrittenRow
  <2>2. CASE \E pc \in {"bind", "solve"} :
                \/ inst' = [inst EXCEPT ![i].pc = pc, ![i].cred = row'.cred]
                \/ inst' = [inst EXCEPT ![i].pc = pc]
    BY <1>1, <2>1, <2>2, StaysConnected DEF InstSteps
  <2>3. CASE \E pc \in {"expired", "loop", "ended"} : Go(i, pc)
    BY <1>1, <2>1, <2>3, RescueStays, GoKeeps DEF InstSteps, Connecting
  <2>4. QED  BY <2>2, <2>3, <1>3 DEF AdoptToken
<1>4. QED  BY <1>2, <1>3 DEF AdoptToken

LEMMA SliderSolvedKeeps == ASSUME AccountInv, NEW i \in Insts, SliderSolved(i) PROVE AccountInv'
<1>1. /\ Live(i) /\ inst[i].pc \in Connecting
      /\ UNCHANGED <<rescue, current, fence, flow, newest, dropped>>
  BY AtLive DEF SliderSolved, At, UserSide, Connecting
<1>2. CASE UNCHANGED row /\ Go(i, "ended")
  BY <1>1, <1>2, SameRow, RescueStays, GoKeeps DEF InstSteps, Connecting
<1>3. CASE /\ Write(inst[i].cred.login)
           /\ \E seen \in {inst[i].cred, row'.cred} :
                 inst' = [inst EXCEPT ![i].pc = "token", ![i].cred = seen, ![i].tries = @ + 1]
  <2>1. SameAccount /\ row'.cred \in Cred /\ row'.cred.login <= newest  BY <1>3, AtIs, WriteIs, WrittenRow
  <2>2. PICK seen \in {inst[i].cred, row'.cred} :
                 inst' = [inst EXCEPT ![i].pc = "token", ![i].cred = seen, ![i].tries = @ + 1]
    BY <1>3
  <2>3. seen \in Cred /\ seen.login <= newest  BY <2>1, AtIs
  <2>4. inst[i].tries + 1 \in Nat /\ inst \in [Insts -> Inst]  BY AtIs DEF Inst, AccountInv, Types
  <2>5. inst' = [inst EXCEPT ![i].pc = "token", ![i].cred = seen, ![i].tries = inst[i].tries + 1]  BY <2>2, <2>4
  <2>6. QED  BY <1>1, <2>1, <2>3, <2>4, <2>5, StaysConnected DEF InstSteps
<1>4. QED  BY <1>2, <1>3 DEF SliderSolved

LEMMA BindTokenKeeps == ASSUME AccountInv, NEW i \in Insts, BindToken(i) PROVE AccountInv'
<1> DEFINE r == [To(i, "register") EXCEPT !.token = row.cred]
<1>1. /\ Live(i) /\ inst[i].pc \in Connecting
      /\ UNCHANGED <<row, rescue, current, fence, flow, newest, dropped>>
  BY AtLive DEF BindToken, At, Outside, UserSide, Connecting
<1>2. CASE Go(i, "loop")  BY <1>1, <1>2, GoesOn DEF InstSteps, Connecting, BindToken
<1>3. CASE inst' = [inst EXCEPT ![i] = r]
  <2>1. To(i, "register") \in Inst /\ To(i, "register").cred.login = 0  BY ToIs DEF InstSteps
  <2>2. r \in Inst /\ r.cred.login = 0  BY <2>1, AtIs DEF Inst
  <2> HIDE DEF r
  <2>3. r.cred.login <= newest  BY <2>2, AtIs
  <2>4. QED  BY <1>1, <1>3, <2>2, <2>3, SameRow, RescueStays, InstMoves
<1>4. QED  BY <1>2, <1>3 DEF BindToken, Go

LEMMA RegisterKeeps == ASSUME AccountInv, NEW i \in Insts, Register(i) \/ Registered(i) PROVE AccountInv'
<1>1. /\ Live(i) /\ inst[i].pc \in Connecting /\ UNCHANGED Outside
      /\ UNCHANGED <<row, rescue, current, fence, flow, newest, dropped>>
  BY AtLive DEF Register, Registered, At, Outside, UserSide, Connecting
<1>2. CASE Go(i, "loop") \/ Go(i, "ended")  BY <1>1, <1>2, GoesOn DEF InstSteps, Connecting
<1>3. CASE \E pc \in {"registering", "online"} : inst' = [inst EXCEPT ![i].pc = pc]
  BY <1>1, <1>3, AtIs, SameRow, StaysConnected DEF InstSteps
<1>4. QED  BY <1>2, <1>3 DEF Register, Registered

LEMMA SessionEndsKeeps == ASSUME AccountInv, NEW i \in Insts, SessionEnds(i) PROVE AccountInv'
<1>1. Live(i) /\ UNCHANGED Outside  BY AtLive DEF SessionEnds, At
<1>2. Go(i, "loop") \/ Go(i, "ended")  BY DEF SessionEnds
<1>3. QED  BY <1>1, <1>2, GoesOn DEF InstSteps, Connecting

LEMMA UnwindsKeeps == ASSUME AccountInv, NEW i \in Insts, Unwinds(i) PROVE AccountInv'
<1>1. Live(i) /\ UNCHANGED Outside /\ Go(i, "gone")  BY AtLive DEF Unwinds, At
<1>2. QED  BY <1>1, GoesOn DEF InstSteps, Connecting

\* A renewal that begins takes the row's credential.
LEMMA AskIs ==
    ASSUME AccountInv, NEW by \in Insts \cup {None}, Ask(by)
    PROVE  rescue' \in [busy : BOOLEAN, cred : Cred, by : Insts \cup {None}] /\ rescue'.cred.login <= newest
<1>1. CASE UNCHANGED rescue  BY <1>1, RescueStays
<1>2. CASE rescue' = [busy |-> TRUE, cred |-> row.cred, by |-> by]  BY <1>2, RowIs
<1>3. QED  BY <1>1, <1>2 DEF Ask

LEMMA AskRescueKeeps == ASSUME AccountInv, NEW i \in Insts, AskRescue(i) PROVE AccountInv'
<1>1. Live(i) /\ UNCHANGED <<row, current, fence, flow, newest, dropped>>
  BY AtLive DEF AskRescue, At, UserSide
<1>2. rescue' \in [busy : BOOLEAN, cred : Cred, by : Insts \cup {None}] /\ rescue'.cred.login <= newest
  BY AskIs, RescueStays DEF AskRescue
<1>3. Go(i, "rescue") \/ Go(i, "ended")  BY DEF AskRescue
<1>4. QED  BY <1>1, <1>2, <1>3, SameRow, GoKeeps DEF InstSteps, Connecting

LEMMA LateAnswerKeeps == ASSUME AccountInv, NEW i \in Insts, LateAnswer(i) PROVE AccountInv'
<1> DEFINE r == [inst[i] EXCEPT !.late = FALSE]
<1>1. Live(i) /\ UNCHANGED <<rescue, current, fence, flow, newest, dropped>> /\ inst' = [inst EXCEPT ![i] = r]
  BY DEF LateAnswer, Live, UserSide
<1>2. SameAccount  BY AtIs, SameRow, WrittenRow DEF LateAnswer
<1>3. r \in Inst /\ r.cred = inst[i].cred /\ r.pc = inst[i].pc  BY AtIs DEF Inst
<1> HIDE DEF r
<1>4. r.cred.login <= newest  BY <1>3, AtIs
<1>5. QED  BY <1>1, <1>2, <1>3, <1>4, RescueStays, InstMoves

LEMMA EngineKeeps == ASSUME AccountInv, NEW i \in Insts, Engine(i) \/ LateAnswer(i) PROVE AccountInv'
BY PrepareKeeps, StartupRenewedKeeps, DialKeeps, AskTokenKeeps, TokenAnsweredKeeps, AdoptTokenKeeps, SliderSolvedKeeps,
   BindTokenKeeps, RegisterKeeps, SessionEndsKeeps, AskRescueKeeps, UnwindsKeeps, LateAnswerKeeps DEF Engine

-----------------------------------------------------------------------------
(* The protocol renewal.                                                   *)

\* The row or the renewal is written; instances and flows stay as they are.
LEMMA RowWritten ==
    ASSUME AccountInv, SameAccount, UNCHANGED <<inst, rescue, current, fence, flow, newest, dropped>>
    PROVE  AccountInv'
<1>1. Types /\ OneLive /\ Logins /\ Fenced /\ Connected  BY DEF AccountInv
<1>2. Types' /\ OneLive' /\ Logins'  BY <1>1 DEF Types, OneLive, Logins, Live, SameAccount
<1>3. Fenced' /\ Connected'  BY <1>1 DEF Fenced, Connected, Live, SameAccount
<1>4. QED  BY <1>2, <1>3 DEF AccountInv

LEMMA RescueSavesKeeps == ASSUME AccountInv, RescueSaves PROVE AccountInv'
<1>1. rescue.cred.login \in Nat /\ rescue.cred.login <= newest  BY DEF AccountInv, Types, Logins, Cred
<1>2. SameAccount  BY <1>1, WrittenRow DEF RescueSaves
<1>3. QED  BY <1>2, RowWritten DEF RescueSaves, UserSide

LEMMA RescueEndsKeeps == ASSUME AccountInv, RescueEnds PROVE AccountInv'
<1>1. Types /\ OneLive /\ Logins /\ Fenced /\ Connected  BY DEF AccountInv
<1>2. PICK renewed \in BOOLEAN :
         /\ inst' = [i \in Insts |-> IF At(i, "rescue") THEN [inst[i] EXCEPT !.pc = IF renewed THEN "loop" ELSE "ended"]
                                     ELSE inst[i]]
         /\ flow' = [f \in Flows |-> IF f \in Waiting
                                       THEN IF renewed /\ f = "check" THEN [flow[f] EXCEPT !.pc = "stop"] ELSE Idle
                                       ELSE flow[f]]
  BY DEF RescueEnds
<1>3. rescue' = Calm /\ UNCHANGED <<row, current, fence, newest, dropped>>  BY DEF RescueEnds
<1>4. ASSUME NEW i \in Insts
      PROVE  /\ inst'[i] \in Inst /\ inst'[i].cred = inst[i].cred
             /\ Live(i)' => Live(i)
             /\ inst'[i].pc \in Connecting => inst[i].pc \in Connecting
  <2> DEFINE pc == IF renewed THEN "loop" ELSE "ended"
  <2>1. inst[i] \in Inst  BY AtIs
  <2>2. CASE At(i, "rescue")
    <3>1. inst'[i] = [inst[i] EXCEPT !.pc = pc] /\ pc \in InstSteps /\ pc \notin Connecting
      BY <1>2, <2>2 DEF InstSteps, Connecting
    <3> HIDE DEF pc
    <3>2. inst'[i] \in Inst /\ inst'[i].cred = inst[i].cred /\ inst'[i].pc = pc  BY <2>1, <3>1, MovedIs
    <3>3. Live(i)  BY <2>2, AtLive DEF At
    <3>4. QED  BY <3>1, <3>2, <3>3
  <2>3. CASE ~At(i, "rescue")
    <3>1. inst'[i] = inst[i]  BY <1>2, <2>3
    <3>2. QED  BY <2>1, <3>1 DEF Live
  <2>4. QED  BY <2>2, <2>3
<1>5. inst' \in [Insts -> Inst]
  <2>1. DOMAIN inst' = Insts /\ inst' = [i \in Insts |-> inst'[i]]  BY <1>2
  <2>2. QED  BY <1>4, <2>1
<1>6. ASSUME NEW f \in Flows
      PROVE  /\ flow'[f] \in Flow
             /\ flow'[f] = flow[f] \/ flow'[f].pc = "idle" \/ (flow'[f].pc = "stop" /\ f = "check")
  <2>1. flow[f] \in Flow  BY <1>1 DEF Types
  <2>2. flow'[f] \in {flow[f], Idle} \/ (f = "check" /\ flow'[f] = [flow[f] EXCEPT !.pc = "stop"])  BY <1>2
  <2>3. [flow[f] EXCEPT !.pc = "stop"] \in Flow /\ [flow[f] EXCEPT !.pc = "stop"].pc = "stop"
    BY <2>1 DEF Flow, FlowSteps
  <2>4. QED  BY <2>1, <2>2, <2>3, BlankIs
<1>7. flow' \in [Flows -> Flow]
  <2>1. DOMAIN flow' = Flows /\ flow' = [f \in Flows |-> flow'[f]]  BY <1>2
  <2>2. QED  BY <1>6, <2>1
<1>8. Calm \in [busy : BOOLEAN, cred : Cred, by : Insts \cup {None}] /\ Calm.cred.login = 0
  BY BlankIs DEF Calm
<1>9. Types'  BY <1>1, <1>3, <1>5, <1>7, <1>8 DEF Types
<1>10. OneLive' /\ Connected'  BY <1>1, <1>3, <1>4 DEF OneLive, Connected
<1>11. Logins'
  <2>1. 0 <= newest  BY <1>1 DEF Types
  <2>2. QED  BY <1>1, <1>3, <1>4, <1>8, <2>1 DEF Logins
<1>12. Fenced'
  <2>1. ASSUME NEW f \in Flows, flow'[f] = flow[f]
        PROVE  /\ Place(f, flow'[f], fence', current')
               /\ f \in Stoppers /\ flow'[f].pc = "stopped" => \A i \in Insts : ~Live(i)'
    BY <1>1, <1>3, <1>4, <2>1 DEF Fenced
  <2>2. ASSUME NEW f \in Flows, flow'[f].pc = "idle" \/ (flow'[f].pc = "stop" /\ f = "check")
        PROVE  Place(f, flow'[f], fence', current') /\ (f \in Stoppers => flow'[f].pc # "stopped")
    BY <2>2 DEF Place, Stoppers, Stopping
  <2>3. QED  BY <1>6, <2>1, <2>2 DEF Fenced
<1>13. QED  BY <1>9, <1>10, <1>11, <1>12 DEF AccountInv

-----------------------------------------------------------------------------
(* The flows.                                                              *)

\* A flow moves on behind the same fence.
LEMMA SameFence ==
    ASSUME AccountInv, NEW f \in Flows, NEW r \in Flow, flow' = [flow EXCEPT ![f] = r],
           fence' = fence, current' \in {current, None}, \A i \in Insts : Live(i)' => Live(i),
           Place(f, r, fence', current'), f \in Stoppers /\ r.pc = "stopped" => \A i \in Insts : ~Live(i)'
    PROVE  Fenced'
<1>1. Types /\ Fenced  BY DEF AccountInv
<1>2. \A g \in Flows : flow'[g] = IF g = f THEN r ELSE flow[g]  BY <1>1 DEF Types
<1>3. ASSUME NEW g \in Flows
      PROVE  Place(g, flow'[g], fence', current')
             /\ (g \in Stoppers /\ flow'[g].pc = "stopped" => \A i \in Insts : ~Live(i)')
  <2>1. CASE g = f  BY <1>2, <2>1
  <2>2. CASE g # f
    <3>1. flow'[g] = flow[g] /\ Place(g, flow[g], fence, current)
          /\ (g \in Stoppers /\ flow[g].pc = "stopped" => \A i \in Insts : ~Live(i))
      BY <1>1, <1>2, <2>2 DEF Fenced
    <3>2. Place(g, flow[g], fence', current')  BY <3>1 DEF Place
    <3>3. QED  BY <3>1, <3>2
  <2>3. QED  BY <2>1, <2>2
<1>4. QED  BY <1>3 DEF Fenced

\* The fence is taken or given back, or nobody has it: the other stoppers have not begun.
LEMMA OtherFence ==
    ASSUME AccountInv, NEW f \in Flows, NEW r \in Flow, flow' = [flow EXCEPT ![f] = r], fence \in {"", f},
           Place(f, r, fence', current'), f \in Stoppers /\ r.pc = "stopped" => \A i \in Insts : ~Live(i)'
    PROVE  Fenced'
<1>1. Types /\ Fenced  BY DEF AccountInv
<1>2. \A g \in Flows : flow'[g] = IF g = f THEN r ELSE flow[g]  BY <1>1 DEF Types
<1>3. ASSUME NEW g \in Flows
      PROVE  Place(g, flow'[g], fence', current')
             /\ (g \in Stoppers /\ flow'[g].pc = "stopped" => \A i \in Insts : ~Live(i)')
  <2>1. CASE g = f  BY <1>2, <2>1
  <2>2. CASE g # f
    <3>1. flow'[g] = flow[g] /\ Place(g, flow[g], fence, current)  BY <1>1, <1>2, <2>2 DEF Fenced
    <3>2. g \in Stoppers => flow[g].pc \notin Stopping /\ flow[g].pc # "wait" /\ flow[g].pc # "stopped"
      BY <2>2, <3>1 DEF Place, Stoppers, Stopping
    <3>3. Place(g, flow[g], fence', current')  BY <3>1, <3>2 DEF Place
    <3>4. QED  BY <3>1, <3>2, <3>3
  <2>3. QED  BY <2>1, <2>2
<1>4. QED  BY <1>3 DEF Fenced

LEMMA FlowIs ==
    ASSUME AccountInv, NEW f \in Flows
    PROVE  /\ flow[f] \in Flow /\ Place(f, flow[f], fence, current) /\ flow \in [Flows -> Flow]
           /\ f \in Stoppers /\ flow[f].pc = "stopped" => \A i \in Insts : ~Live(i)
BY DEF AccountInv, Types, Fenced

LEMMA FlowMoved ==
    ASSUME NEW r \in Flow, NEW pc \in FlowSteps
    PROVE  /\ [r EXCEPT !.pc = pc] \in Flow /\ [r EXCEPT !.pc = pc].pc = pc
           /\ [Idle EXCEPT !.pc = pc] \in Flow /\ [Idle EXCEPT !.pc = pc].pc = pc
BY BlankIs DEF Flow

\* What the flows but the stoppers do to the row: it may be saved, enabled, or written disabled for good.
RowMoves ==
    /\ row' \in Row /\ newest' \in Nat /\ newest <= newest' /\ row'.cred.login <= newest'
    /\ dropped' \in BOOLEAN /\ (dropped => dropped')
    /\ dropped' \/ (row'.exists = row.exists /\ (row.enabled => row'.enabled))
    /\ rescue' \in [busy : BOOLEAN, cred : Cred, by : Insts \cup {None}] /\ rescue'.cred.login <= newest'

LEMMA FlowKeeps ==
    ASSUME AccountInv, NEW f \in Flows, NEW r \in Flow, flow' = [flow EXCEPT ![f] = r], RowMoves,
           Place(f, r, fence, current), f \in Stoppers => r.pc # "stopped", UNCHANGED <<inst, current, fence>>
    PROVE  AccountInv'
<1>1. Types /\ OneLive /\ Logins /\ Fenced /\ Connected  BY DEF AccountInv
<1>2. \A i \in Insts : Live(i)' <=> Live(i)  BY DEF Live
<1>3. Fenced'  BY <1>2, SameFence
<1>4. flow' \in [Flows -> Flow]  BY <1>1 DEF Types
<1>5. Types'  BY <1>1, <1>4 DEF Types, RowMoves
<1>6. OneLive'  BY <1>1, <1>2 DEF OneLive
<1>7. Logins'
  <2>1. ASSUME NEW i \in Insts  PROVE inst[i].cred.login <= newest'
    <3>1. inst[i].cred.login \in Nat /\ inst[i].cred.login <= newest /\ newest \in Nat  BY AtIs
    <3>2. newest' \in Nat /\ newest <= newest'  BY DEF RowMoves
    <3>3. QED  BY <3>1, <3>2
  <2>2. QED  BY <2>1 DEF Logins, RowMoves
<1>8. Connected'  BY <1>1 DEF Connected, RowMoves
<1>9. QED  BY <1>3, <1>5, <1>6, <1>7, <1>8 DEF AccountInv

LEMMA RowRests ==
    ASSUME AccountInv, UNCHANGED <<row, rescue, newest>>, dropped' \in BOOLEAN, dropped => dropped'
    PROVE  RowMoves
BY RowIs, RescueStays DEF RowMoves

\* A flow that is no stopper goes on.
LEMMA OthersKeep ==
    ASSUME AccountInv, NEW f \in Flows, f \notin Stoppers, NEW r \in Flow, flow' = [flow EXCEPT ![f] = r], RowMoves,
           r.pc # "unfence", r.pc = "turn" => f \in {"edit", "enable"}, UNCHANGED <<inst, current, fence>>
    PROVE  AccountInv'
<1>1. Place(f, r, fence, current)  BY DEF Place
<1>2. QED  BY <1>1, FlowKeeps

\* A flow that goes to a point, or ends.
LEMMA GoesTo ==
    ASSUME AccountInv, NEW f \in Flows, f \notin Stoppers, NEW pc \in FlowSteps \ {"unfence"},
           Next1(f, pc), pc = "turn" => f \in {"edit", "enable"},
           RowMoves, UNCHANGED <<inst, current, fence>>
    PROVE  AccountInv'
<1> DEFINE r == [Idle EXCEPT !.pc = pc]
<1>1. r \in Flow /\ r.pc = pc  BY FlowMoved, FlowIs
<1>2. flow' = [flow EXCEPT ![f] = r]  BY DEF Next1
<1> HIDE DEF r
<1>3. QED  BY <1>1, <1>2, OthersKeep

LEMMA GoesHome ==
    ASSUME AccountInv, NEW f \in Flows, f \notin Stoppers, Done(f), RowMoves, UNCHANGED <<inst, current, fence>>
    PROVE  AccountInv'
BY BlankIs, OthersKeep DEF Done

LEMMA SavesKeeps == ASSUME AccountInv, NEW f \in Flows, Saves(f) PROVE AccountInv'
<1> DEFINE c == [login |-> newest + 1, stamp |-> row.cred.stamp + 1]
<1>1. f \notin Stoppers /\ Next1(f, "status") /\ UNCHANGED <<inst, current, fence, rescue, dropped>>
  BY DEF Saves, Stoppers
<1>2. row' = [row EXCEPT !.cred = c] /\ newest' = newest + 1  BY DEF Saves, Save
<1>3. c \in Cred /\ c.login = newest + 1  BY RowIs DEF Cred
<1> HIDE DEF c
<1>4. row' \in Row /\ row'.exists = row.exists /\ row'.enabled = row.enabled /\ row'.cred = c
  BY <1>2, <1>3, RowIs DEF Row
<1>5. rescue'.cred.login \in Nat /\ rescue'.cred.login <= newest  BY <1>1 DEF AccountInv, Types, Logins, Cred
<1>6. RowMoves
  <2>1. newest' \in Nat /\ newest <= newest' /\ rescue'.cred.login <= newest'  BY <1>2, <1>5, RowIs
  <2>2. row'.cred.login <= newest'  BY <1>2, <1>3, <1>4, <2>1
  <2>3. QED  BY <1>1, <1>4, <2>1, <2>2 DEF RowMoves, AccountInv, Types
<1>7. QED  BY <1>1, <1>6, GoesTo DEF FlowSteps

LEMMA StatusReadKeeps == ASSUME AccountInv, NEW f \in Flows, StatusRead(f) PROVE AccountInv'
<1>1. f \notin Stoppers /\ UNCHANGED <<row, inst, current, fence, rescue, newest, dropped>>
  BY FlowIs DEF StatusRead, In, Place, Stoppers, Stopping
<1>2. RowMoves  BY <1>1, RowRests DEF AccountInv, Types
<1>3. Done(f) \/ (f = "edit" /\ Next1(f, "turn")) \/ Next1(f, "stop")  BY DEF StatusRead
<1>4. QED  BY <1>1, <1>2, <1>3, GoesHome, GoesTo DEF FlowSteps

LEMMA SetStatusKeeps == ASSUME AccountInv, NEW f \in Flows, SetStatus(f) PROVE AccountInv'
<1> DEFINE r == [Idle EXCEPT !.pc = "turn"]
<1>1. UNCHANGED <<row, inst, current, fence, rescue, newest, dropped>> /\ f \in {"enable", "disable"}
      /\ flow' = [flow EXCEPT ![f] = r]
  BY DEF SetStatus, Next1
<1>2. r \in Flow /\ r.pc = "turn"  BY FlowMoved, FlowIs DEF FlowSteps
<1> HIDE DEF r
<1>3. Place(f, r, fence, current)  BY <1>1, <1>2 DEF Place, Stoppers, Stopping
<1>4. RowMoves  BY <1>1, RowRests DEF AccountInv, Types
<1>5. QED  BY <1>1, <1>2, <1>3, <1>4, FlowKeeps

LEMMA TakesTurnKeeps == ASSUME AccountInv, NEW f \in Flows, TakesTurn(f) PROVE AccountInv'
<1>1. UNCHANGED <<row, inst, current, fence, rescue, newest, dropped>> /\ f \in {"edit", "enable", "disable"}
  BY FlowIs DEF TakesTurn, In, Place
<1>2. RowMoves  BY <1>1, RowRests DEF AccountInv, Types
<1>3. CASE f = "edit"  BY <1>1, <1>2, <1>3, GoesTo DEF TakesTurn, FlowSteps, Stoppers
<1>4. CASE f = "enable"  BY <1>1, <1>2, <1>4, GoesTo DEF TakesTurn, FlowSteps, Stoppers
<1>5. CASE f = "disable"
  <2> DEFINE r == [Idle EXCEPT !.pc = "fence"]
  <2>1. flow' = [flow EXCEPT ![f] = r]  BY <1>5 DEF TakesTurn, Next1
  <2>2. r \in Flow /\ r.pc = "fence"  BY FlowMoved, FlowIs DEF FlowSteps
  <2> HIDE DEF r
  <2>3. Place(f, r, fence, current)  BY <1>5, <2>2 DEF Place, Stoppers, Stopping
  <2>4. QED  BY <1>1, <1>2, <2>1, <2>2, <2>3, FlowKeeps
<1>6. QED  BY <1>1, <1>3, <1>4, <1>5

LEMMA EnablesKeeps == ASSUME AccountInv, "enable" \in Flows, Enables PROVE AccountInv'
<1>1. UNCHANGED <<inst, current, fence, rescue, newest, dropped>> /\ "enable" \notin Stoppers
  BY DEF Enables, Stoppers
<1>2. row' = [row EXCEPT !.enabled = TRUE] \/ row' = row  BY DEF Enables
<1>3. row' \in Row /\ row'.exists = row.exists /\ (row.enabled => row'.enabled) /\ row'.cred = row.cred
  BY <1>2, RowIs DEF Row
<1>4. RowMoves  BY <1>1, <1>3, RowIs, RescueStays DEF RowMoves, AccountInv, Types
<1>5. Next1("enable", "stop") \/ Done("enable")  BY DEF Enables
<1>6. QED  BY <1>1, <1>4, <1>5, GoesHome, GoesTo DEF FlowSteps

LEMMA ReadsKeeps == ASSUME AccountInv, NEW f \in Flows, Reads(f) PROVE AccountInv'
<1>1. UNCHANGED <<row, inst, current, fence, rescue, newest, dropped>> /\ f \notin Stoppers
  BY DEF Reads, Stoppers
<1>2. RowMoves  BY <1>1, RowRests DEF AccountInv, Types
<1>3. QED  BY <1>1, <1>2, GoesTo DEF Reads, FlowSteps

LEMMA CallsKeeps == ASSUME AccountInv, NEW f \in Flows, Calls(f) PROVE AccountInv'
<1> DEFINE r == [flow[f] EXCEPT !.pc = "call", !.cred = row.cred]
<1>1. UNCHANGED <<row, inst, current, fence, rescue, newest, dropped>> /\ f \notin Stoppers
      /\ flow' = [flow EXCEPT ![f] = r]
  BY DEF Calls, Stoppers
<1>2. r \in Flow /\ r.pc = "call"  BY FlowIs, RowIs DEF Flow, FlowSteps
<1> HIDE DEF r
<1>3. RowMoves  BY <1>1, RowRests DEF AccountInv, Types
<1>4. QED  BY <1>1, <1>2, <1>3, OthersKeep

\* A write of the row's own login.
LEMMA RowWrites ==
    ASSUME AccountInv, NEW login \in Nat, login <= newest, Write(login), UNCHANGED <<rescue, newest, dropped>>
    PROVE  RowMoves
BY WriteIs, RowIs, RescueStays DEF RowMoves, AccountInv, Types

LEMMA RenewAnsweredKeeps == ASSUME AccountInv, "renew" \in Flows, RenewAnswered PROVE AccountInv'
<1>1. UNCHANGED <<inst, current, fence, rescue, newest, dropped>> /\ "renew" \notin Stoppers /\ "late" \notin Stoppers
  BY DEF RenewAnswered, Stoppers
<1>2. CASE UNCHANGED row /\ Done("renew")
  BY <1>1, <1>2, RowRests, GoesHome DEF AccountInv, Types
<1>3. CASE Write(row.cred.login) /\ Next1("renew", "stop")
  BY <1>1, <1>3, RowIs, RowWrites, GoesTo DEF FlowSteps
<1>4. CASE /\ In("late", "idle") /\ UNCHANGED row
           /\ flow' = [flow EXCEPT !["renew"] = Idle, !["late"].pc = "call"]
  <2> DEFINE r == [flow["late"] EXCEPT !.pc = "call"]
             mid == [flow EXCEPT !["renew"] = Idle]
  <2>1. "late" \in Flows /\ flow["late"] \in Flow /\ flow \in [Flows -> Flow]  BY <1>4, FlowIs DEF In
  <2>2. r \in Flow /\ r.pc = "call"  BY <2>1, FlowMoved DEF FlowSteps
  <2>3. \A g \in Flows : flow'[g] = IF g = "late" THEN r ELSE IF g = "renew" THEN Idle ELSE flow[g]
    BY <1>4, <2>1
  <2>4. flow' \in [Flows -> Flow]
    <3>1. flow' = [mid EXCEPT !["late"] = r]  BY <1>4, <2>1
    <3>2. mid \in [Flows -> Flow]  BY <2>1, BlankIs
    <3> HIDE DEF mid, r
    <3>3. QED  BY <2>2, <3>1, <3>2
  <2> HIDE DEF r
  <2>5. Types /\ OneLive /\ Logins /\ Fenced /\ Connected  BY DEF AccountInv
  <2>6. Types' /\ OneLive' /\ Logins' /\ Connected'
    BY <1>1, <1>4, <2>4, <2>5 DEF Types, OneLive, Logins, Connected, Live
  <2>7. Fenced'
    <3>1. ASSUME NEW g \in Flows
          PROVE  Place(g, flow'[g], fence', current')
                 /\ (g \in Stoppers /\ flow'[g].pc = "stopped" => \A i \in Insts : ~Live(i)')
      <4>1. CASE g \in {"late", "renew"}
        <5>1. flow'[g].pc \in {"call", "idle"}  BY <2>2, <2>3, <4>1, BlankIs
        <5>2. QED  BY <1>1, <4>1, <5>1 DEF Place
      <4>2. CASE g \notin {"late", "renew"}  BY <1>1, <2>3, <2>5, <4>2 DEF Fenced, Live
      <4>3. QED  BY <4>1, <4>2
    <3>2. QED  BY <3>1 DEF Fenced
  <2>8. QED  BY <2>6, <2>7 DEF AccountInv
<1>5. QED  BY <1>2, <1>3, <1>4 DEF RenewAnswered, Rebased

LEMMA LateRenewedKeeps == ASSUME AccountInv, "late" \in Flows, LateRenewed PROVE AccountInv'
<1>1. UNCHANGED <<inst, current, fence, rescue, newest, dropped>> /\ "late" \notin Stoppers
  BY DEF LateRenewed, Stoppers
<1>2. CASE UNCHANGED row /\ Done("late")
  BY <1>1, <1>2, RowRests, GoesHome DEF AccountInv, Types
<1>3. CASE Write(row.cred.login) /\ Next1("late", "status")
  BY <1>1, <1>3, RowIs, RowWrites, GoesTo DEF FlowSteps
<1>4. QED  BY <1>2, <1>3 DEF LateRenewed

LEMMA CallAnsweredKeeps == ASSUME AccountInv, NEW f \in Flows, CallAnswered(f) PROVE AccountInv'
<1>1. UNCHANGED <<inst, current, fence, newest, dropped>> /\ f \notin Stoppers  BY DEF CallAnswered, Stoppers
<1>2. CASE Done(f) /\ UNCHANGED <<row, rescue>>
  BY <1>1, <1>2, RowRests, GoesHome DEF AccountInv, Types
<1>3. CASE Unchanged(f) /\ Write(flow[f].cred.login) /\ UNCHANGED rescue /\ (Next1(f, "stop") \/ Done(f))
  <2>1. RowMoves  BY <1>1, <1>3, RowIs, RowWrites DEF Unchanged
  <2>2. QED  BY <1>1, <1>3, <2>1, GoesHome, GoesTo DEF FlowSteps
<1>4. CASE Next1(f, "rescue") /\ Ask(None) /\ UNCHANGED row
  <2>1. RowMoves  BY <1>1, <1>4, RowIs, AskIs DEF RowMoves, AccountInv, Types
  <2>2. QED  BY <1>1, <1>4, <2>1, GoesTo DEF FlowSteps
<1>5. QED  BY <1>2, <1>3, <1>4 DEF CallAnswered

\* A restart that is given up, and the account then written disabled, is remembered as dropped.
LEMMA GivesUpKeeps == ASSUME AccountInv, NEW f \in Flows, GivesUp(f) PROVE AccountInv'
<1>1. UNCHANGED <<inst, current, fence, rescue, newest>> /\ Done(f)
      /\ dropped' = (dropped \/ f \in {"login", "edit", "enable"})
  BY DEF GivesUp
<1>2. f \notin Stoppers  BY FlowIs DEF GivesUp, In, Restarting, Place, Stoppers, Stopping
<1>3. row' = row \/ (f \in {"edit", "enable"} /\ row' = [row EXCEPT !.enabled = FALSE])  BY DEF GivesUp
<1>4. row' \in Row /\ row'.cred = row.cred  BY <1>3, RowIs DEF Row
<1>5. dropped' \/ row' = row  BY <1>1, <1>3
<1>6. dropped' \in BOOLEAN /\ (dropped => dropped')  BY <1>1
<1>7. RowMoves  BY <1>1, <1>4, <1>5, <1>6, RowIs, RescueStays DEF RowMoves
<1>8. QED  BY <1>1, <1>2, <1>7, GoesHome

-----------------------------------------------------------------------------
(* The stoppers, and the stops and starts of all.                          *)

\* A flow takes the fence or gives it back.
LEMMA FenceMoves ==
    ASSUME AccountInv, NEW f \in Flows, f \in Stoppers, NEW pc \in {"idle", "stop"}, fence \in {"", f},
           flow' = [flow EXCEPT ![f] = [Idle EXCEPT !.pc = pc]], fence' \in {"", "disable", "delete"},
           pc = "stop" => fence' = f,
           UNCHANGED <<row, inst, current, rescue, newest, dropped>>
    PROVE  AccountInv'
<1> DEFINE r == [Idle EXCEPT !.pc = pc]
<1>1. r \in Flow /\ r.pc = pc
  <2>1. pc \in FlowSteps  BY DEF FlowSteps
  <2>2. QED  BY <2>1, FlowMoved, FlowIs
<1>2. flow' = [flow EXCEPT ![f] = r]  OBVIOUS
<1> HIDE DEF r
<1>3. Place(f, r, fence', current')  BY <1>1 DEF Place, Stopping
<1>4. Fenced'  BY <1>1, <1>2, <1>3, OtherFence
<1>5. Types /\ OneLive /\ Logins /\ Connected  BY DEF AccountInv
<1>6. Types' /\ OneLive' /\ Logins' /\ Connected'
  BY <1>1, <1>2, <1>5 DEF Types, OneLive, Logins, Connected, Live
<1>7. QED  BY <1>4, <1>6 DEF AccountInv

LEMMA IdleAgain == Idle = [Idle EXCEPT !.pc = "idle"]
BY DEF Idle

LEMMA FencesKeeps == ASSUME AccountInv, NEW f \in Flows, Fences(f) PROVE AccountInv'
<1>1. f \in Stoppers /\ UNCHANGED <<row, inst, current, rescue, newest, dropped>>  BY DEF Fences, Stoppers
<1>2. CASE fence = "" /\ fence' = f /\ Next1(f, "stop")
  BY <1>1, <1>2, FenceMoves DEF Next1, Stoppers
<1>3. CASE Done(f) /\ UNCHANGED fence
  <2>1. RowMoves  BY <1>1, RowRests DEF AccountInv, Types
  <2>2. Idle \in Flow /\ Place(f, Idle, fence, current) /\ Idle.pc # "stopped"
    BY BlankIs DEF Place, Stopping
  <2>3. QED  BY <1>1, <1>3, <2>1, <2>2, FlowKeeps DEF Done
<1>4. QED  BY <1>2, <1>3 DEF Fences

LEMMA StopTimesOutKeeps == ASSUME AccountInv, NEW f \in Flows, StopTimesOut(f) PROVE AccountInv'
<1>1. f \in Stoppers /\ Done(f) /\ fence' = "" /\ UNCHANGED <<row, inst, current, rescue, newest, dropped>>
  BY DEF StopTimesOut, Stoppers
<1>2. fence = f  BY <1>1, FlowIs DEF StopTimesOut, In, Place, Stopping
<1>3. QED  BY <1>1, <1>2, IdleAgain, FenceMoves DEF Done

LEMMA UnfencesKeeps == ASSUME AccountInv, NEW f \in Flows, Unfences(f) PROVE AccountInv'
<1>1. f \in Stoppers /\ fence = f  BY FlowIs DEF Unfences, In, Place, Stopping
<1>2. Done(f) /\ fence' = "" /\ UNCHANGED <<row, inst, current, rescue, newest, dropped>>  BY DEF Unfences
<1>3. QED  BY <1>1, <1>2, IdleAgain, FenceMoves DEF Done

\* The instance is marked: it lives on for as long as it unwinds.
LEMMA MarkIs ==
    ASSUME AccountInv, current # None, MarkStopped(current)
    PROVE  /\ inst' \in [Insts -> Inst]
           /\ \A i \in Insts : /\ Live(i)' <=> Live(i)
                               /\ inst'[i].cred.login <= newest
                               /\ inst'[i].pc \in Connecting => inst[i].pc \in Connecting
<1>1. current \in Insts /\ inst \in [Insts -> Inst]  BY DEF AccountInv, Types
<1> DEFINE pc == IF Live(current) THEN "ending" ELSE "gone"
           r  == To(current, pc)
<1>2. inst' = [inst EXCEPT ![current] = r]  BY DEF MarkStopped, Go
<1>3. pc \in InstSteps /\ pc \notin Connecting /\ (pc = "ending" <=> Live(current)) /\ pc \in {"ending", "gone"}
  BY DEF InstSteps, Connecting
<1> HIDE DEF pc
<1>4. r \in Inst /\ r.pc = pc /\ r.cred.login = 0 /\ r.late = inst[current].late  BY <1>1, <1>3, ToIs
<1> HIDE DEF r
<1>5. inst' \in [Insts -> Inst] /\ \A i \in Insts : inst'[i] = IF i = current THEN r ELSE inst[i]
  BY <1>1, <1>2, <1>4
<1>6. ASSUME NEW i \in Insts
      PROVE  /\ Live(i)' <=> Live(i)
             /\ inst'[i].cred.login <= newest
             /\ inst'[i].pc \in Connecting => inst[i].pc \in Connecting
  <2>1. CASE i = current
    <3>1. Live(i)' <=> (pc = "ending" \/ inst[i].late)  BY <1>3, <1>4, <1>5, <2>1 DEF Live
    <3>2. inst[i].late => Live(i)  BY DEF Live
    <3>3. QED  BY <1>3, <1>4, <1>5, <2>1, <3>1, <3>2, RowIs
  <2>2. CASE i # current  BY <1>5, <2>2, AtIs DEF Live
  <2>3. QED  BY <2>1, <2>2
<1>7. QED  BY <1>5, <1>6

LEMMA StopsKeeps == ASSUME AccountInv, NEW f \in Flows, Stops(f) PROVE AccountInv'
<1>1. flow[f].pc = "stop" /\ UNCHANGED <<row, current, fence, rescue, newest, dropped>>  BY DEF Stops, In
<1>2. f \in Stoppers => fence = f  BY <1>1, FlowIs DEF Place, Stopping
<1>3. Types /\ OneLive /\ Logins /\ Connected  BY DEF AccountInv
<1>4. CASE current = None /\ Next1(f, "stopped") /\ UNCHANGED inst
  <2> DEFINE r == [Idle EXCEPT !.pc = "stopped"]
  <2>1. r \in Flow /\ r.pc = "stopped"  BY FlowMoved, FlowIs DEF FlowSteps
  <2>2. flow' = [flow EXCEPT ![f] = r]  BY <1>4 DEF Next1
  <2> HIDE DEF r
  <2>3. Place(f, r, fence, current)  BY <1>2, <2>1 DEF Place, Stopping
  <2>4. \A i \in Insts : ~Live(i) /\ ~Live(i)'  BY <1>3, <1>4, NoneIs DEF OneLive, Live
  <2>5. Fenced'  BY <1>1, <2>1, <2>2, <2>3, <2>4, SameFence
  <2>6. Types' /\ OneLive' /\ Logins' /\ Connected'
    BY <1>1, <1>3, <1>4, <2>1, <2>2 DEF Types, OneLive, Logins, Connected, Live
  <2>7. QED  BY <2>5, <2>6 DEF AccountInv
<1>5. CASE current # None /\ flow' = [flow EXCEPT ![f] = [Idle EXCEPT !.pc = "wait", !.target = current]] /\ MarkStopped(current)
  <2> DEFINE r == [Idle EXCEPT !.pc = "wait", !.target = current]
  <2>1. r \in Flow /\ r.pc = "wait" /\ r.target = current  BY <1>3, BlankIs DEF Types, Flow, FlowSteps
  <2>2. flow' = [flow EXCEPT ![f] = r]  BY <1>5
  <2> HIDE DEF r
  <2>3. Place(f, r, fence, current)  BY <1>2, <2>1 DEF Place, Stopping
  <2>4. /\ inst' \in [Insts -> Inst]
        /\ \A i \in Insts : /\ Live(i)' <=> Live(i)
                            /\ inst'[i].cred.login <= newest
                            /\ inst'[i].pc \in Connecting => inst[i].pc \in Connecting
    BY <1>5, MarkIs
  <2>5. Fenced'  BY <1>1, <2>1, <2>2, <2>3, <2>4, SameFence
  <2>6. Types'  BY <1>1, <1>3, <2>1, <2>2, <2>4 DEF Types
  <2>7. OneLive' /\ Logins' /\ Connected'  BY <1>1, <1>3, <2>4 DEF OneLive, Logins, Connected
  <2>8. QED  BY <2>5, <2>6, <2>7 DEF AccountInv
<1>6. QED  BY <1>4, <1>5 DEF Stops

\* Whoever a stopper waited for was the last that ran.
LEMMA WaitsKeeps == ASSUME AccountInv, NEW f \in Flows, Waits(f) PROVE AccountInv'
<1> DEFINE r == [Idle EXCEPT !.pc = "stopped"]
<1>1. /\ flow[f].pc = "wait" /\ ~Live(flow[f].target) /\ flow' = [flow EXCEPT ![f] = r]
      /\ current' = (IF current = flow[f].target THEN None ELSE current)
      /\ UNCHANGED <<row, inst, fence, rescue, newest, dropped>>
  BY DEF Waits, In, Joined, Next1
<1>2. r \in Flow /\ r.pc = "stopped"  BY FlowMoved, FlowIs DEF FlowSteps
<1> HIDE DEF r
<1>3. Types /\ OneLive /\ Logins /\ Connected  BY DEF AccountInv
<1>4. \A i \in Insts : (Live(i)' <=> Live(i)) /\ (Live(i) => i = current /\ i # flow[f].target)
  BY <1>1, <1>3 DEF OneLive, Live
<1>5. f \in Stoppers => fence = f /\ current \in {flow[f].target, None}  BY <1>1, FlowIs DEF Place, Stopping
<1>6. f \in Stoppers => \A i \in Insts : ~Live(i)'  BY <1>4, <1>5, NoneIs
<1>7. Place(f, r, fence', current')  BY <1>1, <1>2, <1>5 DEF Place, Stopping
<1>8. Fenced'  BY <1>1, <1>2, <1>4, <1>6, <1>7, SameFence
<1>9. Types'  BY <1>1, <1>2, <1>3 DEF Types
<1>10. OneLive' /\ Logins' /\ Connected'  BY <1>1, <1>3, <1>4 DEF OneLive, Logins, Connected
<1>11. QED  BY <1>8, <1>9, <1>10 DEF AccountInv

\* Manager.Start: the one instance that may be started replaces one that has ended.
LEMMA StartsKeeps == ASSUME AccountInv, NEW f \in Flows, Starts(f) PROVE AccountInv'
<1>1. /\ flow[f].pc = "start" /\ fence = "" /\ Done(f)
      /\ UNCHANGED <<row, fence, rescue, newest, dropped>>
  BY DEF Starts, In, CanStart
<1>2. f \notin Stoppers  BY <1>1, FlowIs DEF Place, Stopping
<1>3. Types /\ OneLive /\ Logins /\ Connected  BY DEF AccountInv
<1>4. CASE UNCHANGED <<inst, current>>
  <2>1. RowMoves  BY <1>1, RowRests DEF AccountInv, Types
  <2>2. QED  BY <1>1, <1>2, <1>4, <2>1, GoesHome
<1>5. CASE /\ ~(current # None /\ Live(current))
           /\ \E i \in Insts : inst' = [inst EXCEPT ![i].pc = "made"] /\ current' = i
  <2>1. PICK i \in Insts : inst' = [inst EXCEPT ![i].pc = "made"] /\ current' = i  BY <1>5
  <2> DEFINE r == [inst[i] EXCEPT !.pc = "made"]
  <2>2. r \in Inst /\ r.pc = "made" /\ r.cred = inst[i].cred  BY AtIs, MovedIs DEF InstSteps
  <2>3. inst' = [inst EXCEPT ![i] = r]  BY <1>3, <2>1 DEF Types
  <2> HIDE DEF r
  <2>4. inst' \in [Insts -> Inst] /\ \A j \in Insts : inst'[j] = IF j = i THEN r ELSE inst[j]
    BY <1>3, <2>2, <2>3 DEF Types
  <2>5. \A j \in Insts : ~Live(j)  BY <1>3, <1>5, NoneIs DEF OneLive
  <2>6. \A j \in Insts : Live(j)' => j = current'  BY <2>1, <2>4, <2>5 DEF Live
  <2>7. Idle \in Flow /\ Place(f, Idle, fence', current')  BY <1>2, BlankIs DEF Place
  <2>8. flow' = [flow EXCEPT ![f] = Idle]  BY <1>1 DEF Done
  <2>9. Fenced'  BY <1>1, <1>2, <2>7, <2>8, OtherFence
  <2>10. flow' \in [Flows -> Flow]  BY <1>3, <2>7, <2>8 DEF Types
  <2>11. Types'  BY <1>1, <1>3, <2>1, <2>4, <2>10 DEF Types
  <2>12. Logins'  BY <1>1, <1>3, <2>2, <2>4 DEF Logins
  <2>13. Connected'
    <3>1. \A j \in Insts : inst'[j].pc \in Connecting => inst[j].pc \in Connecting  BY <2>2, <2>4 DEF Connecting
    <3>2. QED  BY <1>1, <1>3, <3>1 DEF Connected
  <2>14. OneLive'  BY <2>6 DEF OneLive
  <2>15. QED  BY <2>9, <2>11, <2>12, <2>13, <2>14 DEF AccountInv
<1>6. QED  BY <1>4, <1>5 DEF Starts

\* The row is written behind the fence, when nobody is live.
LEMMA WritesRowKeeps ==
    ASSUME AccountInv, ("disable" \in Flows /\ Disables) \/ ("delete" \in Flows /\ Deletes)
    PROVE  AccountInv'
<1>1. PICK f \in Flows : /\ f \in Stoppers /\ flow[f].pc = "stopped" /\ Next1(f, "unfence")
                         /\ UNCHANGED <<inst, current, fence, rescue, newest, dropped>>
  BY DEF Disables, Deletes, In, Stoppers
<1>2. row' = [row EXCEPT !.enabled = FALSE] \/ row' = [row EXCEPT !.exists = FALSE]  BY DEF Disables, Deletes
<1>3. row' \in Row /\ row'.cred = row.cred  BY <1>2, RowIs DEF Row
<1>4. \A i \in Insts : ~Live(i)  BY <1>1, FlowIs
<1>5. \A i \in Insts : inst[i].pc \notin Connecting  BY <1>4, AtLive DEF Connecting
<1> DEFINE r == [Idle EXCEPT !.pc = "unfence"]
<1>6. r \in Flow /\ r.pc = "unfence"  BY FlowMoved, FlowIs DEF FlowSteps
<1>7. flow' = [flow EXCEPT ![f] = r]  BY <1>1 DEF Next1
<1> HIDE DEF r
<1>8. Place(f, r, fence, current)  BY <1>1, <1>6, FlowIs DEF Place, Stopping
<1>9. Types /\ OneLive /\ Logins /\ Connected  BY DEF AccountInv
<1>10. \A i \in Insts : Live(i)' <=> Live(i)  BY <1>1 DEF Live
<1>11. Fenced'  BY <1>1, <1>6, <1>7, <1>8, <1>10, SameFence
<1>12. Types' /\ Logins'  BY <1>1, <1>3, <1>6, <1>7, <1>9 DEF Types, Logins
<1>13. OneLive' /\ Connected'  BY <1>1, <1>5, <1>9, <1>10 DEF OneLive, Connected
<1>14. QED  BY <1>11, <1>12, <1>13 DEF AccountInv

-----------------------------------------------------------------------------
(* Every step keeps the invariant.                                         *)

LEMMA AccountStart == ASSUME Init PROVE AccountInv
<1>1. /\ row = [exists |-> TRUE, enabled |-> TRUE, cred |-> [login |-> 1, stamp |-> 1]]
      /\ inst = [i \in Insts |-> IF i = 1 THEN [Blank EXCEPT !.pc = "made"] ELSE Blank]
      /\ current = 1 /\ fence = "" /\ rescue = Calm /\ flow = [f \in Flows |-> Idle]
      /\ newest = 1 /\ dropped = FALSE
  BY DEF Init
<1>2. [Blank EXCEPT !.pc = "made"] \in Inst /\ [Blank EXCEPT !.pc = "made"].cred.login = 0
      /\ [Blank EXCEPT !.pc = "made"].pc = "made" /\ Blank.pc = "none" /\ Blank.late = FALSE
  BY BlankIs DEF Inst, InstSteps, Blank
<1>3. 1 \in Insts  BY AccountAssumption DEF Insts
<1>4. \A i \in Insts : inst[i] \in Inst /\ inst[i].cred.login = 0 /\ inst[i].pc \in {"none", "made"} /\ (Live(i) => i = 1)
  BY <1>1, <1>2, BlankIs DEF Live
<1>5. inst \in [Insts -> Inst]  BY <1>1, <1>2, BlankIs
<1>6. Calm \in [busy : BOOLEAN, cred : Cred, by : Insts \cup {None}] /\ Calm.cred.login = 0
  BY BlankIs DEF Calm
<1>7. [exists |-> TRUE, enabled |-> TRUE, cred |-> [login |-> 1, stamp |-> 1]] \in Row  BY DEF Row, Cred
<1>8. Types  BY <1>1, <1>3, <1>5, <1>6, <1>7, BlankIs DEF Types
<1>9. OneLive  BY <1>1, <1>4 DEF OneLive
<1>10. row.cred.login = 1 /\ newest = 1 /\ rescue.cred.login = 0  BY <1>1, <1>6
<1>11. Logins  BY <1>4, <1>10 DEF Logins
<1>12. Connected  BY <1>4 DEF Connected, Connecting
<1>13. Fenced  BY <1>1, BlankIs DEF Fenced, Place, Stopping
<1>14. QED  BY <1>8, <1>9, <1>11, <1>12, <1>13 DEF AccountInv

LEMMA CarriesKeeps == ASSUME AccountInv, NEW f \in Flows, Carries(f) PROVE AccountInv'
<1>1. CASE StatusRead(f) \/ TakesTurn(f) \/ Stops(f) \/ Waits(f)
  BY <1>1, StatusReadKeeps, TakesTurnKeeps, StopsKeeps, WaitsKeeps
<1>2. CASE Reads(f) \/ Starts(f) \/ Unfences(f) \/ CallAnswered(f) \/ GivesUp(f)
  BY <1>2, ReadsKeeps, StartsKeeps, UnfencesKeeps, CallAnsweredKeeps, GivesUpKeeps
<1>3. CASE f = "disable" /\ (Fences(f) \/ Disables)
  <2>1. CASE Fences(f)  BY <2>1, FencesKeeps
  <2>2. CASE Disables
    <3>1. "disable" \in Flows /\ Disables  BY <1>3, <2>2
    <3>2. QED  BY <3>1, WritesRowKeeps
  <2>3. QED  BY <1>3, <2>1, <2>2
<1>4. CASE f = "delete" /\ Deletes  BY <1>4, WritesRowKeeps
<1>5. CASE f = "enable" /\ Enables  BY <1>5, EnablesKeeps
<1>6. CASE f = "renew" /\ RenewAnswered  BY <1>6, RenewAnsweredKeeps
<1>7. CASE f = "late" /\ LateRenewed  BY <1>7, LateRenewedKeeps
<1>8. QED  BY <1>1, <1>2, <1>3, <1>4, <1>5, <1>6, <1>7 DEF Carries

LEMMA FlowStepKeeps ==
    ASSUME AccountInv, NEW f \in Flows,
           Saves(f) \/ SetStatus(f) \/ Fences(f) \/ Calls(f) \/ Carries(f) \/ GivesUp(f) \/ StopTimesOut(f)
    PROVE  AccountInv'
BY SavesKeeps, SetStatusKeeps, FencesKeeps, CallsKeeps, CarriesKeeps, GivesUpKeeps, StopTimesOutKeeps

LEMMA AccountStep == ASSUME AccountInv, [Next]_vars PROVE AccountInv'
<1>1. CASE \E i \in Insts : Engine(i) \/ LateAnswer(i)  BY <1>1, EngineKeeps
<1>2. CASE RescueSaves \/ RescueEnds  BY <1>2, RescueSavesKeeps, RescueEndsKeeps
<1>3. CASE \E f \in Flows : Saves(f) \/ SetStatus(f) \/ Fences(f) \/ Calls(f) \/ Carries(f) \/ GivesUp(f) \/ StopTimesOut(f)
  BY <1>3, FlowStepKeeps
<1>4. CASE UNCHANGED vars  BY <1>4, SameRow, RowWritten DEF vars
<1>5. QED  BY <1>1, <1>2, <1>3, <1>4 DEF Next

\* What the row's login becomes: itself, a newer one a user saved, or what an unlocked write puts there.
Kept == row'.cred.login >= row.cred.login

LEMMA SameLogin ==
    ASSUME AccountInv, \/ row' = row \/ row' = [row EXCEPT !.enabled = FALSE] \/ row' = [row EXCEPT !.enabled = TRUE]
                       \/ row' = [row EXCEPT !.exists = FALSE] \/ Write(row.cred.login)
    PROVE  Kept
<1>1. row \in Row /\ row.cred.login \in Nat /\ row.cred.login <= newest  BY RowIs
<1>2. row'.cred.login = row.cred.login  BY <1>1, WriteIs DEF Row
<1>3. QED  BY <1>1, <1>2 DEF Kept

LEMMA EngineLogin ==
    ASSUME AccountInv, NEW i \in Insts, Engine(i) \/ LateAnswer(i), ~Unlocked(i)
    PROVE  Kept
<1>1. row' = row \/ Write(row.cred.login)
  BY DEF Engine, LateAnswer, Unlocked, Prepare, StartupRenewed, Rebased, Dial, AskToken, TokenAnswered, BindToken, Register,
         Registered, SessionEnds, AskRescue, Unwinds, Outside
<1>2. QED  BY <1>1, SameLogin

LEMMA FlowLogin ==
    ASSUME AccountInv, NEW f \in Flows,
           Saves(f) \/ SetStatus(f) \/ Fences(f) \/ Calls(f) \/ Carries(f) \/ GivesUp(f) \/ StopTimesOut(f)
    PROVE  Kept
<1>1. CASE Saves(f)
  <2>1. row' = [row EXCEPT !.cred = [login |-> newest + 1, stamp |-> row.cred.stamp + 1]]  BY <1>1 DEF Saves, Save
  <2>2. row'.cred.login = newest + 1  BY <2>1, RowIs DEF Row
  <2>3. QED  BY <2>2, RowIs DEF Kept
<1>2. CASE SetStatus(f) \/ Fences(f) \/ Calls(f) \/ GivesUp(f) \/ StopTimesOut(f)
  BY <1>2, SameLogin DEF SetStatus, Fences, Calls, GivesUp, StopTimesOut
<1>3. CASE Carries(f)
  <2>1. CASE CallAnswered(f)  BY <2>1, SameLogin DEF CallAnswered, Unchanged
  <2>2. CASE RenewAnswered \/ LateRenewed  BY <2>2, SameLogin DEF RenewAnswered, LateRenewed, Rebased
  <2>3. CASE StatusRead(f) \/ TakesTurn(f) \/ Stops(f) \/ Waits(f) \/ Reads(f) \/ Starts(f) \/ Unfences(f) \/ Fences(f)
             \/ GivesUp(f)
    BY <2>3, SameLogin DEF StatusRead, TakesTurn, Stops, Waits, Reads, Starts, Unfences, Fences, GivesUp
  <2>4. CASE Disables \/ Enables \/ Deletes  BY <2>4, SameLogin DEF Disables, Enables, Deletes
  <2>5. QED  BY <1>3, <2>1, <2>2, <2>3, <2>4 DEF Carries
<1>4. QED  BY <1>1, <1>2, <1>3

LEMMA LoginStep ==
    ASSUME AccountInv, [Next]_vars
    PROVE  row'.cred.login < row.cred.login => RescueSaves \/ \E i \in Insts : Unlocked(i)
<1>1. Kept => ~(row'.cred.login < row.cred.login)
  <2>1. ASSUME Kept  PROVE ~(row'.cred.login < row.cred.login)
    <3>1. row'.cred.login \in Nat /\ row.cred.login \in Nat  BY AccountStep, RowIs DEF AccountInv, Types, Row, Cred
    <3>2. QED  BY <2>1, <3>1 DEF Kept
  <2>2. QED  BY <2>1
<1>2. CASE \E i \in Insts : Engine(i) \/ LateAnswer(i)  BY <1>1, <1>2, EngineLogin
<1>3. CASE RescueEnds \/ UNCHANGED vars  BY <1>1, <1>3, SameLogin DEF RescueEnds, vars
<1>4. CASE \E f \in Flows : Saves(f) \/ SetStatus(f) \/ Fences(f) \/ Calls(f) \/ Carries(f) \/ GivesUp(f) \/ StopTimesOut(f)
  BY <1>1, <1>4, FlowLogin
<1>5. QED  BY <1>2, <1>3, <1>4 DEF Next

-----------------------------------------------------------------------------
\* A live instance is the current one, nothing starts behind a fence, and what connects does so for an
\* enabled account (Manager.Start, StopContext, EndStopping, connectionCoordinator.run).
THEOREM AccountHolds == Spec => []AccountInv
<1>1. Init => AccountInv  BY AccountStart
<1>2. AccountInv /\ [Next]_vars => AccountInv'  BY AccountStep
<1>3. QED  BY <1>1, <1>2, PTL DEF Spec

\* At no time do two instances of the account run, whoever restarts it and whenever the last one was
\* stopped (Manager.Start next to StopContext and Restart, and instances that end by themselves).
THEOREM OneLiveInstanceHolds == Spec => []OneLiveInstance
<1>1. AccountInv => OneLiveInstance  BY DEF AccountInv, OneLive, OneLiveInstance
<1>2. QED  BY <1>1, AccountHolds, PTL

\* Neither a disable nor a delete leaves a session behind, whatever restart, renewal or connection is
\* under way next to it, as long as no restart was given up (SetStatus, DeleteOwned, Manager.Start).
THEOREM NoSessionBehindDisableHolds == Spec => []NoSessionBehindDisable
<1>1. AccountInv => NoSessionBehindDisable
  BY DEF AccountInv, Connected, Connecting, NoSessionBehindDisable, DisabledIsOffline, GetStatus, At
<1>2. QED  BY <1>1, AccountHolds, PTL

\* An older login is put over a newer one only by the three places that write without the credential
\* lock: a renewal, a login check, an order's cookies or a late answer never does (RebaseResponseCookies).
THEOREM OnlyUnlockedWritesLoseHolds == Spec => OnlyUnlockedWritesLose
<1>1. AccountInv /\ [Next]_vars
        => [row'.cred.login < row.cred.login => RescueSaves \/ \E i \in Insts : Unlocked(i)]_vars
  BY LoginStep
<1>2. QED  BY <1>1, AccountHolds, PTL DEF Spec, OnlyUnlockedWritesLose
=============================================================================
