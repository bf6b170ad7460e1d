------------------------ MODULE StockAndOutboxProofs ------------------------
(***************************************************************************)
(* What is kept to be handed out once: the lines of a card stock, for any  *)
(* stock, uploads, sellers, requests and crashes (CardStock), and the      *)
(* messages of the outbox, for any processes, channels, events, attempts   *)
(* and disturbances (NotifyOutbox).                                        *)
(*                                                                         *)
(* The invariant of CardStock says where a line is by six predicates, of   *)
(* which one holds, and that the content an open card form was loaded with *)
(* holds no line twice.                                                    *)
(***************************************************************************)
EXTENDS CardStock, NotifyOutbox, FiniteSetTheorems, TLAPS

(* CardStock. *)

\* Line l stands in sequence q at most once.
OnceIn(q, l) == \A i, j \in 1 .. Len(q) : q[i] = l /\ q[j] = l => i = j

-----------------------------------------------------------------------------
(* Sequences of lines. *)

LEMMA ElementsOf == ASSUME NEW q, NEW l PROVE l \in Elements(q) <=> \E i \in 1 .. Len(q) : q[i] = l
BY DEF Elements

\* Taking the first line away.
LEMMA TakeFirst ==
    ASSUME NEW L, NEW q \in Seq(L), q # <<>>
    PROVE  /\ Tail(q) \in Seq(L) /\ Head(q) \in L /\ Head(q) \in Elements(q)
           /\ \A l : OnceIn(q, l) => OnceIn(Tail(q), l) /\ (l \in Elements(Tail(q)) <=> l \in Elements(q) /\ l # Head(q))
<1>1. /\ Tail(q) \in Seq(L) /\ Head(q) = q[1] /\ Len(q) \in Nat /\ Len(q) > 0
      /\ Len(Tail(q)) = Len(q) - 1 /\ \A i \in 1 .. Len(q) - 1 : Tail(q)[i] = q[i + 1]
  OBVIOUS
<1>2. 1 \in 1 .. Len(q) /\ Head(q) \in L /\ Head(q) \in Elements(q) BY <1>1, ElementsOf
<1>3. ASSUME NEW l, OnceIn(q, l) PROVE OnceIn(Tail(q), l) /\ (l \in Elements(Tail(q)) <=> l \in Elements(q) /\ l # Head(q))
  <2>1. OnceIn(Tail(q), l)
    <3> SUFFICES ASSUME NEW i \in 1 .. Len(Tail(q)), NEW j \in 1 .. Len(Tail(q)), Tail(q)[i] = l, Tail(q)[j] = l
                 PROVE  i = j
      BY DEF OnceIn
    <3>1. q[i + 1] = l /\ q[j + 1] = l /\ i + 1 \in 1 .. Len(q) /\ j + 1 \in 1 .. Len(q) BY <1>1
    <3>2. i + 1 = j + 1 BY <1>3, <3>1 DEF OnceIn
    <3>3. QED BY <3>2
  <2>2. l \in Elements(Tail(q)) => l \in Elements(q) /\ l # Head(q)
    <3> SUFFICES ASSUME NEW i \in 1 .. Len(Tail(q)), Tail(q)[i] = l PROVE l \in Elements(q) /\ l # Head(q)
      BY ElementsOf
    <3>1. q[i + 1] = l /\ i + 1 \in 1 .. Len(q) /\ i + 1 # 1 BY <1>1
    <3>2. q[1] # l BY <1>2, <1>3, <3>1 DEF OnceIn
    <3>3. QED BY <1>1, <3>1, <3>2, ElementsOf
  <2>3. l \in Elements(q) /\ l # Head(q) => l \in Elements(Tail(q))
    <3> SUFFICES ASSUME NEW i \in 1 .. Len(q), q[i] = l, l # q[1] PROVE l \in Elements(Tail(q))
      BY <1>1, ElementsOf
    <3>1. i - 1 \in 1 .. Len(Tail(q)) /\ Tail(q)[i - 1] = l
      <4>1. i # 1 OBVIOUS
      <4>2. i - 1 \in 1 .. Len(q) - 1 /\ (i - 1) + 1 = i BY <1>1, <4>1
      <4>3. QED BY <1>1, <4>2
    <3>2. QED BY <3>1, ElementsOf
  <2>4. QED BY <2>1, <2>2, <2>3
<1>4. QED BY <1>1, <1>2, <1>3

\* Putting lines in front or behind.
LEMMA Joined ==
    ASSUME NEW L, NEW p \in Seq(L), NEW q \in Seq(L)
    PROVE  /\ p \o q \in Seq(L)
           /\ \A l : l \in Elements(p \o q) <=> l \in Elements(p) \/ l \in Elements(q)
           /\ \A l : OnceIn(p, l) /\ OnceIn(q, l) /\ ~(l \in Elements(p) /\ l \in Elements(q)) => OnceIn(p \o q, l)
<1> DEFINE r == p \o q
<1>1. /\ r \in Seq(L) /\ Len(p) \in Nat /\ Len(q) \in Nat /\ Len(r) = Len(p) + Len(q)
      /\ \A i \in 1 .. Len(r) : r[i] = IF i <= Len(p) THEN p[i] ELSE q[i - Len(p)]
  OBVIOUS
<1> HIDE DEF r
<1>2. ASSUME NEW l, NEW i \in 1 .. Len(r), r[i] = l
      PROVE  \/ i <= Len(p) /\ i \in 1 .. Len(p) /\ p[i] = l
             \/ i > Len(p) /\ i - Len(p) \in 1 .. Len(q) /\ q[i - Len(p)] = l
  BY <1>1, <1>2
<1>3. ASSUME NEW l PROVE l \in Elements(r) <=> l \in Elements(p) \/ l \in Elements(q)
  <2>1. l \in Elements(r) => l \in Elements(p) \/ l \in Elements(q) BY <1>2, ElementsOf
  <2>2. ASSUME NEW i \in 1 .. Len(p), p[i] = l PROVE l \in Elements(r)
    <3>1. i \in 1 .. Len(r) /\ r[i] = l BY <1>1, <2>2
    <3>2. QED BY <3>1, ElementsOf
  <2>3. ASSUME NEW i \in 1 .. Len(q), q[i] = l PROVE l \in Elements(r)
    <3>1. i + Len(p) \in 1 .. Len(r) /\ ~(i + Len(p) <= Len(p)) /\ (i + Len(p)) - Len(p) = i BY <1>1
    <3>2. r[i + Len(p)] = l BY <1>1, <2>3, <3>1
    <3>3. QED BY <3>1, <3>2, ElementsOf
  <2>4. QED BY <2>1, <2>2, <2>3, ElementsOf
<1>4. ASSUME NEW l, OnceIn(p, l), OnceIn(q, l), ~(l \in Elements(p) /\ l \in Elements(q)) PROVE OnceIn(r, l)
  <2> SUFFICES ASSUME NEW i \in 1 .. Len(r), NEW j \in 1 .. Len(r), r[i] = l, r[j] = l PROVE i = j BY DEF OnceIn
  <2>1. CASE i <= Len(p) /\ j <= Len(p) BY <1>2, <1>4, <2>1 DEF OnceIn
  <2>2. CASE i > Len(p) /\ j > Len(p)
    <3>1. /\ i - Len(p) \in 1 .. Len(q) /\ q[i - Len(p)] = l
          /\ j - Len(p) \in 1 .. Len(q) /\ q[j - Len(p)] = l
      BY <1>1, <1>2, <2>2
    <3>2. i - Len(p) = j - Len(p) BY <1>4, <3>1 DEF OnceIn
    <3>3. QED BY <1>1, <3>2
  <2>3. CASE (i <= Len(p) /\ j > Len(p)) \/ (i > Len(p) /\ j <= Len(p))
    <3>1. ASSUME NEW k \in 1 .. Len(r), r[k] = l PROVE (k <= Len(p) => l \in Elements(p)) /\ (k > Len(p) => l \in Elements(q))
      BY <1>1, <1>2, <3>1, ElementsOf
    <3>2. QED BY <1>4, <2>3, <3>1
  <2>4. QED BY <1>1, <2>1, <2>2, <2>3
<1>5. QED BY <1>1, <1>3, <1>4 DEF r

LEMMA OneLine == ASSUME NEW x PROVE Elements(<<x>>) = {x} /\ \A l : OnceIn(<<x>>, l)
BY DEF Elements, OnceIn

-----------------------------------------------------------------------------
(* Where a line is. *)

Kinds == {"stock", "seller", "request", "upload", "buyer", "review"}

WithSeller(l, s)  == seller[s].line = l
WithRequest(l, r) == l \in Elements(request[r].upload)
InUpload(l, i)    == l \in Elements(uploads[i])

Found(l) == {k \in Kinds : \/ k = "stock"   /\ l \in Elements(stock)
                           \/ k = "seller"  /\ \E s \in Sellers : WithSeller(l, s)
                           \/ k = "request" /\ \E r \in Requests : WithRequest(l, r)
                           \/ k = "upload"  /\ \E i \in 1 .. Len(uploads) : InUpload(l, i)
                           \/ k = "buyer"   /\ handed[l] > 0
                           \/ k = "review"  /\ l \in parked}

LEMMA FoundIs ==
    ASSUME NEW l
    PROVE  /\ "stock" \in Found(l) <=> l \in Elements(stock)
           /\ "seller" \in Found(l) <=> \E s \in Sellers : WithSeller(l, s)
           /\ "request" \in Found(l) <=> \E r \in Requests : WithRequest(l, r)
           /\ "upload" \in Found(l) <=> \E i \in 1 .. Len(uploads) : InUpload(l, i)
           /\ "buyer" \in Found(l) <=> handed[l] > 0
           /\ "review" \in Found(l) <=> l \in parked
BY DEF Found, Kinds

\* At each kind of place it is there once.
Single(l) == /\ OnceIn(stock, l)
             /\ \A s, t \in Sellers : WithSeller(l, s) /\ WithSeller(l, t) => s = t
             /\ \A r, t \in Requests : WithRequest(l, r) /\ WithRequest(l, t) => r = t
             /\ \A i, j \in 1 .. Len(uploads) : InUpload(l, i) /\ InUpload(l, j) => i = j
             /\ handed[l] <= 1

Kept(l) == Single(l) /\ \E k \in Kinds : Found(l) = {k}

\* Who has no line, who read a stock to take from, which requests carry an upload.
Hands == /\ \A s \in Sellers : /\ seller[s].line = NoLine <=> seller[s].pc \in {"idle", "take", "taking"}
                               /\ seller[s].pc = "taking" => seller[s].snap # <<>>
         /\ \A r \in Requests : request[r].pc \in {"idle", "form"} => request[r].upload = <<>>
FormsOnce == \A r \in Requests : request[r].pc = "form" => \A l \in Lines \ reverted : OnceIn(request[r].snap, l)
EachKept  == \A l \in Lines \ reverted : Kept(l)

StockInv == TypeOK /\ Hands /\ FormsOnce /\ EachKept

\* The invariant says what OnePlace says.
LEMMA KeptIsOnePlace == ASSUME TypeOK, NEW l \in Lines, Kept(l) PROVE \E p \in Places(l) : Places(l) = {p}
<1>1. Single(l) /\ handed[l] \in Nat BY DEF Kept, TypeOK
<1>2. PICK k \in Kinds : Found(l) = {k} BY DEF Kept
<1> DEFINE A == {i \in 1 .. Len(stock) : stock[i] = l}
           B == {s \in Sellers : seller[s].line = l}
           C == {r \in Requests : l \in Elements(request[r].upload)}
           D == {i \in 1 .. Len(uploads) : l \in Elements(uploads[i])}
           E == 1 .. handed[l]
           F == {l} \cap parked
<1>3. Places(l) = [in : {"stock"}, at : A] \cup [in : {"seller"}, at : B] \cup [in : {"request"}, at : C]
                  \cup [in : {"upload"}, at : D] \cup [in : {"buyer"}, at : E] \cup [in : {"review"}, at : F]
  BY DEF Places
<1>4. /\ A # {} <=> "stock" \in Found(l)
      /\ B # {} <=> "seller" \in Found(l)
      /\ C # {} <=> "request" \in Found(l)
      /\ D # {} <=> "upload" \in Found(l)
      /\ E # {} <=> "buyer" \in Found(l)
      /\ F # {} <=> "review" \in Found(l)
  <2>1. A # {} <=> l \in Elements(stock) BY ElementsOf
  <2>2. E # {} <=> handed[l] > 0 BY <1>1
  <2>3. QED BY <2>1, <2>2 DEF Found, Kinds, WithSeller, WithRequest, InUpload
<1>5. /\ \A x, y \in A : x = y
      /\ \A x, y \in B : x = y
      /\ \A x, y \in C : x = y
      /\ \A x, y \in D : x = y
      /\ \A x, y \in E : x = y
      /\ \A x, y \in F : x = y
  BY <1>1 DEF Single, OnceIn, WithSeller, WithRequest, InUpload
<1> HIDE DEF A, B, C, D, E, F
<1>6. ASSUME NEW X, NEW n, X # {}, \A x, y \in X : x = y, Places(l) = [in : {n}, at : X]
      PROVE  \E p \in Places(l) : Places(l) = {p}
  <2>1. PICK x : x \in X /\ X = {x} BY <1>6
  <2> DEFINE p == [in |-> n, at |-> x]
  <2>2. p \in Places(l) BY <1>6, <2>1
  <2>3. \A q \in Places(l) : q = p BY <1>6, <2>1
  <2>4. QED BY <2>2, <2>3
<1>7. ASSUME NEW X, NEW n, X = {} PROVE [in : {n}, at : X] = {}
  BY <1>7
<1>8. CASE k = "stock"
  <2>1. A # {} /\ B = {} /\ C = {} /\ D = {} /\ E = {} /\ F = {} BY <1>2, <1>4, <1>8
  <2>2. Places(l) = [in : {"stock"}, at : A] BY <1>3, <1>7, <2>1
  <2>3. QED BY <1>5, <1>6, <2>1, <2>2
<1>9. CASE k = "seller"
  <2>1. A = {} /\ B # {} /\ C = {} /\ D = {} /\ E = {} /\ F = {} BY <1>2, <1>4, <1>9
  <2>2. Places(l) = [in : {"seller"}, at : B] BY <1>3, <1>7, <2>1
  <2>3. QED BY <1>5, <1>6, <2>1, <2>2
<1>10. CASE k = "request"
  <2>1. A = {} /\ B = {} /\ C # {} /\ D = {} /\ E = {} /\ F = {} BY <1>2, <1>4, <1>10
  <2>2. Places(l) = [in : {"request"}, at : C] BY <1>3, <1>7, <2>1
  <2>3. QED BY <1>5, <1>6, <2>1, <2>2
<1>11. CASE k = "upload"
  <2>1. A = {} /\ B = {} /\ C = {} /\ D # {} /\ E = {} /\ F = {} BY <1>2, <1>4, <1>11
  <2>2. Places(l) = [in : {"upload"}, at : D] BY <1>3, <1>7, <2>1
  <2>3. QED BY <1>5, <1>6, <2>1, <2>2
<1>12. CASE k = "buyer"
  <2>1. A = {} /\ B = {} /\ C = {} /\ D = {} /\ E # {} /\ F = {} BY <1>2, <1>4, <1>12
  <2>2. Places(l) = [in : {"buyer"}, at : E] BY <1>3, <1>7, <2>1
  <2>3. QED BY <1>5, <1>6, <2>1, <2>2
<1>13. CASE k = "review"
  <2>1. A = {} /\ B = {} /\ C = {} /\ D = {} /\ E = {} /\ F # {} BY <1>2, <1>4, <1>13
  <2>2. Places(l) = [in : {"review"}, at : F] BY <1>3, <1>7, <2>1
  <2>3. QED BY <1>5, <1>6, <2>1, <2>2
<1>14. QED BY <1>8, <1>9, <1>10, <1>11, <1>12, <1>13 DEF Kinds

-----------------------------------------------------------------------------
(* Steps that leave every line where it is. *)

HandsOf(t) == /\ t.line = NoLine <=> t.pc \in {"idle", "take", "taking"}
              /\ t.pc = "taking" => t.snap # <<>>

LEMMA SameKept ==
    ASSUME NEW l, Kept(l), UNCHANGED <<stock, uploads, handed, parked>>,
           \A s \in Sellers : seller'[s].line = seller[s].line,
           \A r \in Requests : request'[r].upload = request[r].upload
    PROVE  Kept(l)'
<1>1. /\ \A s \in Sellers : WithSeller(l, s)' <=> WithSeller(l, s)
      /\ \A r \in Requests : WithRequest(l, r)' <=> WithRequest(l, r)
      /\ \A i \in 1 .. Len(uploads) : InUpload(l, i)' <=> InUpload(l, i)
  BY DEF WithSeller, WithRequest, InUpload
<1>2. Found(l)' = Found(l) BY <1>1 DEF Found
<1>3. Single(l)' BY <1>1 DEF Single, OnceIn, Kept
<1>4. QED BY <1>2, <1>3 DEF Kept

\* A line that goes from one kind of place to another.
LEMMA MovedKept ==
    ASSUME NEW l, Kept(l), Single(l)', NEW j \in Found(l), NEW k \in Kinds, Found(l)' = (Found(l) \ {j}) \cup {k}
    PROVE  Kept(l)'
BY DEF Kept

LEMMA SellerStep ==
    ASSUME StockInv, NEW s \in Sellers, NEW t \in Seller, HandsOf(t), seller' = [seller EXCEPT ![s] = t],
           UNCHANGED <<request, uploads, reverted>>, lock' \in Sellers \cup {"free"}, orders' \in Nat, crashes' \in Nat,
           stock' \in Seq(Lines), handed' \in [Lines -> Nat], parked' \subseteq Lines,
           \A l \in Lines \ reverted : Kept(l)'
    PROVE  StockInv'
<1>1. TypeOK' BY DEF StockInv, TypeOK
<1>2. Hands' BY DEF StockInv, TypeOK, Hands, HandsOf
<1>3. FormsOnce' /\ EachKept' BY DEF StockInv, FormsOnce, EachKept
<1>4. QED BY <1>1, <1>2, <1>3 DEF StockInv

LEMMA SellerStays ==
    ASSUME StockInv, NEW s \in Sellers, NEW t \in Seller, HandsOf(t), seller' = [seller EXCEPT ![s] = t],
           t.line = seller[s].line, UNCHANGED <<stock, request, uploads, handed, reverted, parked>>,
           lock' \in Sellers \cup {"free"}, orders' \in Nat, crashes' \in Nat
    PROVE  StockInv'
<1>1. \A v \in Sellers : seller'[v].line = seller[v].line BY DEF StockInv, TypeOK
<1>2. \A l \in Lines \ reverted : Kept(l)' BY <1>1, SameKept DEF StockInv, EachKept
<1>3. QED BY <1>2, SellerStep DEF StockInv, TypeOK

LEMMA RequestStep ==
    ASSUME StockInv, NEW r \in Requests, NEW q \in Request, request' = [request EXCEPT ![r] = q],
           q.pc \in {"idle", "form"} => q.upload = <<>>,
           UNCHANGED <<lock, seller, handed, parked, orders, crashes>>,
           stock' \in Seq(Lines), uploads' \in Seq(Uploads), reverted \subseteq reverted', reverted' \subseteq Lines,
           q.pc = "form" => \A l \in Lines \ reverted' : OnceIn(q.snap, l),
           \A l \in Lines \ reverted' : Kept(l)'
    PROVE  StockInv'
<1>1. TypeOK' BY DEF StockInv, TypeOK
<1>2. Hands' BY DEF StockInv, TypeOK, Hands
<1>3. \A v \in Requests : request'[v] = IF v = r THEN q ELSE request[v] BY DEF StockInv, TypeOK
<1>4. FormsOnce' BY <1>3 DEF StockInv, FormsOnce
<1>5. EachKept' BY DEF EachKept
<1>6. QED BY <1>1, <1>2, <1>4, <1>5 DEF StockInv

LEMMA RequestStays ==
    ASSUME StockInv, NEW r \in Requests, NEW q \in Request, request' = [request EXCEPT ![r] = q],
           q.pc \in {"idle", "form"} => q.upload = <<>>, q.upload = request[r].upload,
           q.pc = "form" => \A l \in Lines \ reverted : OnceIn(q.snap, l),
           UNCHANGED <<stock, lock, seller, uploads, handed, reverted, parked, orders, crashes>>
    PROVE  StockInv'
<1>1. \A v \in Requests : request'[v].upload = request[v].upload BY DEF StockInv, TypeOK
<1>2. \A l \in Lines \ reverted' : Kept(l)' BY <1>1, SameKept DEF StockInv, EachKept
<1>3. QED BY <1>2, RequestStep DEF StockInv, TypeOK

LEMMA IdleSellerType == IdleSeller \in Seller /\ HandsOf(IdleSeller) /\ IdleSeller.line = NoLine
<1>1. <<>> \in Seq(Lines) OBVIOUS
<1>2. QED BY <1>1 DEF IdleSeller, Seller, HandsOf

LEMMA IdleRequestType == IdleRequest \in Request /\ IdleRequest.pc = "idle" /\ IdleRequest.upload = <<>>
<1>1. <<>> \in Seq(Lines) OBVIOUS
<1>2. QED BY <1>1 DEF IdleRequest, Request

\* Sellers on their way.
LEMMA SellerWalks ==
    ASSUME StockInv, NEW s \in Sellers,
           \/ StartOrder(s) \/ ReadToTake(s) \/ (Take(s) /\ stock # seller[s].snap) \/ StartRestore(s)
           \/ (Restore(s) /\ stock # seller[s].snap)
    PROVE  StockInv'
<1>1. /\ TypeOK /\ seller[s] \in Seller /\ stock \in Seq(Lines)
      /\ lock \in Sellers \cup {"free"} /\ orders \in Nat /\ crashes \in Nat /\ HandsOf(seller[s])
  BY DEF StockInv, TypeOK, Hands, HandsOf
<1>2. CASE StartOrder(s)
  <2> DEFINE t == [IdleSeller EXCEPT !.pc = "take"]
  <2>1. t \in Seller /\ HandsOf(t) /\ t.line = NoLine BY IdleSellerType DEF Seller, HandsOf, IdleSeller
  <2>2. seller[s].line = NoLine BY <1>1, <1>2 DEF HandsOf, StartOrder
  <2>3. seller' = [seller EXCEPT ![s] = t] /\ lock' = s /\ orders' = orders + 1 BY <1>2 DEF StartOrder
  <2> HIDE DEF t
  <2>4. lock' \in Sellers \cup {"free"} /\ orders' \in Nat /\ crashes' \in Nat /\ t.line = seller[s].line
        /\ UNCHANGED <<stock, request, uploads, handed, reverted, parked>>
    BY <1>1, <1>2, <2>1, <2>2, <2>3 DEF StartOrder
  <2>5. QED BY <2>1, <2>3, <2>4, SellerStays
<1>3. CASE ReadToTake(s)
  <2>1. CASE stock = <<>> \/ seller[s].tries = MaxTries
    BY <1>1, <1>3, <2>1, IdleSellerType, SellerStays DEF ReadToTake, Outside, HandsOf
  <2>2. CASE ~(stock = <<>> \/ seller[s].tries = MaxTries)
    <3> DEFINE t == [seller[s] EXCEPT !.pc = "taking", !.snap = stock]
    <3>1. t \in Seller /\ HandsOf(t) /\ t.line = seller[s].line BY <1>1, <1>3, <2>2 DEF Seller, HandsOf, ReadToTake
    <3>2. seller' = [seller EXCEPT ![s] = t] /\ lock' = lock BY <1>1, <1>3, <2>2 DEF ReadToTake, TypeOK, Seller
    <3> HIDE DEF t
    <3>3. QED BY <1>1, <1>3, <3>1, <3>2, SellerStays DEF ReadToTake, Outside
  <2>3. QED BY <2>1, <2>2
<1>4. CASE Take(s) /\ stock # seller[s].snap
  <2> DEFINE t == [seller[s] EXCEPT !.pc = "take", !.tries = seller[s].tries + 1]
  <2> seller[s].tries + 1 \in Nat BY <1>1 DEF Seller
  <2>1. t \in Seller /\ HandsOf(t) /\ t.line = seller[s].line BY <1>1, <1>4 DEF Seller, HandsOf, Take
  <2>2. seller' = [seller EXCEPT ![s] = t] BY <1>1, <1>4 DEF Take, TypeOK, Seller
  <2> HIDE DEF t
  <2>3. QED BY <1>1, <1>4, <2>1, <2>2, SellerStays DEF Take, Outside
<1>5. CASE StartRestore(s)
  <2> DEFINE t == [seller[s] EXCEPT !.pc = "restore"]
  <2>1. t \in Seller /\ HandsOf(t) /\ t.line = seller[s].line BY <1>1, <1>5 DEF Seller, HandsOf, StartRestore
  <2>2. seller' = [seller EXCEPT ![s] = t] /\ lock' = s BY <1>1, <1>5 DEF StartRestore, TypeOK, Seller
  <2> HIDE DEF t
  <2>3. QED BY <1>1, <1>5, <2>1, <2>2, SellerStays DEF StartRestore, Outside
<1>6. CASE Restore(s) /\ stock # seller[s].snap
  <2> DEFINE t == [seller[s] EXCEPT !.pc = "restore", !.tries = seller[s].tries + 1]
  <2> seller[s].tries + 1 \in Nat BY <1>1 DEF Seller
  <2>1. t \in Seller /\ HandsOf(t) /\ t.line = seller[s].line BY <1>1, <1>6 DEF Seller, HandsOf, Restore
  <2>2. seller' = [seller EXCEPT ![s] = t] BY <1>1, <1>6 DEF Restore, TypeOK, Seller
  <2> HIDE DEF t
  <2>3. QED BY <1>1, <1>6, <2>1, <2>2, SellerStays DEF Restore, Outside
<1>7. QED BY <1>2, <1>3, <1>4, <1>5, <1>6

\* Requests on their way.
LEMMA RequestWalks ==
    ASSUME StockInv, NEW r \in Requests,
           ReadToAppend(r) \/ (WriteAppended(r) /\ stock # request[r].snap) \/ OpenForm(r)
    PROVE  StockInv'
<1>1. /\ TypeOK /\ request[r] \in Request /\ stock \in Seq(Lines)
      /\ request[r].pc \in {"idle", "form"} => request[r].upload = <<>>
  BY DEF StockInv, TypeOK, Hands
<1>2. CASE ReadToAppend(r) /\ request[r].tries = MaxTries
  <2> DEFINE q == [request[r] EXCEPT !.pc = "refused"]
  <2>1. q \in Request /\ q.pc = "refused" /\ q.upload = request[r].upload BY <1>1 DEF Request
  <2>2. request' = [request EXCEPT ![r] = q] BY <1>2 DEF ReadToAppend
  <2> HIDE DEF q
  <2>3. QED BY <1>2, <2>1, <2>2, RequestStays DEF ReadToAppend
<1>3. CASE ReadToAppend(r) /\ request[r].tries # MaxTries
  <2> DEFINE q == [request[r] EXCEPT !.pc = "appending", !.snap = stock]
  <2>1. q \in Request /\ q.pc = "appending" /\ q.upload = request[r].upload BY <1>1 DEF Request
  <2>2. request' = [request EXCEPT ![r] = q] BY <1>3 DEF ReadToAppend
  <2> HIDE DEF q
  <2>3. QED BY <1>3, <2>1, <2>2, RequestStays DEF ReadToAppend
<1>4. CASE WriteAppended(r) /\ stock # request[r].snap
  <2> DEFINE q == [request[r] EXCEPT !.pc = "append", !.tries = request[r].tries + 1]
  <2> request[r].tries + 1 \in Nat BY <1>1 DEF Request
  <2>1. q \in Request /\ q.pc = "append" /\ q.upload = request[r].upload BY <1>1 DEF Request
  <2>2. request' = [request EXCEPT ![r] = q] BY <1>1, <1>4 DEF WriteAppended, TypeOK, Request
  <2> HIDE DEF q
  <2>3. QED BY <1>4, <2>1, <2>2, RequestStays DEF WriteAppended
<1>5. CASE OpenForm(r)
  <2> DEFINE q == [request[r] EXCEPT !.pc = "form", !.snap = stock]
  <2>1. q \in Request /\ q.pc = "form" /\ q.snap = stock /\ q.upload = request[r].upload /\ q.upload = <<>>
    BY <1>1, <1>5 DEF Request, OpenForm
  <2>2. request' = [request EXCEPT ![r] = q] BY <1>1, <1>5 DEF OpenForm, TypeOK, Request
  <2> HIDE DEF q
  <2>3. \A l \in Lines \ reverted : OnceIn(q.snap, l) BY <2>1 DEF StockInv, EachKept, Kept, Single
  <2>4. QED BY <1>5, <2>1, <2>2, <2>3, RequestStays DEF OpenForm
<1>6. QED BY <1>2, <1>3, <1>4, <1>5

-----------------------------------------------------------------------------
(* Steps that move a line. *)

\* Only seller s changes what it holds.
LEMMA OneSeller ==
    ASSUME TypeOK, NEW s \in Sellers, NEW t, seller' = [seller EXCEPT ![s] = t], NEW l
    PROVE  \A v \in Sellers : WithSeller(l, v)' <=> IF v = s THEN t.line = l ELSE WithSeller(l, v)
BY DEF TypeOK, WithSeller

LEMMA SameRequests ==
    ASSUME UNCHANGED <<request, uploads>>, NEW l
    PROVE  /\ \A r \in Requests : WithRequest(l, r)' <=> WithRequest(l, r)
           /\ \A i : InUpload(l, i)' <=> InUpload(l, i)
BY DEF WithRequest, InUpload

\* Lines are not the mark of an empty hand.
LEMMA LineIsSome == \A l \in Lines : l # NoLine
BY LinesAssumption

\* The first line of the stock goes to the seller.
LEMMA TakeMoves == ASSUME StockInv, NEW s \in Sellers, Take(s), stock = seller[s].snap PROVE StockInv'
<1> DEFINE x == Head(stock)
           t == [IdleSeller EXCEPT !.pc = "send", !.line = x]
<1>1. /\ TypeOK /\ seller[s] \in Seller /\ stock \in Seq(Lines) /\ seller[s].pc = "taking" /\ seller[s].line = NoLine
      /\ stock # <<>>
  BY DEF StockInv, TypeOK, Hands, Take
<1>2. /\ stock' = Tail(stock) /\ seller' = [seller EXCEPT ![s] = t] /\ lock' = "free"
      /\ UNCHANGED <<handed, parked, request, uploads, reverted, orders, crashes>>
  BY DEF Take, Outside
<1>3. /\ x \in Lines /\ x \in Elements(stock) /\ stock' \in Seq(Lines)
      /\ \A l : OnceIn(stock, l) => OnceIn(stock', l) /\ (l \in Elements(stock') <=> l \in Elements(stock) /\ l # x)
  BY <1>1, <1>2, TakeFirst
<1> HIDE DEF x
<1>4. t \in Seller /\ HandsOf(t) /\ t.line = x BY <1>3, LineIsSome, IdleSellerType DEF Seller, HandsOf, IdleSeller
<1> HIDE DEF t
<1>5. ASSUME NEW l \in Lines \ reverted PROVE Kept(l)'
  <2>1. Kept(l) /\ Single(l) /\ OnceIn(stock, l) BY DEF StockInv, EachKept, Kept, Single
  <2>2. \A v \in Sellers : WithSeller(l, v)' <=> IF v = s THEN x = l ELSE WithSeller(l, v) BY <1>1, <1>2, <1>4, OneSeller
  <2>3. ~WithSeller(l, s) BY <1>1, LineIsSome DEF WithSeller
  <2>4. /\ \A r \in Requests : WithRequest(l, r)' <=> WithRequest(l, r)
        /\ \A i : InUpload(l, i)' <=> InUpload(l, i)
    BY <1>2, SameRequests
  <2>5. CASE l # x
    <3>1. \A v \in Sellers : WithSeller(l, v)' <=> WithSeller(l, v) BY <2>2, <2>3, <2>5
    <3>2. Single(l)' BY <1>2, <1>3, <2>1, <2>4, <3>1 DEF Single
    <3>3. Found(l)' = Found(l) BY <1>2, <1>3, <2>1, <2>4, <2>5, <3>1 DEF Found
    <3>4. QED BY <2>1, <3>2, <3>3 DEF Kept
  <2>6. CASE l = x
    <3>1. "stock" \in Found(l) BY <1>3, <2>6 DEF Found, Kinds
    <3>2. \A v \in Sellers : ~WithSeller(l, v)
      <4>1. Found(l) = {"stock"} BY <2>1, <3>1 DEF Kept
      <4>2. "seller" \notin Found(l) BY <4>1
      <4>3. QED BY <4>2, FoundIs
    <3>3. \A v \in Sellers : WithSeller(l, v)' <=> v = s BY <2>2, <2>6, <3>2
    <3>4. Single(l)' BY <1>2, <1>3, <2>1, <2>4, <3>3 DEF Single
    <3>5. Found(l)' = (Found(l) \ {"stock"}) \cup {"seller"}
      BY <1>2, <1>3, <2>1, <2>4, <2>6, <3>2, <3>3 DEF Found, Kinds
    <3>6. QED BY <2>1, <3>1, <3>4, <3>5, MovedKept DEF Kinds
  <2>7. QED BY <2>5, <2>6
<1>6. QED BY <1>1, <1>2, <1>3, <1>4, <1>5, SellerStep DEF TypeOK

\* A seller that gives its line away, to buyer, review or stock.
LEMMA GiveMoves ==
    ASSUME StockInv, NEW s \in Sellers, NEW k \in {"buyer", "review", "stock"}, seller[s].line # NoLine,
           seller' = [seller EXCEPT ![s] = IdleSeller], UNCHANGED <<request, uploads, reverted, orders, crashes>>,
           lock' \in Sellers \cup {"free"},
           stock'  = IF k = "stock" THEN <<seller[s].line>> \o stock ELSE stock,
           handed' = IF k = "buyer" THEN [handed EXCEPT ![seller[s].line] = handed[seller[s].line] + 1] ELSE handed,
           parked' = IF k = "review" THEN parked \cup {seller[s].line} ELSE parked
    PROVE  StockInv'
<1> DEFINE x == seller[s].line
<1>1. /\ TypeOK /\ seller[s] \in Seller /\ stock \in Seq(Lines) /\ x \in Lines /\ handed \in [Lines -> Nat]
      /\ <<x>> \in Seq(Lines) /\ parked \subseteq Lines
  BY DEF StockInv, TypeOK, Seller
<1>2. stock' \in Seq(Lines) /\ handed' \in [Lines -> Nat] /\ parked' \subseteq Lines
  <2>1. <<x>> \o stock \in Seq(Lines) BY <1>1, Joined
  <2>2. handed[x] + 1 \in Nat BY <1>1
  <2>3. QED BY <1>1, <2>1, <2>2
<1>3. ASSUME NEW l \in Lines \ reverted PROVE Kept(l)'
  <2>1. Kept(l) /\ Single(l) BY DEF StockInv, EachKept, Kept
  <2>2. \A v \in Sellers : WithSeller(l, v)' <=> v # s /\ WithSeller(l, v)
    <3>1. \A v \in Sellers : WithSeller(l, v)' <=> IF v = s THEN IdleSeller.line = l ELSE WithSeller(l, v) BY <1>1, OneSeller
    <3>2. QED BY <3>1, IdleSellerType, LineIsSome
  <2>3. /\ \A r \in Requests : WithRequest(l, r)' <=> WithRequest(l, r)
        /\ \A i : InUpload(l, i)' <=> InUpload(l, i)
    BY SameRequests
  <2>4. /\ l \in Elements(stock') <=> l \in Elements(stock) \/ (k = "stock" /\ l = x)
        /\ OnceIn(stock, l) /\ ~(k = "stock" /\ l = x /\ l \in Elements(stock)) => OnceIn(stock', l)
    <3>1. CASE k = "stock"
      <4>1. Elements(<<x>>) = {x} /\ OnceIn(<<x>>, l) BY OneLine
      <4>2. stock' = <<x>> \o stock BY <3>1
      <4>3. /\ l \in Elements(<<x>> \o stock) <=> l \in Elements(<<x>>) \/ l \in Elements(stock)
            /\ OnceIn(<<x>>, l) /\ OnceIn(stock, l) /\ ~(l \in Elements(<<x>>) /\ l \in Elements(stock))
                 => OnceIn(<<x>> \o stock, l)
        BY <1>1, Joined
      <4>4. l \in Elements(<<x>>) <=> l = x BY <4>1
      <4>5. l \in Elements(stock') <=> l \in Elements(stock) \/ (k = "stock" /\ l = x) BY <3>1, <4>2, <4>3, <4>4
      <4>6. OnceIn(stock, l) /\ ~(k = "stock" /\ l = x /\ l \in Elements(stock)) => OnceIn(stock', l)
        BY <3>1, <4>1, <4>2, <4>3, <4>4
      <4>7. QED BY <4>5, <4>6
    <3>2. CASE k # "stock"
      <4>1. stock' = stock BY <3>2
      <4>2. QED BY <3>2, <4>1
    <3>3. QED BY <3>1, <3>2
  <2>5. handed'[l] = (IF k = "buyer" /\ l = x THEN handed[l] + 1 ELSE handed[l]) /\ handed[l] \in Nat BY <1>1
  <2>6. l \in parked' <=> l \in parked \/ (k = "review" /\ l = x) OBVIOUS
  <2>7. CASE l # x
    <3>1. \A v \in Sellers : WithSeller(l, v)' <=> WithSeller(l, v) BY <2>2, <2>7 DEF WithSeller
    <3>2. Single(l)' BY <2>1, <2>3, <2>4, <2>5, <2>7, <3>1 DEF Single
    <3>3. Found(l)' = Found(l) BY <2>3, <2>4, <2>5, <2>6, <2>7, <3>1 DEF Found
    <3>4. QED BY <2>1, <3>2, <3>3 DEF Kept
  <2>8. CASE l = x
    <3>1. WithSeller(l, s) /\ "seller" \in Found(l) BY <2>8 DEF WithSeller, Found, Kinds
    <3>2. Found(l) = {"seller"} BY <2>1, <3>1 DEF Kept
    <3>3. \A v \in Sellers : ~WithSeller(l, v)' BY <2>1, <2>2, <3>1 DEF Single
    <3>4. ~(l \in Elements(stock)) /\ ~(handed[l] > 0) /\ ~(l \in parked)
          /\ (\A r \in Requests : ~WithRequest(l, r)) /\ \A i \in 1 .. Len(uploads) : ~InUpload(l, i)
      <4>1. "stock" \notin Found(l) /\ "buyer" \notin Found(l) /\ "review" \notin Found(l)
            /\ "request" \notin Found(l) /\ "upload" \notin Found(l)
        BY <3>2
      <4>2. QED BY <4>1, FoundIs
    <3>5. Single(l)' BY <2>1, <2>3, <2>4, <2>5, <3>3, <3>4 DEF Single
    <3>6. Found(l)' = {k}
      <4>2. handed'[l] > 0 <=> k = "buyer" BY <2>5, <2>8, <3>4
      <4>3. l \in Elements(stock') <=> k = "stock" BY <2>4, <2>8, <3>4
      <4>4. l \in parked' <=> k = "review" BY <2>6, <2>8, <3>4
      <4>5. (\A r \in Requests : ~WithRequest(l, r)') /\ \A i \in 1 .. Len(uploads) : ~InUpload(l, i)' BY <2>3, <3>4
      <4>6. QED BY <3>3, <4>2, <4>3, <4>4, <4>5 DEF Found, Kinds
    <3>7. QED BY <3>5, <3>6 DEF Kept, Kinds
  <2>9. QED BY <2>7, <2>8
<1>4. IdleSeller \in Seller /\ HandsOf(IdleSeller) BY IdleSellerType
<1>5. orders' \in Nat /\ crashes' \in Nat BY <1>1 DEF TypeOK
<1>6. QED BY <1>2, <1>3, <1>4, <1>5, SellerStep

LEMMA SellerGives ==
    ASSUME StockInv, NEW s \in Sellers, Send(s) \/ ReadToRestore(s) \/ (Restore(s) /\ stock = seller[s].snap)
    PROVE  StockInv'
<1>1. /\ TypeOK /\ seller[s] \in Seller /\ stock \in Seq(Lines) /\ seller[s].line # NoLine
      /\ lock \in Sellers \cup {"free"} /\ orders \in Nat /\ crashes \in Nat /\ HandsOf(seller[s])
      /\ "free" \in Sellers \cup {"free"}
  BY DEF StockInv, TypeOK, Hands, HandsOf, Send, ReadToRestore, Restore
<1>2. "buyer" \in {"buyer", "review", "stock"} /\ "review" \in {"buyer", "review", "stock"} /\ "stock" \in {"buyer", "review", "stock"}
      /\ "buyer" # "review" /\ "buyer" # "stock" /\ "review" # "stock"
  OBVIOUS
<1>3. CASE Send(s) /\ handed' # handed
  <2>1. /\ handed' = [handed EXCEPT ![seller[s].line] = handed[seller[s].line] + 1]
        /\ seller' = [seller EXCEPT ![s] = IdleSeller] /\ UNCHANGED <<stock, lock, parked, request, uploads, reverted, orders, crashes>>
    BY <1>3 DEF Send, Outside
  <2> DEFINE k == "buyer"
  <2>2. k \in {"buyer", "review", "stock"} /\ k = "buyer" /\ k # "review" /\ k # "stock" OBVIOUS
  <2> HIDE DEF k
  <2>3. QED BY <1>1, <2>1, <2>2, GiveMoves
<1>4. CASE Send(s) /\ handed' = handed
  <2>1. CASE seller' = [seller EXCEPT ![s] = IdleSeller]
    <3>1. handed' = [handed EXCEPT ![seller[s].line] = handed[seller[s].line] + 1] \/ seller' = [seller EXCEPT ![s].pc = "unsent"]
      BY <1>4 DEF Send
    <3>2. handed' # [handed EXCEPT ![seller[s].line] = handed[seller[s].line] + 1]
      <4>1. seller[s].line \in Lines /\ handed \in [Lines -> Nat] BY <1>1 DEF TypeOK, Seller
      <4>2. handed[seller[s].line] # handed[seller[s].line] + 1 BY <4>1
      <4>3. QED BY <1>4, <4>1, <4>2
    <3>3. seller'[s].pc = "unsent" BY <1>1, <3>1, <3>2 DEF TypeOK, Seller
    <3>4. seller'[s].pc = "idle" BY <1>1, <2>1 DEF TypeOK, IdleSeller
    <3>5. QED BY <3>3, <3>4
  <2>2. CASE seller' = [seller EXCEPT ![s].pc = "unsent"]
    <3> DEFINE t == [seller[s] EXCEPT !.pc = "unsent"]
    <3>1. t \in Seller /\ HandsOf(t) /\ t.line = seller[s].line BY <1>1 DEF Seller, HandsOf
    <3>2. seller' = [seller EXCEPT ![s] = t] BY <2>2
    <3> HIDE DEF t
    <3>3. QED BY <1>1, <1>4, <3>1, <3>2, SellerStays DEF Send, Outside
  <2>3. QED BY <1>4, <2>1, <2>2 DEF Send
<1>5. CASE ReadToRestore(s) /\ seller[s].tries = MaxTries
  <2>1. /\ parked' = parked \cup {seller[s].line} /\ lock' = "free"
        /\ seller' = [seller EXCEPT ![s] = IdleSeller] /\ UNCHANGED <<stock, handed, request, uploads, reverted, orders, crashes>>
    BY <1>5 DEF ReadToRestore, Outside
  <2> DEFINE k == "review"
  <2>2. k \in {"buyer", "review", "stock"} /\ k # "buyer" /\ k = "review" /\ k # "stock" OBVIOUS
  <2> HIDE DEF k
  <2>3. QED BY <1>1, <2>1, <2>2, GiveMoves
<1>6. CASE ReadToRestore(s) /\ seller[s].tries # MaxTries
  <2> DEFINE t == [seller[s] EXCEPT !.pc = "restoring", !.snap = stock]
  <2>1. t \in Seller /\ HandsOf(t) /\ t.line = seller[s].line BY <1>1, <1>6 DEF Seller, HandsOf, ReadToRestore
  <2>2. seller' = [seller EXCEPT ![s] = t] BY <1>1, <1>6 DEF ReadToRestore, TypeOK, Seller
  <2> HIDE DEF t
  <2>3. QED BY <1>1, <1>6, <2>1, <2>2, SellerStays DEF ReadToRestore, Outside
<1>7. CASE Restore(s) /\ stock = seller[s].snap
  <2>1. /\ stock' = <<seller[s].line>> \o stock /\ lock' = "free"
        /\ seller' = [seller EXCEPT ![s] = IdleSeller] /\ UNCHANGED <<handed, parked, request, uploads, reverted, orders, crashes>>
    BY <1>7 DEF Restore, Outside
  <2> DEFINE k == "stock"
  <2>2. k \in {"buyer", "review", "stock"} /\ k # "buyer" /\ k # "review" /\ k = "stock" OBVIOUS
  <2> HIDE DEF k
  <2>3. QED BY <1>1, <2>1, <2>2, GiveMoves
<1>8. QED BY <1>3, <1>4, <1>5, <1>6, <1>7

\* Only request r changes what it carries.
LEMMA OneRequest ==
    ASSUME TypeOK, NEW r \in Requests, NEW q, request' = [request EXCEPT ![r] = q], NEW l
    PROVE  \A v \in Requests : WithRequest(l, v)' <=> IF v = r THEN l \in Elements(q.upload) ELSE WithRequest(l, v)
BY DEF TypeOK, WithRequest

LEMMA NothingInside == Elements(<<>>) = {}
BY DEF Elements

\* No line is in two uploads, nor twice in one.
LEMMA UploadsOnce ==
    ASSUME TypeOK, NEW u \in Uploads \cup {<<>>}
    PROVE  u \in Seq(Lines) /\ \A l : OnceIn(u, l)
<1>1. CASE u = <<>> BY <1>1 DEF OnceIn
<1>2. CASE u \in Uploads
  <2>1. u \in Seq(Elements(u)) /\ Distinct(u) BY <1>2, LinesAssumption, StockAssumption
  <2>2. Elements(u) \subseteq Lines BY <1>2 DEF Lines
  <2>3. u \in Seq(Lines)
    <3>1. Len(u) \in Nat /\ u = [i \in 1 .. Len(u) |-> u[i]] /\ \A i \in 1 .. Len(u) : u[i] \in Lines BY <2>1, <2>2
    <3>2. QED BY <3>1
  <2>4. QED BY <2>1, <2>3 DEF Distinct, OnceIn
<1>3. QED BY <1>1, <1>2

\* The first upload not yet requested goes to a request.
LEMMA StartAppendMoves == ASSUME StockInv, NEW r \in Requests, StartAppend(r) PROVE StockInv'
<1> DEFINE u == Head(uploads)
           q == [IdleRequest EXCEPT !.pc = "append", !.upload = u]
<1>1. TypeOK /\ uploads \in Seq(Uploads) /\ uploads # <<>> /\ request[r].upload = <<>>
  BY DEF StockInv, TypeOK, Hands, StartAppend
<1>2. /\ request' = [request EXCEPT ![r] = q] /\ uploads' = Tail(uploads)
      /\ UNCHANGED <<stock, lock, seller, handed, reverted, parked, orders, crashes>>
  BY DEF StartAppend
<1>3. /\ u \in Uploads /\ uploads' \in Seq(Uploads) /\ Len(uploads) \in Nat /\ Len(uploads') = Len(uploads) - 1
      /\ u = uploads[1] /\ 1 \in 1 .. Len(uploads)
      /\ \A i \in 1 .. Len(uploads') : uploads'[i] = uploads[i + 1] /\ i + 1 \in 1 .. Len(uploads) /\ i + 1 # 1
      /\ \A i \in 1 .. Len(uploads) : i # 1 => i - 1 \in 1 .. Len(uploads') /\ (i - 1) + 1 = i
  BY <1>1, <1>2
<1> HIDE DEF u
<1>4. q \in Request /\ q.pc = "append" /\ q.upload = u BY <1>3, IdleRequestType DEF Request, IdleRequest
<1> HIDE DEF q
<1>5. ASSUME NEW l \in Lines \ reverted' PROVE Kept(l)'
  <2>1. Kept(l) /\ Single(l) BY <1>2 DEF StockInv, EachKept, Kept
  <2>2. \A v \in Requests : WithRequest(l, v)' <=> IF v = r THEN l \in Elements(u) ELSE WithRequest(l, v)
    BY <1>1, <1>2, <1>4, OneRequest
  <2>3. ~WithRequest(l, r) BY <1>1, NothingInside DEF WithRequest
  <2>4. \A s \in Sellers : WithSeller(l, s)' <=> WithSeller(l, s) BY <1>2 DEF WithSeller
  <2>5. \A i \in 1 .. Len(uploads') : InUpload(l, i)' <=> InUpload(l, i + 1) BY <1>3 DEF InUpload
  <2>6. \A i, j \in 1 .. Len(uploads') : InUpload(l, i)' /\ InUpload(l, j)' => i = j
    <3> SUFFICES ASSUME NEW i \in 1 .. Len(uploads'), NEW j \in 1 .. Len(uploads'), InUpload(l, i)', InUpload(l, j)'
                 PROVE  i = j
      OBVIOUS
    <3>1. i + 1 = j + 1 BY <1>3, <2>1, <2>5 DEF Single
    <3>2. QED BY <3>1
  <2>7. OnceIn(stock, l)' <=> OnceIn(stock, l) BY <1>2 DEF OnceIn
  <2>8. CASE ~(l \in Elements(u))
    <3>1. \A v \in Requests : WithRequest(l, v)' <=> WithRequest(l, v) BY <2>2, <2>3, <2>8
    <3>2. (\E i \in 1 .. Len(uploads') : InUpload(l, i)') <=> \E i \in 1 .. Len(uploads) : InUpload(l, i)
      <4>1. ~InUpload(l, 1) BY <1>3, <2>8 DEF InUpload
      <4>2. ASSUME NEW i \in 1 .. Len(uploads), InUpload(l, i) PROVE \E j \in 1 .. Len(uploads') : InUpload(l, j)'
        <5>1. i # 1 BY <4>1, <4>2
        <5>2. i - 1 \in 1 .. Len(uploads') /\ (i - 1) + 1 = i BY <1>3, <5>1
        <5>3. InUpload(l, i - 1)' BY <2>5, <4>2, <5>2
        <5>4. QED BY <5>2, <5>3
      <4>3. QED BY <1>3, <2>5, <4>2
    <3>3. Single(l)' BY <1>2, <2>1, <2>4, <2>6, <2>7, <3>1 DEF Single
    <3>4. Found(l)' = Found(l) BY <1>2, <2>4, <3>1, <3>2 DEF Found
    <3>5. QED BY <2>1, <3>3, <3>4 DEF Kept
  <2>9. CASE l \in Elements(u)
    <3>1. InUpload(l, 1) BY <1>3, <2>9 DEF InUpload
    <3>2. "upload" \in Found(l) BY <1>3, <3>1, FoundIs
    <3>3. \A v \in Requests : ~WithRequest(l, v)
      <4>1. Found(l) = {"upload"} BY <2>1, <3>2 DEF Kept
      <4>2. "request" \notin Found(l) BY <4>1
      <4>3. QED BY <4>2, FoundIs
    <3>4. \A v \in Requests : WithRequest(l, v)' <=> v = r BY <2>2, <2>9, <3>3
    <3>5. \A i \in 1 .. Len(uploads') : ~InUpload(l, i)'
      <4> SUFFICES ASSUME NEW i \in 1 .. Len(uploads'), InUpload(l, i)' PROVE FALSE OBVIOUS
      <4>1. i + 1 = 1 BY <1>3, <2>1, <2>5, <3>1 DEF Single
      <4>2. QED BY <1>3, <4>1
    <3>6. Single(l)' BY <1>2, <2>1, <2>4, <2>6, <2>7, <3>4 DEF Single
    <3>7. Found(l)' = (Found(l) \ {"upload"}) \cup {"request"}
      BY <1>2, <2>4, <3>3, <3>4, <3>5 DEF Found, Kinds
    <3>8. QED BY <2>1, <3>2, <3>6, <3>7, MovedKept DEF Kinds
  <2>10. QED BY <2>8, <2>9
<1>6. QED BY <1>1, <1>2, <1>3, <1>4, <1>5, RequestStep DEF TypeOK

\* An upload joins the stock.
LEMMA AppendMoves == ASSUME StockInv, NEW r \in Requests, WriteAppended(r), stock = request[r].snap PROVE StockInv'
<1> DEFINE u == request[r].upload
<1>1. /\ TypeOK /\ stock \in Seq(Lines) /\ request[r] \in Request /\ u \in Uploads \cup {<<>>}
      /\ IdleRequest \in Request /\ IdleRequest.pc = "idle" /\ IdleRequest.upload = <<>>
  BY IdleRequestType DEF StockInv, TypeOK, Request
<1>2. /\ request' = [request EXCEPT ![r] = IdleRequest] /\ stock' = stock \o u
      /\ UNCHANGED <<lock, seller, uploads, handed, reverted, parked, orders, crashes>>
  BY DEF WriteAppended
<1>3. u \in Seq(Lines) /\ \A l : OnceIn(u, l) BY <1>1, UploadsOnce
<1>4. /\ stock' \in Seq(Lines)
      /\ \A l : l \in Elements(stock') <=> l \in Elements(stock) \/ l \in Elements(u)
      /\ \A l : OnceIn(stock, l) /\ ~(l \in Elements(stock) /\ l \in Elements(u)) => OnceIn(stock', l)
  BY <1>1, <1>2, <1>3, Joined
<1> HIDE DEF u
<1>5. ASSUME NEW l \in Lines \ reverted' PROVE Kept(l)'
  <2>1. Kept(l) /\ Single(l) BY <1>2 DEF StockInv, EachKept, Kept
  <2>2. \A v \in Requests : WithRequest(l, v)' <=> v # r /\ WithRequest(l, v)
    BY <1>1, <1>2, OneRequest, NothingInside
  <2>3. WithRequest(l, r) <=> l \in Elements(u) BY DEF WithRequest, u
  <2>4. /\ \A s \in Sellers : WithSeller(l, s)' <=> WithSeller(l, s)
        /\ \A i : InUpload(l, i)' <=> InUpload(l, i)
    BY <1>2 DEF WithSeller, InUpload
  <2>5. CASE ~(l \in Elements(u))
    <3>1. \A v \in Requests : WithRequest(l, v)' <=> WithRequest(l, v) BY <2>2, <2>3, <2>5
    <3>2. Single(l)' BY <1>2, <1>4, <2>1, <2>4, <2>5, <3>1 DEF Single
    <3>3. Found(l)' = Found(l) BY <1>2, <1>4, <2>4, <2>5, <3>1 DEF Found
    <3>4. QED BY <2>1, <3>2, <3>3 DEF Kept
  <2>6. CASE l \in Elements(u)
    <3>1. "request" \in Found(l) BY <2>3, <2>6, FoundIs
    <3>2. ~(l \in Elements(stock))
      <4>1. Found(l) = {"request"} BY <2>1, <3>1 DEF Kept
      <4>2. "stock" \notin Found(l) BY <4>1
      <4>3. QED BY <4>2, FoundIs
    <3>3. \A v \in Requests : ~WithRequest(l, v)' BY <2>1, <2>2, <2>3, <2>6 DEF Single
    <3>4. Single(l)' BY <1>2, <1>4, <2>1, <2>4, <3>2, <3>3 DEF Single
    <3>5. Found(l)' = (Found(l) \ {"request"}) \cup {"stock"}
      BY <1>2, <1>4, <2>4, <2>6, <3>3 DEF Found, Kinds
    <3>6. QED BY <2>1, <3>1, <3>4, <3>5, MovedKept DEF Kinds
  <2>7. QED BY <2>5, <2>6
<1>6. QED BY <1>1, <1>2, <1>4, <1>5, RequestStep DEF TypeOK

\* A saved form: what it changes is exempt from now on.
LEMMA SaveFormMoves == ASSUME StockInv, NEW r \in Requests, SaveForm(r) PROVE StockInv'
<1>1. /\ TypeOK /\ request[r] \in Request /\ request[r].pc = "form" /\ request[r].upload = <<>>
      /\ IdleRequest \in Request /\ IdleRequest.pc = "idle" /\ IdleRequest.upload = <<>>
      /\ reverted \subseteq Lines
  BY IdleRequestType DEF StockInv, TypeOK, Hands, SaveForm
<1>2. /\ request' = [request EXCEPT ![r] = IdleRequest] /\ stock' = request[r].snap
      /\ reverted' = reverted \cup {l \in Lines : (l \in Elements(stock)) # (l \in Elements(stock'))}
      /\ UNCHANGED <<lock, seller, uploads, handed, parked, orders, crashes>>
  BY DEF SaveForm
<1>3. stock' \in Seq(Lines) BY <1>1, <1>2 DEF Request
<1>4. ASSUME NEW l \in Lines \ reverted' PROVE Kept(l)'
  <2>1. l \in Lines \ reverted /\ (l \in Elements(stock') <=> l \in Elements(stock))
    <3>1. l \in Lines /\ l \notin reverted BY <1>2
    <3>2. ~((l \in Elements(stock)) # (l \in Elements(stock'))) BY <1>2
    <3>3. QED BY <3>1, <3>2
  <2>2. Kept(l) /\ Single(l) BY <2>1 DEF StockInv, EachKept, Kept
  <2>3. OnceIn(stock', l) BY <1>1, <1>2, <2>1 DEF StockInv, FormsOnce
  <2>4. \A v \in Requests : WithRequest(l, v)' <=> WithRequest(l, v)
    <3>1. \A v \in Requests : WithRequest(l, v)' <=> v # r /\ WithRequest(l, v) BY <1>1, <1>2, OneRequest, NothingInside
    <3>2. ~WithRequest(l, r) BY <1>1, NothingInside DEF WithRequest
    <3>3. QED BY <3>1, <3>2
  <2>5. /\ \A s \in Sellers : WithSeller(l, s)' <=> WithSeller(l, s)
        /\ \A i : InUpload(l, i)' <=> InUpload(l, i)
    BY <1>2 DEF WithSeller, InUpload
  <2>6. Single(l)' BY <1>2, <2>2, <2>3, <2>4, <2>5 DEF Single
  <2>7. Found(l)' = Found(l) BY <1>2, <2>1, <2>4, <2>5 DEF Found
  <2>8. QED BY <2>2, <2>6, <2>7 DEF Kept
<1>5. reverted \subseteq reverted' /\ reverted' \subseteq Lines BY <1>1, <1>2
<1>6. QED BY <1>1, <1>2, <1>3, <1>4, <1>5, RequestStep DEF TypeOK

\* A crash: what sellers held is in review.
LEMMA CrashMoves == ASSUME StockInv, Crash PROVE StockInv'
<1>1. /\ TypeOK /\ IdleSeller \in Seller /\ HandsOf(IdleSeller) /\ IdleSeller.line = NoLine
      /\ IdleRequest \in Request /\ IdleRequest.pc = "idle" /\ IdleRequest.upload = <<>>
  BY IdleSellerType, IdleRequestType DEF StockInv
<1>2. /\ seller' = [s \in Sellers |-> IdleSeller] /\ lock' = "free" /\ parked' = parked \cup Held
      /\ request' = [r \in Requests |-> IF request[r].upload # <<>>
                                        THEN [request[r] EXCEPT !.pc = "refused"] ELSE IdleRequest]
      /\ crashes' = crashes + 1 /\ UNCHANGED <<stock, uploads, handed, reverted, orders>>
  BY DEF Crash
<1>3. \A r \in Requests : /\ request'[r] \in Request /\ request'[r].upload = request[r].upload
                          /\ request'[r].pc # "form" /\ (request'[r].pc = "idle" => request'[r].upload = <<>>)
  <2> SUFFICES ASSUME NEW r \in Requests
               PROVE  /\ request'[r] \in Request /\ request'[r].upload = request[r].upload
                      /\ request'[r].pc # "form" /\ (request'[r].pc = "idle" => request'[r].upload = <<>>)
    OBVIOUS
  <2>1. request[r] \in Request BY <1>1 DEF TypeOK
  <2>2. CASE request[r].upload # <<>>
    <3>1. request'[r] = [request[r] EXCEPT !.pc = "refused"] BY <1>2, <2>2
    <3>2. QED BY <2>1, <3>1 DEF Request
  <2>3. CASE request[r].upload = <<>>
    <3>1. request'[r] = IdleRequest BY <1>2, <2>3
    <3>2. QED BY <1>1, <2>3, <3>1
  <2>4. QED BY <2>2, <2>3
<1>4. \A l : l \in Held <=> l # NoLine /\ \E s \in Sellers : WithSeller(l, s) BY DEF Held, WithSeller
<1>5. Held \subseteq Lines BY <1>1 DEF Held, TypeOK, Seller
<1>6. TypeOK'
  <2>1. request' \in [Requests -> Request] BY <1>2, <1>3
  <2>2. seller' \in [Sellers -> Seller] BY <1>1, <1>2
  <2>3. QED BY <1>1, <1>2, <1>5, <2>1, <2>2 DEF TypeOK
<1>7. Hands' /\ FormsOnce' BY <1>1, <1>2, <1>3 DEF Hands, HandsOf, FormsOnce
<1>8. ASSUME NEW l \in Lines \ reverted PROVE Kept(l)'
  <2>1. Kept(l) /\ Single(l) BY DEF StockInv, EachKept, Kept
  <2>2. \A s \in Sellers : ~WithSeller(l, s)' BY <1>1, <1>2, LineIsSome DEF WithSeller
  <2>3. /\ \A r \in Requests : WithRequest(l, r)' <=> WithRequest(l, r)
        /\ \A i : InUpload(l, i)' <=> InUpload(l, i)
    BY <1>2, <1>3 DEF WithRequest, InUpload
  <2>4. l \in parked' <=> l \in parked \/ \E s \in Sellers : WithSeller(l, s) BY <1>2, <1>4, LineIsSome
  <2>5. Single(l)' BY <1>2, <2>1, <2>2, <2>3 DEF Single
  <2>6. CASE ~\E s \in Sellers : WithSeller(l, s)
    <3>1. Found(l)' = Found(l) BY <1>2, <2>2, <2>3, <2>4, <2>6 DEF Found
    <3>2. QED BY <2>1, <2>5, <3>1 DEF Kept
  <2>7. CASE \E s \in Sellers : WithSeller(l, s)
    <3>1. "seller" \in Found(l) BY <2>7, FoundIs
    <3>2. Found(l)' = (Found(l) \ {"seller"}) \cup {"review"} BY <1>2, <2>2, <2>3, <2>4, <2>7 DEF Found, Kinds
    <3>3. QED BY <2>1, <2>5, <3>1, <3>2, MovedKept DEF Kinds
  <2>8. QED BY <2>6, <2>7
<1>9. EachKept' BY <1>2, <1>8 DEF EachKept
<1>10. QED BY <1>6, <1>7, <1>9 DEF StockInv

-----------------------------------------------------------------------------
(* The theorem. *)

LEMMA InitStock == Init => StockInv
<1> SUFFICES ASSUME Init PROVE StockInv OBVIOUS
<1>1. /\ stock = Initial /\ uploads = Fresh /\ parked = {} /\ reverted = {} /\ handed = [l \in Lines |-> 0]
      /\ \A s \in Sellers : seller[s] = IdleSeller
      /\ \A r \in Requests : request[r] = IdleRequest
      /\ IdleSeller \in Seller /\ HandsOf(IdleSeller) /\ IdleSeller.line = NoLine
      /\ IdleRequest \in Request /\ IdleRequest.pc = "idle" /\ IdleRequest.upload = <<>>
  BY IdleSellerType, IdleRequestType DEF Init
<1>2. stock \in Seq(Lines)
  <2>1. Initial \in Seq(Elements(Initial)) /\ Elements(Initial) \subseteq Lines BY LinesAssumption DEF Lines
  <2>2. Len(Initial) \in Nat /\ Initial = [i \in 1 .. Len(Initial) |-> Initial[i]] /\ \A i \in 1 .. Len(Initial) : Initial[i] \in Lines
    BY <2>1
  <2>3. QED BY <1>1, <2>2
<1>3. TypeOK
  <2>1. uploads \in Seq(Uploads) BY <1>1, LinesAssumption
  <2>2. QED BY <1>1, <1>2, <2>1 DEF Init, TypeOK
<1>4. Hands /\ FormsOnce BY <1>1 DEF Hands, HandsOf, FormsOnce
<1>5. ASSUME NEW l \in Lines PROVE Kept(l)
  <2>1. /\ \A s \in Sellers : ~WithSeller(l, s)
        /\ \A r \in Requests : ~WithRequest(l, r)
        /\ handed[l] = 0 /\ ~(l \in parked)
    BY <1>1, LineIsSome, NothingInside DEF WithSeller, WithRequest
  <2>2. OnceIn(stock, l) BY <1>1, StockAssumption DEF Distinct, OnceIn
  <2>3. \A i, j \in 1 .. Len(uploads) : InUpload(l, i) /\ InUpload(l, j) => i = j
    <3> SUFFICES ASSUME NEW i \in 1 .. Len(uploads), NEW j \in 1 .. Len(uploads), InUpload(l, i), InUpload(l, j)
                 PROVE  i = j
      OBVIOUS
    <3>1. Fresh[i] \in Uploads /\ Fresh[j] \in Uploads BY <1>1 DEF Uploads, Elements
    <3>2. l \in Elements(Fresh[i]) \cap Elements(Fresh[j]) BY <1>1 DEF InUpload
    <3>3. Fresh[i] = Fresh[j] BY <3>1, <3>2, StockAssumption
    <3>4. QED BY <1>1, <3>3, StockAssumption DEF Distinct
  <2>4. Single(l) BY <2>1, <2>2, <2>3 DEF Single
  <2>5. CASE l \in Elements(Initial)
    <3>1. \A i \in 1 .. Len(uploads) : ~InUpload(l, i)
      <4> SUFFICES ASSUME NEW i \in 1 .. Len(uploads), InUpload(l, i) PROVE FALSE OBVIOUS
      <4>1. Fresh[i] \in Uploads BY <1>1 DEF Uploads, Elements
      <4>2. QED BY <1>1, <2>5, <4>1, StockAssumption DEF InUpload
    <3>2. Found(l) = {"stock"} BY <1>1, <2>1, <2>5, <3>1 DEF Found, Kinds
    <3>3. QED BY <2>4, <3>2 DEF Kept, Kinds
  <2>6. CASE ~(l \in Elements(Initial))
    <3>1. PICK u \in Uploads : l \in Elements(u) BY <2>6 DEF Lines
    <3>2. PICK i \in 1 .. Len(uploads) : uploads[i] = u BY <1>1, <3>1 DEF Uploads, Elements
    <3>3. InUpload(l, i) BY <3>1, <3>2 DEF InUpload
    <3>4. Found(l) = {"upload"} BY <1>1, <2>1, <2>6, <3>3 DEF Found, Kinds
    <3>5. QED BY <2>4, <3>4 DEF Kept, Kinds
  <2>7. QED BY <2>5, <2>6
<1>6. EachKept BY <1>5 DEF EachKept
<1>7. QED BY <1>3, <1>4, <1>6 DEF StockInv

LEMMA NextStock == StockInv /\ [Next]_vars => StockInv'
<1> SUFFICES ASSUME StockInv, [Next]_vars PROVE StockInv' OBVIOUS
<1>1. CASE UNCHANGED vars
  <2>1. \A l \in Lines \ reverted : Kept(l)' BY <1>1, SameKept DEF vars, StockInv, EachKept
  <2>2. TypeOK' /\ Hands' /\ FormsOnce'
    <3>1. TypeOK' BY <1>1 DEF vars, StockInv, TypeOK
    <3>2. Hands' BY <1>1 DEF vars, StockInv, Hands
    <3>3. FormsOnce' BY <1>1 DEF vars, StockInv, FormsOnce
    <3>4. QED BY <3>1, <3>2, <3>3
  <2>3. EachKept' BY <1>1, <2>1 DEF vars, EachKept
  <2>4. QED BY <2>2, <2>3 DEF StockInv
<1>2. ASSUME NEW s \in Sellers,
             StartOrder(s) \/ ReadToTake(s) \/ Take(s) \/ Send(s) \/ StartRestore(s) \/ ReadToRestore(s) \/ Restore(s)
      PROVE  StockInv'
  BY <1>2, SellerWalks, TakeMoves, SellerGives
<1>3. ASSUME NEW r \in Appenders, StartAppend(r) \/ ReadToAppend(r) \/ WriteAppended(r) PROVE StockInv'
  <2>1. r \in Requests BY DEF Requests
  <2>2. QED BY <1>3, <2>1, StartAppendMoves, RequestWalks, AppendMoves
<1>4. ASSUME NEW r \in Editors, OpenForm(r) \/ SaveForm(r) PROVE StockInv'
  <2>1. r \in Requests BY DEF Requests
  <2>2. QED BY <1>4, <2>1, RequestWalks, SaveFormMoves
<1>5. CASE Crash BY <1>5, CrashMoves
<1>6. QED BY <1>1, <1>2, <1>3, <1>4, <1>5 DEF Next

\* Whatever consuming, restoring, uploading, saved forms and crashes interleave, a line no form
\* reverted is in exactly one place (ConsumeBatchData, RestoreBatchData, AppendBatchData): none
\* is for sale twice, with two buyers, or lost.
THEOREM OnePlaceHolds == Spec => []OnePlace
<1>1. StockInv => OnePlace
  <2> SUFFICES ASSUME StockInv, NEW l \in Lines \ reverted PROVE \E p \in Places(l) : Places(l) = {p}
    BY DEF OnePlace
  <2>1. TypeOK /\ Kept(l) BY DEF StockInv, EachKept
  <2>2. QED BY <2>1, KeptIsOnePlace
<1>2. QED BY <1>1, InitStock, NextStock, PTL DEF Spec

-----------------------------------------------------------------------------
(* NotifyOutbox. *)

\* Rows and workers are records, and only a row somebody runs has a live lease.
IsRow(r) ==
    /\ r = [status |-> r.status, attempts |-> r.attempts, due |-> r.due, live |-> r.live, token |-> r.token]
    /\ r.live = TRUE \/ r.live = FALSE
    /\ r.live = TRUE => r.status = "running"

IsWorker(w) == w = [ctx |-> w.ctx, pc |-> w.pc, todo |-> w.todo, batch |-> w.batch]

RowsInv ==
    /\ rows = [m \in Msgs |-> rows[m]] /\ \A m \in Msgs : IsRow(rows[m])
    /\ worker = [p \in Processes |-> worker[p]] /\ \A p \in Processes : IsWorker(worker[p])

\* Channels are records as well.
IsChannel(c) == channel[c] = [exists |-> channel[c].exists, takes |-> channel[c].takes, works |-> channel[c].works]
ChannelInv   == channel = [c \in Channels |-> channel[c]] /\ \A c \in Channels : IsChannel(c)

\* What one step may do to the rows: nothing, insert where there is none, claim what is due, let time pass, end a row
\* that its worker holds while that worker moves on, or go with a channel.
Writes(p, m) == Holds(p, m) /\ worker'[p] # worker[p]
RowMoves ==
    \A m \in Msgs :
        \/ rows'[m] = rows[m]
        \/ rows[m].status = "absent" /\ rows'[m].status = "pending"
        \/ Due(m)
        \/ rows[m].status = "pending"
        \/ rows[m].status = "running" /\ rows'[m] = [rows[m] EXCEPT !.live = FALSE]
        \/ \E p \in Processes : Writes(p, m)
        \/ ~channel'[m[2]].exists

LEMMA InitRows == OutboxInit => RowsInv /\ ChannelInv
<1>1. IsRow(NoRow) BY DEF IsRow, NoRow
<1>2. IsWorker([Resting EXCEPT !.ctx = "new"]) BY DEF IsWorker, Resting
<1>3. OutboxInit => RowsInv BY <1>1, <1>2 DEF OutboxInit, RowsInv
<1>4. OutboxInit => ChannelInv BY DEF OutboxInit, ChannelInv, IsChannel
<1>5. QED BY <1>3, <1>4

-----------------------------------------------------------------------------
(* Actions that leave the rows alone keep the invariant if the workers stay records. *)

LEMMA OneRow ==
    ASSUME RowsInv, NEW m \in Msgs, NEW r, IsRow(r), rows' = [rows EXCEPT ![m] = r]
    PROVE  /\ rows' = [n \in Msgs |-> rows'[n]] /\ \A n \in Msgs : IsRow(rows'[n])
           /\ \A n \in Msgs : n # m => rows'[n] = rows[n]
BY DEF RowsInv

LEMMA OneWorker ==
    ASSUME RowsInv, NEW p \in Processes, NEW w, IsWorker(w), worker' = [worker EXCEPT ![p] = w]
    PROVE  /\ worker' = [q \in Processes |-> worker'[q]] /\ \A q \in Processes : IsWorker(worker'[q])
           /\ worker'[p] = w
BY DEF RowsInv

LEMMA GotoKeeps ==
    ASSUME RowsInv, NEW p \in Processes, NEW pc, Goto(p, pc)
    PROVE  worker' = [q \in Processes |-> worker'[q]] /\ \A q \in Processes : IsWorker(worker'[q])
<1>1. PICK c, l, t, b : worker[p] = [ctx |-> c, pc |-> l, todo |-> t, batch |-> b] BY DEF RowsInv, IsWorker
<1>2. worker' = [worker EXCEPT ![p] = [worker[p] EXCEPT !.pc = pc]] BY DEF Goto
<1>3. IsWorker([worker[p] EXCEPT !.pc = pc]) BY <1>1 DEF IsWorker
<1>4. QED BY <1>2, <1>3, OneWorker

LEMMA CtxKeeps ==
    ASSUME RowsInv, NEW p \in Processes, NEW x, worker' = [worker EXCEPT ![p].ctx = x]
    PROVE  worker' = [q \in Processes |-> worker'[q]] /\ \A q \in Processes : IsWorker(worker'[q])
<1>1. PICK c, l, t, b : worker[p] = [ctx |-> c, pc |-> l, todo |-> t, batch |-> b] BY DEF RowsInv, IsWorker
<1>2. worker' = [worker EXCEPT ![p] = [worker[p] EXCEPT !.ctx = x]] OBVIOUS
<1>3. IsWorker([worker[p] EXCEPT !.ctx = x]) BY <1>1 DEF IsWorker
<1>4. QED BY <1>2, <1>3, OneWorker

LEMMA TodoKeeps ==
    ASSUME RowsInv, NEW p \in Processes, NEW x, worker' = [worker EXCEPT ![p].todo = x]
    PROVE  worker' = [q \in Processes |-> worker'[q]] /\ \A q \in Processes : IsWorker(worker'[q])
<1>1. PICK c, l, t, b : worker[p] = [ctx |-> c, pc |-> l, todo |-> t, batch |-> b] BY DEF RowsInv, IsWorker
<1>2. worker' = [worker EXCEPT ![p] = [worker[p] EXCEPT !.todo = x]] OBVIOUS
<1>3. IsWorker([worker[p] EXCEPT !.todo = x]) BY <1>1 DEF IsWorker
<1>4. QED BY <1>2, <1>3, OneWorker

LEMMA DoneKeeps ==
    ASSUME RowsInv, NEW p \in Processes, worker[p].pc # "row", Done1(p)
    PROVE  /\ worker' = [q \in Processes |-> worker'[q]] /\ \A q \in Processes : IsWorker(worker'[q])
           /\ worker'[p] # worker[p]
<1>1. PICK c, l, t, b : worker[p] = [ctx |-> c, pc |-> l, todo |-> t, batch |-> b] BY DEF RowsInv, IsWorker
<1> DEFINE rest == worker[p].batch \ {Next1(p)}
           one  == [worker EXCEPT ![p].pc = "row"]
<1>2. worker' = [one EXCEPT ![p].batch = @ \ {Next1(p)}] BY DEF Done1
<1>3. one[p] = [ctx |-> c, pc |-> "row", todo |-> t, batch |-> b] /\ one = [worker EXCEPT ![p] = one[p]]
  <2>1. [worker[p] EXCEPT !.pc = "row"] = [ctx |-> c, pc |-> "row", todo |-> t, batch |-> b] BY <1>1
  <2>2. one = [worker EXCEPT ![p] = [worker[p] EXCEPT !.pc = "row"]] OBVIOUS
  <2>3. QED BY <2>1, <2>2 DEF RowsInv
<1>4. b = worker[p].batch BY <1>1
<1> HIDE DEF one
<1>5. [one[p] EXCEPT !.batch = @ \ {Next1(p)}] = [ctx |-> c, pc |-> "row", todo |-> t, batch |-> rest] BY <1>3, <1>4
<1> HIDE DEF rest
<1>6. worker' = [one EXCEPT ![p] = [ctx |-> c, pc |-> "row", todo |-> t, batch |-> rest]] BY <1>2, <1>5
<1>7. worker' = [worker EXCEPT ![p] = [ctx |-> c, pc |-> "row", todo |-> t, batch |-> rest]] BY <1>3, <1>6 DEF RowsInv
<1>8. IsWorker([ctx |-> c, pc |-> "row", todo |-> t, batch |-> rest]) BY DEF IsWorker
<1>9. /\ worker' = [q \in Processes |-> worker'[q]] /\ \A q \in Processes : IsWorker(worker'[q])
      /\ worker'[p] = [ctx |-> c, pc |-> "row", todo |-> t, batch |-> rest]
  BY <1>7, <1>8, OneWorker
<1>10. worker'[p].pc = "row" BY <1>9
<1>11. QED BY <1>9, <1>10

\* The three statements that end a row, and the failures that leave it as it is.
LEMMA EndingKeeps ==
    ASSUME RowsInv, NEW p \in Processes, worker[p].pc # "row", Done1(p), NEW r, IsRow(r),
           rows' = IF Holds(p, Next1(p)) THEN [rows EXCEPT ![Next1(p)] = r] ELSE rows
    PROVE  RowsInv' /\ RowMoves
<1>1. /\ worker' = [q \in Processes |-> worker'[q]] /\ \A q \in Processes : IsWorker(worker'[q])
      /\ worker'[p] # worker[p]
  BY DoneKeeps
<1>2. CASE rows' = rows BY <1>1, <1>2 DEF RowsInv, RowMoves
<1>3. CASE Holds(p, Next1(p)) /\ rows' = [rows EXCEPT ![Next1(p)] = r] /\ Next1(p) \in Msgs
  <2>1. /\ rows' = [n \in Msgs |-> rows'[n]] /\ \A n \in Msgs : IsRow(rows'[n])
        /\ \A n \in Msgs : n # Next1(p) => rows'[n] = rows[n]
    BY <1>3, OneRow
  <2>2. Writes(p, Next1(p)) BY <1>1, <1>3 DEF Writes
  <2>3. QED BY <1>1, <2>1, <2>2 DEF RowsInv, RowMoves
<1>4. CASE rows' = [rows EXCEPT ![Next1(p)] = r] /\ Next1(p) \notin Msgs
  <2>1. rows' = rows BY <1>4 DEF RowsInv
  <2>2. QED BY <1>1, <2>1 DEF RowsInv, RowMoves
<1>5. QED BY <1>2, <1>3, <1>4

-----------------------------------------------------------------------------
(* One lemma per action that touches rows or workers. *)

LEMMA SameRows ==
    ASSUME RowsInv, rows' = rows, worker' = [p \in Processes |-> worker'[p]], \A p \in Processes : IsWorker(worker'[p])
    PROVE  RowsInv' /\ RowMoves
BY DEF RowsInv, RowMoves

LEMMA NotifyKeeps == ASSUME RowsInv, NEW p \in Processes, NEW e \in Events, NotifyEvent(p, e) PROVE RowsInv' /\ RowMoves
<1>1. worker' = worker BY DEF NotifyEvent
<1>2. CASE rows' = rows BY <1>1, <1>2, SameRows DEF RowsInv
<1>3. CASE EnqueueOutbox(e)
  <2> DEFINE new == {e} \X {c \in Channels : Inserts(e, c)}
  <2>1. rows' = [m \in Msgs |-> IF m \in new THEN Inserted ELSE rows[m]] BY <1>3 DEF EnqueueOutbox
  <2>2. \A m \in new : rows[m].status = "absent" BY DEF Inserts
  <2>3. IsRow(Inserted) /\ Inserted.status = "pending" BY DEF Inserted, IsRow
  <2> HIDE DEF new
  <2>4. QED BY <1>1, <2>1, <2>2, <2>3 DEF RowsInv, RowMoves
<1>4. QED BY <1>2, <1>3 DEF NotifyEvent

LEMMA ClaimKeeps == ASSUME RowsInv, NEW p \in Processes, ClaimRow(p) PROVE RowsInv' /\ RowMoves
<1>1. PICK m \in worker[p].todo :
         IF Due(m)
         THEN /\ rows' = [rows EXCEPT ![m] = [status |-> "running", attempts |-> @.attempts + 1,
                                              due |-> TRUE, live |-> TRUE, token |-> p]]
              /\ worker' = [worker EXCEPT ![p].todo = @ \ {m}, ![p].batch = @ \cup {m}]
         ELSE /\ worker' = [worker EXCEPT ![p].todo = @ \ {m}]
              /\ rows' = rows
  BY DEF ClaimRow
<1>2. CASE ~Due(m)
  <2>1. worker' = [worker EXCEPT ![p].todo = worker[p].todo \ {m}] BY <1>1, <1>2
  <2>2. QED BY <1>1, <1>2, <2>1, TodoKeeps, SameRows
<1>3. CASE Due(m)
  <2> DEFINE one == [worker EXCEPT ![p].todo = @ \ {m}]
             run == [status |-> "running", attempts |-> rows[m].attempts + 1, due |-> TRUE, live |-> TRUE, token |-> p]
  <2>1. worker' = [one EXCEPT ![p].batch = @ \cup {m}] BY <1>1, <1>3
  <2>2. PICK c, l, t, b : worker[p] = [ctx |-> c, pc |-> l, todo |-> t, batch |-> b] BY DEF RowsInv, IsWorker
  <2>3. one[p] = [ctx |-> c, pc |-> l, todo |-> t \ {m}, batch |-> b] /\ one = [worker EXCEPT ![p] = one[p]]
    <3>1. [worker[p] EXCEPT !.todo = @ \ {m}] = [ctx |-> c, pc |-> l, todo |-> t \ {m}, batch |-> b] BY <2>2
    <3>2. one = [worker EXCEPT ![p] = [worker[p] EXCEPT !.todo = @ \ {m}]] OBVIOUS
    <3>3. QED BY <3>1, <3>2 DEF RowsInv
  <2> HIDE DEF one
  <2>4. [one[p] EXCEPT !.batch = @ \cup {m}] = [ctx |-> c, pc |-> l, todo |-> t \ {m}, batch |-> b \cup {m}] BY <2>3
  <2>5. worker' = [one EXCEPT ![p] = [ctx |-> c, pc |-> l, todo |-> t \ {m}, batch |-> b \cup {m}]] BY <2>1, <2>4
  <2>6. worker' = [worker EXCEPT ![p] = [ctx |-> c, pc |-> l, todo |-> t \ {m}, batch |-> b \cup {m}]]
    BY <2>3, <2>5 DEF RowsInv
  <2>7. IsWorker([ctx |-> c, pc |-> l, todo |-> t \ {m}, batch |-> b \cup {m}]) BY DEF IsWorker
  <2>8. worker' = [q \in Processes |-> worker'[q]] /\ \A q \in Processes : IsWorker(worker'[q])
    BY <2>6, <2>7, OneWorker
  <2>9. CASE m \notin Msgs
    <3>1. rows' = rows BY <1>1, <1>3, <2>9 DEF RowsInv
    <3>2. QED BY <2>8, <3>1, SameRows
  <2>10. CASE m \in Msgs
    <3>1. rows' = [rows EXCEPT ![m] = run] /\ IsRow(run) BY <1>1, <1>3 DEF IsRow
    <3>2. QED BY <1>3, <2>8, <2>10, <3>1, OneRow DEF RowsInv, RowMoves
  <2>11. QED BY <2>9, <2>10
<1>4. QED BY <1>2, <1>3

LEMMA CompleteKeeps == ASSUME RowsInv, NEW p \in Processes, CompleteOutbox(p) PROVE RowsInv' /\ RowMoves
<1>1. IsRow(NoRow) BY DEF IsRow, NoRow
<1>2. QED BY <1>1, EndingKeeps DEF CompleteOutbox

LEMMA IsolateKeeps == ASSUME RowsInv, NEW p \in Processes, MarkOutboxUncertain(p) PROVE RowsInv' /\ RowMoves
<1>1. IsRow(Isolated(Next1(p))) BY DEF IsRow, Isolated
<1>2. QED BY <1>1, EndingKeeps DEF MarkOutboxUncertain

LEMMA RetryKeeps == ASSUME RowsInv, NEW p \in Processes, RetryOutbox(p) PROVE RowsInv' /\ RowMoves
<1> DEFINE permanent == rows[Next1(p)].attempts >= MaxAttempts
<1>1. IsRow(Retried(Next1(p), permanent)) BY DEF IsRow, Retried
<1>2. QED BY <1>1, EndingKeeps DEF RetryOutbox

LEMMA TimeKeeps == ASSUME RowsInv, NEW m \in Msgs, BackoffEnds(m) \/ LeaseLapses(m) PROVE RowsInv' /\ RowMoves
<1> DEFINE yes == TRUE
           no  == FALSE
<1>1. worker' = worker BY DEF BackoffEnds, LeaseLapses
<1>2. PICK s, a, d, l, t : rows[m] = [status |-> s, attempts |-> a, due |-> d, live |-> l, token |-> t]
  BY DEF RowsInv, IsRow
<1>3. CASE BackoffEnds(m)
  <2>1. rows' = [rows EXCEPT ![m] = [rows[m] EXCEPT !.due = TRUE]] BY <1>3 DEF BackoffEnds
  <2>2. [rows[m] EXCEPT !.due = TRUE] = [status |-> s, attempts |-> a, due |-> TRUE, live |-> l, token |-> t]
    <3> HIDE DEF yes
    <3>1. [rows[m] EXCEPT !.due = yes] = [status |-> s, attempts |-> a, due |-> yes, live |-> l, token |-> t] BY <1>2
    <3>2. QED BY <3>1 DEF yes
  <2>3. IsRow([status |-> s, attempts |-> a, due |-> TRUE, live |-> l, token |-> t]) BY <1>2 DEF RowsInv, IsRow
  <2>4. IsRow([rows[m] EXCEPT !.due = TRUE]) BY <2>2, <2>3
  <2>5. rows[m].status = "pending" BY <1>3 DEF BackoffEnds
  <2>6. QED BY <1>1, <2>1, <2>4, <2>5, OneRow DEF RowsInv, RowMoves
<1>4. CASE LeaseLapses(m)
  <2>1. rows' = [rows EXCEPT ![m] = [rows[m] EXCEPT !.live = FALSE]] BY <1>4 DEF LeaseLapses
  <2>2. [rows[m] EXCEPT !.live = FALSE] = [status |-> s, attempts |-> a, due |-> d, live |-> FALSE, token |-> t]
    <3> HIDE DEF no
    <3>1. [rows[m] EXCEPT !.live = no] = [status |-> s, attempts |-> a, due |-> d, live |-> no, token |-> t] BY <1>2
    <3>2. QED BY <3>1 DEF no
  <2>3. IsRow([rows[m] EXCEPT !.live = FALSE]) BY <2>2 DEF IsRow
  <2>4. rows[m].status = "running" /\ rows'[m] = [rows[m] EXCEPT !.live = FALSE] BY <1>4, <2>1 DEF LeaseLapses, RowsInv
  <2>5. QED BY <1>1, <2>1, <2>3, <2>4, OneRow DEF RowsInv, RowMoves
<1>5. QED BY <1>3, <1>4

LEMMA ChannelsKeep == ChannelInv /\ [OutboxNext]_outboxVars => ChannelInv'
<1> SUFFICES ASSUME ChannelInv, [OutboxNext]_outboxVars PROVE ChannelInv' OBVIOUS
<1>1. CASE channel' = channel BY <1>1 DEF ChannelInv, IsChannel
<1>2. ASSUME NEW c \in Channels, UpdateChannel(c) PROVE ChannelInv'
  <2>1. PICK t, w : channel' = [channel EXCEPT ![c] = [exists |-> TRUE, takes |-> t, works |-> w]] BY <1>2 DEF UpdateChannel
  <2> DEFINE r == [exists |-> TRUE, takes |-> t, works |-> w]
  <2>2. r = [exists |-> r.exists, takes |-> r.takes, works |-> r.works] OBVIOUS
  <2>3. channel' = [channel EXCEPT ![c] = r] BY <2>1
  <2> HIDE DEF r
  <2>4. QED BY <2>2, <2>3 DEF ChannelInv, IsChannel
<1>3. ASSUME NEW c \in Channels, DeleteChannel(c) PROVE ChannelInv'
  <2> DEFINE r == [channel[c] EXCEPT !.exists = FALSE]
  <2>1. channel' = [channel EXCEPT ![c] = r] BY <1>3 DEF DeleteChannel
  <2>2. r = [exists |-> r.exists, takes |-> r.takes, works |-> r.works]
    <3> DEFINE no == FALSE
    <3> HIDE DEF no
    <3>1. PICK x, t, w : channel[c] = [exists |-> x, takes |-> t, works |-> w] BY DEF ChannelInv, IsChannel
    <3>2. [channel[c] EXCEPT !.exists = no] = [exists |-> no, takes |-> t, works |-> w] BY <3>1
    <3>3. r = [exists |-> FALSE, takes |-> t, works |-> w] BY <3>2 DEF no
    <3> HIDE DEF r
    <3>4. QED BY <3>3
  <2> HIDE DEF r
  <2>3. QED BY <2>1, <2>2 DEF ChannelInv, IsChannel
<1>4. CASE \E p \in Processes : \/ \E e \in Events : NotifyEvent(p, e)
                                \/ WorkerStep(p) \/ ClaimFails(p) \/ LoadFails(p) \/ SendUnanswered(p)
                                \/ CompleteFails(p) \/ WriteFails(p) \/ Shutdown(p) \/ ProcessCrash(p)
  <2>1. channel' = channel
    BY <1>4 DEF NotifyEvent, WorkerStep, Start, ClaimList, ClaimRow, DrainRow, LoadChannel, SendToChannel, CompleteOutbox,
       MarkOutboxUncertain, RetryOutbox, WorkerReturns, Boot, ClaimFails, LoadFails, SendUnanswered, CompleteFails,
       WriteFails, Shutdown, ProcessCrash
  <2>2. QED BY <1>1, <2>1
<1>5. CASE (\E m \in Msgs : BackoffEnds(m) \/ LeaseLapses(m)) \/ SetBindings \/ UNCHANGED outboxVars
  <2>1. channel' = channel BY <1>5 DEF BackoffEnds, LeaseLapses, SetBindings, outboxVars
  <2>2. QED BY <1>1, <2>1
<1>6. QED BY <1>2, <1>3, <1>4, <1>5 DEF OutboxNext

LEMMA DeleteKeeps == ASSUME RowsInv, ChannelInv, NEW c \in Channels, DeleteChannel(c) PROVE RowsInv' /\ RowMoves
<1>1. worker' = worker /\ rows' = [m \in Msgs |-> IF m[2] = c THEN NoRow ELSE rows[m]] BY DEF DeleteChannel
<1>2. IsRow(NoRow) BY DEF IsRow, NoRow
<1>3. \A m \in Msgs : m[2] = c => ~channel'[m[2]].exists \/ rows'[m] = rows[m]
  <2>1. channel' = [channel EXCEPT ![c].exists = FALSE] BY DEF DeleteChannel
  <2>2. ~channel'[c].exists BY <2>1 DEF ChannelInv, IsChannel
  <2>3. QED BY <2>2
<1>4. QED BY <1>1, <1>2, <1>3 DEF RowsInv, RowMoves

\* What a worker does to itself.
LEMMA WorkerKeeps ==
    ASSUME RowsInv, NEW p \in Processes,
           \/ ClaimList(p) \/ ClaimFails(p) \/ DrainRow(p) \/ LoadChannel(p) \/ LoadFails(p) \/ SendToChannel(p)
           \/ SendUnanswered(p) \/ CompleteFails(p) \/ WriteFails(p) \/ ProcessCrash(p)
           \/ Start(p) \/ Shutdown(p) \/ WorkerReturns(p) \/ Boot(p)
    PROVE  RowsInv' /\ RowMoves
<1>1. PICK c, l, t, b : worker[p] = [ctx |-> c, pc |-> l, todo |-> t, batch |-> b] BY DEF RowsInv, IsWorker
<1>2. CASE ClaimList(p)
  <2> DEFINE w == [ctx |-> "on", pc |-> "claim", todo |-> {m \in Msgs : Due(m)}, batch |-> {}]
  <2>1. rows' = rows /\ worker' = [worker EXCEPT ![p] = w] BY <1>2 DEF ClaimList
  <2>2. IsWorker(w) BY DEF IsWorker
  <2>3. QED BY <2>1, <2>2, OneWorker, SameRows
<1>3. CASE ClaimFails(p)
  <2>1. rows' = rows /\ worker' = [worker EXCEPT ![p] = [Resting EXCEPT !.ctx = worker[p].ctx]] BY <1>3 DEF ClaimFails
  <2>2. IsWorker([Resting EXCEPT !.ctx = worker[p].ctx]) BY DEF IsWorker, Resting
  <2>3. QED BY <2>1, <2>2, OneWorker, SameRows
<1>4. CASE DrainRow(p) \/ LoadChannel(p) \/ LoadFails(p) \/ SendToChannel(p) \/ SendUnanswered(p) \/ CompleteFails(p)
  <2>1. rows' = rows /\ \E pc : Goto(p, pc)
    BY <1>4 DEF DrainRow, LoadChannel, LoadFails, SendToChannel, SendUnanswered, CompleteFails
  <2>2. QED BY <2>1, GotoKeeps, SameRows
<1>5. CASE WriteFails(p)
  <2>1. rows' = rows /\ worker[p].pc # "row" /\ Done1(p) BY <1>5 DEF WriteFails
  <2>2. QED BY <2>1, DoneKeeps, SameRows
<1>6. CASE ProcessCrash(p)
  <2>1. IsWorker([Resting EXCEPT !.ctx = "off"]) BY DEF IsWorker, Resting
  <2>2. rows' = rows /\ worker' = [worker EXCEPT ![p] = [Resting EXCEPT !.ctx = "off"]] BY <1>6 DEF ProcessCrash
  <2>3. QED BY <2>1, <2>2, OneWorker, SameRows
<1>7. CASE Start(p) \/ Shutdown(p) \/ WorkerReturns(p) \/ Boot(p)
  <2>1. rows' = rows /\ \E x : worker' = [worker EXCEPT ![p].ctx = x]
    BY <1>7 DEF Start, Shutdown, WorkerReturns, Boot
  <2>2. QED BY <2>1, CtxKeeps, SameRows
<1>8. QED BY <1>2, <1>3, <1>4, <1>5, <1>6, <1>7

LEMMA NextMoves == RowsInv /\ ChannelInv /\ [OutboxNext]_outboxVars => RowsInv' /\ RowMoves
<1> SUFFICES ASSUME RowsInv, ChannelInv, [OutboxNext]_outboxVars PROVE RowsInv' /\ RowMoves OBVIOUS
<1>1. CASE UNCHANGED outboxVars \/ SetBindings \/ \E c \in Channels : UpdateChannel(c)
  <2>1. rows' = rows /\ worker' = worker BY <1>1 DEF outboxVars, SetBindings, UpdateChannel
  <2>2. QED BY <2>1, SameRows DEF RowsInv
<1>2. CASE \E p \in Processes, e \in Events : NotifyEvent(p, e) BY <1>2, NotifyKeeps
<1>3. CASE \E p \in Processes : WorkerStep(p)
  BY <1>3, WorkerKeeps, ClaimKeeps, CompleteKeeps, IsolateKeeps, RetryKeeps DEF WorkerStep
<1>4. CASE \E p \in Processes : ClaimFails(p) \/ LoadFails(p) \/ SendUnanswered(p) \/ CompleteFails(p)
                               \/ WriteFails(p) \/ Shutdown(p) \/ ProcessCrash(p)
  BY <1>4, WorkerKeeps
<1>5. CASE \E m \in Msgs : BackoffEnds(m) \/ LeaseLapses(m) BY <1>5, TimeKeeps
<1>6. CASE \E c \in Channels : DeleteChannel(c) BY <1>6, DeleteKeeps
<1>7. QED BY <1>1, <1>2, <1>3, <1>4, <1>5, <1>6 DEF OutboxNext

\* Nothing ever happens to an isolated notification, short of deleting its channel.
THEOREM UncertainStaysHolds == OutboxSpec => UncertainStays
<1> DEFINE Stays == \A m \in Msgs : rows[m].status = "uncertain" => rows'[m] = rows[m] \/ ~channel'[m[2]].exists
<1>1. RowsInv /\ ChannelInv /\ [OutboxNext]_outboxVars => Stays
  <2> SUFFICES ASSUME RowMoves PROVE Stays BY NextMoves
  <2>1. QED BY DEF RowMoves, Due, Writes, Holds
<1>2. QED BY <1>1, InitRows, NextMoves, ChannelsKeep, PTL DEF OutboxSpec, UncertainStays

\* While the lease lasts nobody but its holder ends, postpones or claims a row.
THEOREM LiveLeaseIsRespectedHolds == OutboxSpec => LiveLeaseIsRespected
<1> DEFINE Respected == \A m \in Msgs : rows[m].live /\ [rows'[m] EXCEPT !.live = TRUE] # rows[m]
                            => worker'[rows[m].token] # worker[rows[m].token] \/ ~channel'[m[2]].exists
<1>1. RowsInv /\ ChannelInv /\ [OutboxNext]_outboxVars => Respected
  <2> SUFFICES ASSUME RowsInv, RowMoves, NEW m \in Msgs, rows[m].live,
                      worker'[rows[m].token] = worker[rows[m].token], channel'[m[2]].exists
               PROVE  [rows'[m] EXCEPT !.live = TRUE] = rows[m]
    BY NextMoves
  <2>1. PICK s, a, d, t : rows[m] = [status |-> s, attempts |-> a, due |-> d, live |-> TRUE, token |-> t] BY DEF RowsInv, IsRow
  <2>2. s = "running" /\ ~Due(m) BY <2>1 DEF RowsInv, IsRow, Due
  <2>3. rows'[m] = rows[m] \/ rows'[m] = [rows[m] EXCEPT !.live = FALSE] BY <2>1, <2>2 DEF RowMoves, Writes, Holds
  <2>4. QED BY <2>1, <2>3
<1>2. QED BY <1>1, InitRows, NextMoves, ChannelsKeep, PTL DEF OutboxSpec, LiveLeaseIsRespected

-----------------------------------------------------------------------------
(* What may still make a channel accept message m.                         *)

\* Worker p has m before it and has not sent it yet.
Sends(p, m) == m \in worker[p].batch /\ ~(worker[p].pc \in {"complete", "isolate"} /\ Next1(p) = m)

\* Worker p is ending, so that what it sends or has just sent stays running and comes back.
Returns(p, m) ==
    /\ worker[p].ctx = "ending" /\ worker[p].pc \in {"send", "complete", "isolate"}
    /\ m \in worker[p].batch /\ m = Next1(p) /\ Holds(p, m)

\* Row m is there to be claimed, or will be once its lease lapses.
Claimable(m) == rows[m].status = "pending" \/ (rows[m].status = "running" /\ (~rows[m].live \/ ~WorkedOn(m)))

Hopes(m) == ({"send"} \X {p \in Processes : Sends(p, m)}) \cup ({"return"} \X {p \in Processes : Returns(p, m)})
            \cup {x \in {<<"claim", Nobody>>} : Claimable(m)}

Excess(m) == accepted[m] + Cardinality(Hopes(m)) - enqueued[m]
Over      == UNION {{m} \X {k \in Nat : 1 <= k /\ k <= Excess(m)} : m \in Msgs}

\* A worker's batch: what it may be and when there is one.
BatchOf(p) ==
    /\ worker[p].batch \subseteq Msgs
    /\ worker[p].pc = "idle" => worker[p].batch = {}
    /\ worker[p].ctx \in {"new", "on", "ending", "off"}
    /\ worker[p].ctx \in {"new", "off"} => worker[p].pc = "idle"
    /\ worker[p].pc \in {"load", "send", "complete", "isolate", "retry"} => worker[p].batch # {}

\* Nothing is known of an event nobody has reported.
Unheard(m) == rows[m].status = "absent" /\ accepted[m] = 0 /\ enqueued[m] = 0 /\ \A p \in Processes : m \notin worker[p].batch

Counters == /\ accepted \in [Msgs -> Nat] /\ enqueued \in [Msgs -> Nat] /\ reports \in [Events -> Nat]
            /\ faults \in Nat /\ acts \in Nat

Shapes == RowsInv /\ Counters /\ \A p \in Processes : BatchOf(p) /\ worker[p].todo \subseteq Msgs
FirstHeard == \A m \in Msgs : reports[m[1]] = 0 => Unheard(m)
Paid   == (\A m \in Msgs : IsFiniteSet(Hopes(m))) /\ IsFiniteSet(Over) /\ Cardinality(Over) <= faults + acts

OutboxInv == Shapes /\ FirstHeard /\ Paid

-----------------------------------------------------------------------------
(* How one message's count moves. *)

Keeps(m)  == Hopes(m)' \subseteq Hopes(m)
Trades(m) == \E x \in Hopes(m) : \E y : Hopes(m)' \subseteq (Hopes(m) \ {x}) \cup {y}
Loses(m)  == \E x \in Hopes(m) : Hopes(m)' \subseteq Hopes(m) \ {x}
Gains(m)  == \E y : Hopes(m)' \subseteq Hopes(m) \cup {y}

LEMMA FewerHopes ==
    ASSUME NEW H, NEW G, IsFiniteSet(H), G \subseteq H
    PROVE  IsFiniteSet(G) /\ Cardinality(G) \in Nat /\ Cardinality(H) \in Nat /\ Cardinality(G) <= Cardinality(H)
BY FS_Subset, FS_CardinalityType

LEMMA OneMoreHope ==
    ASSUME NEW H, NEW G, NEW y, IsFiniteSet(H), G \subseteq H \cup {y}
    PROVE  IsFiniteSet(G) /\ Cardinality(G) \in Nat /\ Cardinality(H) \in Nat /\ Cardinality(G) <= Cardinality(H) + 1
<1>1. IsFiniteSet(H \cup {y}) /\ Cardinality(H \cup {y}) <= Cardinality(H) + 1 /\ Cardinality(H) \in Nat
  BY FS_AddElement, FS_CardinalityType
<1>2. IsFiniteSet(G) /\ Cardinality(G) \in Nat /\ Cardinality(H \cup {y}) \in Nat /\ Cardinality(G) <= Cardinality(H \cup {y})
  BY <1>1, FewerHopes
<1>3. QED BY <1>1, <1>2

LEMMA OneLessHope ==
    ASSUME NEW H, NEW G, NEW x \in H, IsFiniteSet(H), G \subseteq H \ {x}
    PROVE  IsFiniteSet(G) /\ Cardinality(G) \in Nat /\ Cardinality(H) \in Nat /\ Cardinality(G) <= Cardinality(H) - 1
<1>1. IsFiniteSet(H \ {x}) /\ Cardinality(H \ {x}) = Cardinality(H) - 1 /\ Cardinality(H) \in Nat
  BY FS_RemoveElement, FS_CardinalityType
<1>2. QED BY <1>1, FewerHopes

LEMMA OtherHope ==
    ASSUME NEW H, NEW G, NEW x \in H, NEW y, IsFiniteSet(H), G \subseteq (H \ {x}) \cup {y}
    PROVE  IsFiniteSet(G) /\ Cardinality(G) \in Nat /\ Cardinality(H) \in Nat /\ Cardinality(G) <= Cardinality(H)
<1>1. IsFiniteSet(H \ {x}) /\ Cardinality(H \ {x}) <= Cardinality(H) - 1 /\ Cardinality(H) \in Nat
  BY OneLessHope
<1>2. IsFiniteSet(G) /\ Cardinality(G) \in Nat /\ Cardinality(H \ {x}) \in Nat /\ Cardinality(G) <= Cardinality(H \ {x}) + 1
  BY <1>1, OneMoreHope
<1>3. QED BY <1>1, <1>2

-----------------------------------------------------------------------------
(* Who else may hope: the other workers, and those who will claim.         *)

Others(p) == \A q \in Processes : q # p => worker'[q] = worker[q]

LEMMA HopesAre ==
    ASSUME NEW m
    PROVE  /\ \A x : x \in Hopes(m) <=> \/ \E p \in Processes : x = <<"send", p>> /\ Sends(p, m)
                                        \/ \E p \in Processes : x = <<"return", p>> /\ Returns(p, m)
                                        \/ x = <<"claim", Nobody>> /\ Claimable(m)
           /\ \A x : x \in Hopes(m)' <=> \/ \E p \in Processes : x = <<"send", p>> /\ Sends(p, m)'
                                         \/ \E p \in Processes : x = <<"return", p>> /\ Returns(p, m)'
                                         \/ x = <<"claim", Nobody>> /\ Claimable(m)'
BY DEF Hopes

LEMMA SameHand ==
    ASSUME NEW p, worker'[p].batch = worker[p].batch
    PROVE  Next1(p)' = Next1(p)
BY DEF Next1

\* The other workers' hopes stay while the row is nobody else's.
LEMMA OthersHope ==
    ASSUME NEW p \in Processes, Others(p), NEW m \in Msgs,
           \/ rows'[m] = rows[m] \/ rows'[m].status # "running" \/ rows'[m].token = p
           \/ (rows'[m].token = rows[m].token /\ rows'[m].status = rows[m].status)
    PROVE  \A q \in Processes : q # p => (Sends(q, m)' => Sends(q, m)) /\ (Returns(q, m)' => Returns(q, m))
<1> SUFFICES ASSUME NEW q \in Processes, q # p
             PROVE  (Sends(q, m)' => Sends(q, m)) /\ (Returns(q, m)' => Returns(q, m))
  OBVIOUS
<1>1. worker'[q] = worker[q] /\ Next1(q)' = Next1(q) BY SameHand DEF Others
<1>2. Holds(q, m)' => Holds(q, m) BY DEF Holds
<1>3. QED BY <1>1, <1>2 DEF Sends, Returns

LEMMA SameClaim ==
    ASSUME NEW p \in Processes, Others(p), NEW m \in Msgs, rows'[m] = rows[m],
           m \in worker[p].batch /\ Holds(p, m) => m \in worker'[p].batch
    PROVE  Claimable(m)' => Claimable(m)
<1>1. WorkedOn(m) => WorkedOn(m)' BY DEF Others, WorkedOn, Holds
<1>2. QED BY <1>1 DEF Claimable

\* Nothing changes for the messages a step of p leaves alone.
LEMMA Untouched ==
    ASSUME NEW p \in Processes, Others(p), NEW m \in Msgs, rows'[m] = rows[m],
           m \in worker[p].batch => m \in worker'[p].batch,
           Sends(p, m)' => Sends(p, m), Returns(p, m)' => Returns(p, m)
    PROVE  Keeps(m)
<1>1. Claimable(m)' => Claimable(m) BY SameClaim
<1>2. QED BY <1>1, OthersHope, HopesAre DEF Keeps

-----------------------------------------------------------------------------
(* Counting.                                                               *)

Size(m) == Cardinality(Hopes(m))

LEMMA Sizes ==
    ASSUME NEW m, IsFiniteSet(Hopes(m))
    PROVE  /\ Keeps(m) \/ Trades(m) => IsFiniteSet(Hopes(m)') /\ Size(m) \in Nat /\ Size(m)' \in Nat /\ Size(m)' <= Size(m)
           /\ Loses(m) => IsFiniteSet(Hopes(m)') /\ Size(m) \in Nat /\ Size(m)' \in Nat /\ Size(m)' <= Size(m) - 1
           /\ Gains(m) => IsFiniteSet(Hopes(m)') /\ Size(m) \in Nat /\ Size(m)' \in Nat /\ Size(m)' <= Size(m) + 1
<1> DEFINE H == Hopes(m)
           G == Hopes(m)'
<1>1. /\ Size(m) = Cardinality(H) /\ Size(m)' = Cardinality(G) /\ IsFiniteSet(H)
      /\ Keeps(m) => G \subseteq H
      /\ Trades(m) => \E x \in H : \E y : G \subseteq (H \ {x}) \cup {y}
      /\ Loses(m) => \E x \in H : G \subseteq H \ {x}
      /\ Gains(m) => \E y : G \subseteq H \cup {y}
  BY DEF Size, Keeps, Trades, Loses, Gains
<1>2. IsFiniteSet(G) <=> IsFiniteSet(Hopes(m)') OBVIOUS
<1> HIDE DEF H, G
<1>3. CASE Keeps(m) \/ Trades(m) \/ Loses(m) \/ Gains(m)
  <2>1. Keeps(m) => IsFiniteSet(G) /\ Size(m) \in Nat /\ Size(m)' \in Nat /\ Size(m)' <= Size(m) BY <1>1, FewerHopes
  <2>2. Trades(m) => IsFiniteSet(G) /\ Size(m) \in Nat /\ Size(m)' \in Nat /\ Size(m)' <= Size(m)
    <3> SUFFICES ASSUME NEW x \in H, NEW y, G \subseteq (H \ {x}) \cup {y}
                 PROVE  IsFiniteSet(G) /\ Size(m) \in Nat /\ Size(m)' \in Nat /\ Size(m)' <= Size(m)
      BY <1>1
    <3>1. QED BY <1>1, OtherHope
  <2>3. Loses(m) => IsFiniteSet(G) /\ Size(m) \in Nat /\ Size(m)' \in Nat /\ Size(m)' <= Size(m) - 1
    <3> SUFFICES ASSUME NEW x \in H, G \subseteq H \ {x}
                 PROVE  IsFiniteSet(G) /\ Size(m) \in Nat /\ Size(m)' \in Nat /\ Size(m)' <= Size(m) - 1
      BY <1>1
    <3>1. QED BY <1>1, OneLessHope
  <2>4. Gains(m) => IsFiniteSet(G) /\ Size(m) \in Nat /\ Size(m)' \in Nat /\ Size(m)' <= Size(m) + 1
    <3> SUFFICES ASSUME NEW y, G \subseteq H \cup {y}
                 PROVE  IsFiniteSet(G) /\ Size(m) \in Nat /\ Size(m)' \in Nat /\ Size(m)' <= Size(m) + 1
      BY <1>1
    <3>1. QED BY <1>1, OneMoreHope
  <2>5. QED BY <1>2, <2>1, <2>2, <2>3, <2>4
<1>4. QED BY <1>3

\* A step that raises no message's count, and one that raises one message's by one and is paid for.
Grows(m, n) == IsFiniteSet(Hopes(m)') /\ Excess(m)' <= Excess(m) + n
Cheap == (\A m \in Msgs : Grows(m, 0)) /\ faults + acts <= faults' + acts'
Dear  == /\ \E k \in Msgs : Grows(k, 1) /\ \A m \in Msgs \ {k} : Grows(m, 0)
         /\ faults + acts < faults' + acts'

LEMMA WholeExcess ==
    ASSUME Counters, NEW m \in Msgs, IsFiniteSet(Hopes(m))
    PROVE  Excess(m) \in Int /\ Size(m) \in Nat /\ Excess(m) = accepted[m] + Size(m) - enqueued[m]
BY FS_CardinalityType DEF Counters, Excess, Size

LEMMA Priced ==
    ASSUME Counters, Counters', NEW m \in Msgs, IsFiniteSet(Hopes(m))
    PROVE  /\ (Keeps(m) \/ Trades(m)) /\ accepted'[m] = accepted[m] /\ enqueued'[m] = enqueued[m] => Grows(m, 0)
           /\ Gains(m) /\ accepted'[m] = accepted[m] /\ enqueued'[m] = enqueued[m] + 1 => Grows(m, 0)
           /\ Loses(m) /\ accepted'[m] = accepted[m] + 1 /\ enqueued'[m] = enqueued[m] => Grows(m, 0)
           /\ (Keeps(m) \/ Trades(m)) /\ accepted'[m] = accepted[m] + 1 /\ enqueued'[m] = enqueued[m] => Grows(m, 1)
           /\ Gains(m) /\ accepted'[m] = accepted[m] /\ enqueued'[m] = enqueued[m] => Grows(m, 1)
<1>1. /\ Excess(m) = accepted[m] + Size(m) - enqueued[m] /\ Excess(m)' = accepted'[m] + Size(m)' - enqueued'[m]
      /\ accepted[m] \in Nat /\ accepted'[m] \in Nat /\ enqueued[m] \in Nat /\ enqueued'[m] \in Nat
  BY DEF Counters, Excess, Size
<1>2. QED BY <1>1, Sizes DEF Grows

LEMMA StepPays == ASSUME Counters, Counters', Paid, Cheap \/ Dear PROVE Paid'
<1>1. \A m \in Msgs : Excess(m) \in Int BY WholeExcess DEF Paid
<1>2. \A m \in Msgs : IsFiniteSet(Hopes(m)') BY DEF Cheap, Dear, Grows
<1>3. \A m \in Msgs : Excess(m)' \in Int
  <2> SUFFICES ASSUME NEW m \in Msgs PROVE Excess(m)' \in Int OBVIOUS
  <2>1. Cardinality(Hopes(m)') \in Nat BY <1>2, FS_CardinalityType
  <2>2. QED BY <2>1 DEF Counters, Excess
<1>4. Over = {x \in Msgs \X Nat : 1 <= x[2] /\ x[2] <= Excess(x[1])} BY DEF Over
<1>5. Over' = {x \in Msgs \X Nat : 1 <= x[2] /\ x[2] <= Excess(x[1])'} BY DEF Over
<1>6. CASE Cheap
  <2>1. Over' \subseteq Over BY <1>1, <1>3, <1>4, <1>5, <1>6 DEF Cheap, Grows
  <2>2. IsFiniteSet(Over') /\ Cardinality(Over') \in Nat /\ Cardinality(Over) \in Nat /\ Cardinality(Over') <= Cardinality(Over)
    BY <2>1, FewerHopes DEF Paid
  <2>3. /\ {faults, acts, faults', acts'} \subseteq Nat /\ Cardinality(Over) <= faults + acts
        /\ faults + acts <= faults' + acts'
    BY <1>6 DEF Paid, Counters, Cheap
  <2>4. Cardinality(Over') <= faults' + acts' BY <2>2, <2>3
  <2>5. QED BY <1>2, <2>2, <2>4 DEF Paid
<1>7. CASE Dear
  <2>1. PICK k \in Msgs : Grows(k, 1) /\ \A m \in Msgs \ {k} : Grows(m, 0) BY <1>7 DEF Dear
  <2>2. Over' \subseteq Over \cup {<<k, Excess(k) + 1>>}
    <3> SUFFICES ASSUME NEW x \in Over' PROVE x \in Over \/ x = <<k, Excess(k) + 1>> OBVIOUS
    <3>1. x \in Msgs \X Nat /\ 1 <= x[2] /\ x[2] <= Excess(x[1])' /\ x = <<x[1], x[2]>> BY <1>5
    <3>2. CASE x[1] = k
      <4>1. x[2] <= Excess(k) + 1 BY <1>1, <1>3, <2>1, <3>1, <3>2 DEF Grows
      <4>2. x[2] <= Excess(k) \/ x[2] = Excess(k) + 1 BY <1>1, <3>1, <4>1
      <4>3. QED BY <1>4, <3>1, <3>2, <4>2
    <3>3. CASE x[1] # k
      <4>1. x[2] <= Excess(x[1]) BY <1>1, <1>3, <2>1, <3>1, <3>3 DEF Grows
      <4>2. QED BY <1>4, <3>1, <4>1
    <3>4. QED BY <3>2, <3>3
  <2>3. IsFiniteSet(Over') /\ Cardinality(Over') \in Nat /\ Cardinality(Over) \in Nat /\ Cardinality(Over') <= Cardinality(Over) + 1
    BY <2>2, OneMoreHope DEF Paid
  <2>4. /\ {faults, acts, faults', acts'} \subseteq Nat /\ Cardinality(Over) <= faults + acts
        /\ faults + acts < faults' + acts'
    BY <1>7 DEF Paid, Counters, Dear
  <2>5. Cardinality(Over') <= faults' + acts' BY <2>3, <2>4
  <2>6. QED BY <1>2, <2>3, <2>5 DEF Paid
<1>8. QED BY <1>6, <1>7

-----------------------------------------------------------------------------
(* Steps of one worker.                                                    *)

AllBatches == \A p \in Processes : BatchOf(p)
After      == Counters' /\ AllBatches' /\ FirstHeard' /\ (Cheap \/ Dear)

LEMMA GotoIs ==
    ASSUME RowsInv, NEW p \in Processes, NEW pc, Goto(p, pc)
    PROVE  Others(p) /\ worker'[p].ctx = worker[p].ctx /\ worker'[p].pc = pc /\ worker'[p].batch = worker[p].batch
BY DEF RowsInv, IsWorker, Goto, Others

LEMMA CtxIs ==
    ASSUME RowsInv, NEW p \in Processes, NEW x, worker' = [worker EXCEPT ![p].ctx = x]
    PROVE  Others(p) /\ worker'[p].ctx = x /\ worker'[p].pc = worker[p].pc /\ worker'[p].batch = worker[p].batch
BY DEF RowsInv, IsWorker, Others

LEMMA DoneIs ==
    ASSUME RowsInv, NEW p \in Processes, Done1(p)
    PROVE  /\ Others(p) /\ worker'[p].ctx = worker[p].ctx /\ worker'[p].pc = "row"
           /\ worker'[p].batch = worker[p].batch \ {Next1(p)}
<1>1. PICK c, l, t, b : worker[p] = [ctx |-> c, pc |-> l, todo |-> t, batch |-> b] BY DEF RowsInv, IsWorker
<1> DEFINE rest == worker[p].batch \ {Next1(p)}
           one  == [worker EXCEPT ![p].pc = "row"]
<1>2. worker' = [one EXCEPT ![p].batch = rest]
  <2>1. one[p].batch = worker[p].batch BY <1>1 DEF RowsInv
  <2>2. QED BY <2>1 DEF Done1
<1>3. one[p] = [ctx |-> c, pc |-> "row", todo |-> t, batch |-> b] /\ \A q \in Processes : q # p => one[q] = worker[q]
  BY <1>1 DEF RowsInv
<1>4. one = [q \in Processes |-> one[q]] BY DEF RowsInv
<1> HIDE DEF one, rest
<1>5. /\ worker'[p].ctx = c /\ worker'[p].pc = "row" /\ worker'[p].batch = rest
      /\ \A q \in Processes : q # p => worker'[q] = one[q]
  BY <1>2, <1>3, <1>4
<1>6. QED BY <1>1, <1>3, <1>5 DEF rest, Others

LEMMA NextIsThere ==
    ASSUME NEW p \in Processes, BatchOf(p), worker[p].pc \in {"load", "send", "complete", "isolate", "retry"}
    PROVE  Next1(p) \in worker[p].batch /\ Next1(p) \in Msgs
<1>1. worker[p].batch # {} /\ worker[p].batch \subseteq Msgs BY DEF BatchOf
<1>2. PICK m : m \in worker[p].batch BY <1>1
<1>3. Next1(p) \in worker[p].batch BY <1>2 DEF Next1
<1>4. QED BY <1>1, <1>3

LEMMA BatchesStay ==
    ASSUME AllBatches, NEW p \in Processes, Others(p), BatchOf(p)'
    PROVE  AllBatches'
BY DEF AllBatches, BatchOf, Others

LEMMA FreshStays ==
    ASSUME FirstHeard, NEW p \in Processes, Others(p), reports' = reports, enqueued' = enqueued,
           \A m \in Msgs : rows[m].status = "absent" /\ m \notin worker[p].batch
                           => rows'[m].status = "absent" /\ accepted'[m] = accepted[m] /\ m \notin worker'[p].batch
    PROVE  FirstHeard'
<1> SUFFICES ASSUME NEW m \in Msgs, reports'[m[1]] = 0 PROVE Unheard(m)' BY DEF FirstHeard
<1>1. Unheard(m) BY DEF FirstHeard
<1>2. \A q \in Processes : m \notin worker'[q].batch BY <1>1 DEF Unheard, Others
<1>3. QED BY <1>1, <1>2 DEF Unheard

\* Steps that change nothing but the worker's own point in the loop or its Context.
LEMMA QuietStep ==
    ASSUME OutboxInv, NEW p \in Processes, Others(p), worker'[p].batch = worker[p].batch, BatchOf(p)',
           UNCHANGED <<rows, reports, acts, enqueued, accepted>>, faults' \in Nat, faults <= faults',
           \A m \in Msgs : (Sends(p, m)' => Sends(p, m)) /\ (Returns(p, m)' => Returns(p, m))
    PROVE  After
<1>1. Counters' BY DEF Counters, OutboxInv, Shapes
<1>2. AllBatches' BY BatchesStay DEF OutboxInv, Shapes, AllBatches
<1>3. FirstHeard' BY FreshStays DEF OutboxInv
<1>4. \A m \in Msgs : Keeps(m) BY Untouched
<1>5. \A m \in Msgs : Grows(m, 0) BY <1>1, <1>4, Priced DEF OutboxInv, Shapes, Paid
<1>6. faults + acts <= faults' + acts' BY DEF OutboxInv, Shapes, Counters
<1>7. QED BY <1>1, <1>2, <1>3, <1>5, <1>6 DEF After, Cheap

LEMMA SameActs ==
    ASSUME faults \in Nat, acts \in Nat, faults' \in Nat, faults <= faults', acts' = acts
    PROVE  faults + acts <= faults' + acts'
<1>1. \A a, b, c, d \in Nat : a <= c /\ d = b => a + b <= c + d OBVIOUS
<1>2. acts' \in Nat OBVIOUS
<1>3. QED BY <1>1, <1>2, Zenon

LEMMA OneFault ==
    ASSUME Counters, Fault, acts' = acts
    PROVE  faults' \in Nat /\ faults + acts < faults' + acts'
<1>1. \A a, b, c, d \in Nat : c = a + 1 /\ d = b => a + b < c + d OBVIOUS
<1>2. faults \in Nat /\ acts \in Nat /\ acts' \in Nat BY DEF Counters
<1>3. faults' = faults + 1 /\ faults' \in Nat BY <1>2 DEF Fault
<1>4. QED BY <1>1, <1>2, <1>3, Zenon

LEMMA Dearer == ASSUME Counters, Counters', faults + acts < faults' + acts' PROVE faults + acts <= faults' + acts'
<1>1. \A a, b, c, d \in Nat : a + b < c + d => a + b <= c + d OBVIOUS
<1>2. faults \in Nat /\ acts \in Nat /\ faults' \in Nat /\ acts' \in Nat BY DEF Counters
<1>3. QED BY <1>1, <1>2, Zenon

LEMMA FaultCounts == ASSUME OutboxInv, faults' = faults \/ Fault PROVE faults' \in Nat /\ faults <= faults'
BY DEF Fault, OutboxInv, Shapes, Counters

LEMMA QuietMoves ==
    ASSUME OutboxInv, NEW p \in Processes,
           \/ Start(p) \/ ClaimList(p) \/ DrainRow(p) \/ LoadChannel(p) \/ LoadFails(p) \/ CompleteFails(p)
           \/ WorkerReturns(p) \/ Boot(p)
    PROVE  After
<1>1. RowsInv /\ BatchOf(p) BY DEF OutboxInv, Shapes
<1>2. UNCHANGED <<rows, reports, acts, enqueued, accepted>> /\ (faults' = faults \/ Fault)
  BY DEF Start, ClaimList, DrainRow, LoadChannel, LoadFails, CompleteFails, WorkerReturns, Boot, Bounds
<1>3. faults' \in Nat /\ faults <= faults' BY <1>2, FaultCounts
<1>4. CASE Start(p) \/ WorkerReturns(p) \/ Boot(p)
  <2>1. PICK x \in {"on", "off", "new"} : worker' = [worker EXCEPT ![p].ctx = x] BY <1>4 DEF Start, WorkerReturns, Boot
  <2>2. Others(p) /\ worker'[p].ctx = x /\ worker'[p].pc = worker[p].pc /\ worker'[p].batch = worker[p].batch
    BY <1>1, <2>1, CtxIs
  <2>3. worker[p].pc = "idle" BY <1>1, <1>4 DEF Start, WorkerReturns, Boot, BatchOf
  <2>4. BatchOf(p)' BY <1>1, <2>2, <2>3 DEF BatchOf
  <2>5. \A m \in Msgs : (Sends(p, m)' => Sends(p, m)) /\ (Returns(p, m)' => Returns(p, m))
    BY <2>2, <2>3 DEF Sends, Returns
  <2>6. QED BY <1>2, <1>3, <2>2, <2>4, <2>5, QuietStep
<1>5. CASE ClaimList(p)
  <2>1. worker'[p] = [ctx |-> "on", pc |-> "claim", todo |-> {m \in Msgs : Due(m)}, batch |-> {}] /\ Others(p)
    BY <1>1, <1>5 DEF ClaimList, RowsInv, Others
  <2>2. worker'[p].ctx = "on" /\ worker'[p].pc = "claim" /\ worker'[p].batch = {} BY <2>1
  <2>3. worker[p].batch = {} BY <1>1, <1>5 DEF ClaimList, BatchOf
  <2>4. BatchOf(p)' BY <2>2 DEF BatchOf
  <2>5. \A m \in Msgs : (Sends(p, m)' => Sends(p, m)) /\ (Returns(p, m)' => Returns(p, m))
    BY <2>2 DEF Sends, Returns
  <2>6. QED BY <1>2, <1>3, <2>1, <2>2, <2>3, <2>4, <2>5, QuietStep
<1>6. CASE DrainRow(p) \/ LoadChannel(p) \/ LoadFails(p) \/ CompleteFails(p)
  <2>1. PICK pc \in {"idle", "load", "retry", "send", "complete", "isolate"} : Goto(p, pc)
    BY <1>6 DEF DrainRow, LoadChannel, LoadFails, CompleteFails
  <2>2. Others(p) /\ worker'[p].ctx = worker[p].ctx /\ worker'[p].pc = pc /\ worker'[p].batch = worker[p].batch
    BY <1>1, <2>1, GotoIs
  <2>3. Next1(p)' = Next1(p) BY <2>2, SameHand
  <2>4. CASE DrainRow(p)
    <3>1. worker[p].pc \in {"claim", "row"} /\ pc \in {"idle", "load"} /\ (pc = "idle" <=> worker[p].batch = {})
      <4>1. worker'[p].pc = IF worker[p].batch = {} THEN "idle" ELSE "load"
        BY <1>1, <2>4, GotoIs DEF DrainRow
      <4>2. QED BY <2>2, <2>4, <4>1 DEF DrainRow
    <3>2. BatchOf(p)' BY <1>1, <2>2, <3>1 DEF BatchOf
    <3>3. \A m \in Msgs : (Sends(p, m)' => Sends(p, m)) /\ (Returns(p, m)' => Returns(p, m))
      BY <2>2, <3>1 DEF Sends, Returns
    <3>4. QED BY <1>2, <1>3, <2>2, <3>2, <3>3, QuietStep
  <2>5. CASE LoadChannel(p) \/ LoadFails(p)
    <3>1. worker[p].pc = "load" /\ pc \in {"retry", "send", "complete"} /\ (pc # "retry" => worker[p].ctx = "on")
      <4>1. CASE LoadChannel(p)
        <5> DEFINE go == IF ~CanWrite(p) THEN "retry" ELSE IF channel[Next1(p)[2]].exists THEN "send" ELSE "complete"
        <5>1. Goto(p, go) /\ worker[p].pc = "load" BY <4>1 DEF LoadChannel
        <5>2. worker'[p].pc = go BY <1>1, <5>1, GotoIs
        <5>3. QED BY <2>2, <5>1, <5>2 DEF CanWrite
      <4>2. CASE LoadFails(p)
        <5>1. worker'[p].pc = "retry" BY <1>1, <4>2, GotoIs DEF LoadFails
        <5>2. QED BY <2>2, <4>2, <5>1 DEF LoadFails
      <4>3. QED BY <2>5, <4>1, <4>2
    <3>2. BatchOf(p)' BY <1>1, <2>2, <3>1 DEF BatchOf
    <3>3. \A m \in Msgs : (Sends(p, m)' => Sends(p, m)) /\ (Returns(p, m)' => Returns(p, m))
      BY <2>2, <3>1 DEF Sends, Returns
    <3>4. QED BY <1>2, <1>3, <2>2, <3>2, <3>3, QuietStep
  <2>6. CASE CompleteFails(p)
    <3>1. worker[p].pc = "complete" /\ pc = "isolate"
      BY <1>1, <2>2, <2>6, GotoIs DEF CompleteFails
    <3>2. BatchOf(p)' BY <1>1, <2>2, <3>1 DEF BatchOf
    <3>3. \A m \in Msgs : (Sends(p, m)' => Sends(p, m)) /\ (Returns(p, m)' => Returns(p, m))
      <4>1. \A m \in Msgs : Holds(p, m)' = Holds(p, m) BY <1>2 DEF Holds
      <4>2. QED BY <2>2, <2>3, <3>1, <4>1 DEF Sends, Returns
    <3>4. QED BY <1>2, <1>3, <2>2, <3>2, <3>3, QuietStep
  <2>7. QED BY <1>6, <2>4, <2>5, <2>6
<1>7. QED BY <1>4, <1>5, <1>6

\* What was to be sent has been, and nothing else about the message has changed.
LEMMA SentOnce ==
    ASSUME NEW p \in Processes, Others(p), NEW m \in Msgs, rows'[m] = rows[m], m \in worker'[p].batch,
           Sends(p, m), ~Sends(p, m)', Returns(p, m)' => Returns(p, m)
    PROVE  Loses(m)
<1> DEFINE x == <<"send", p>>
<1>1. Claimable(m)' => Claimable(m) BY SameClaim
<1>2. x \in Hopes(m) BY HopesAre
<1>3. x \notin Hopes(m)' BY HopesAre
<1>4. Hopes(m)' \subseteq Hopes(m) BY <1>1, OthersHope, HopesAre
<1>5. QED BY <1>2, <1>3, <1>4 DEF Loses

LEMMA SendMoves == ASSUME OutboxInv, NEW p \in Processes, SendToChannel(p) \/ SendUnanswered(p) PROVE After
<1>1. RowsInv /\ BatchOf(p) /\ Counters /\ worker[p].pc = "send"
  BY DEF OutboxInv, Shapes, SendToChannel, SendUnanswered
<1>2. PICK one \in Msgs : one = Next1(p) /\ one \in worker[p].batch BY <1>1, NextIsThere
<1>3. UNCHANGED <<rows, reports, acts, enqueued>> /\ (faults' = faults \/ Fault)
  BY DEF SendToChannel, SendUnanswered, Bounds
<1>4. faults' \in Nat /\ faults <= faults' BY <1>3, FaultCounts
<1>5. PICK pc \in {"complete", "retry"} : Goto(p, pc) BY DEF SendToChannel, SendUnanswered
<1>6. Others(p) /\ worker'[p].ctx = worker[p].ctx /\ worker'[p].pc = pc /\ worker'[p].batch = worker[p].batch
  BY <1>1, <1>5, GotoIs
<1>7. Next1(p)' = one BY <1>2, <1>6, SameHand
<1>8. BatchOf(p)' BY <1>1, <1>6 DEF BatchOf
<1>9. \A m \in Msgs : Returns(p, m)' => Returns(p, m)
  <2>1. \A m \in Msgs : Holds(p, m)' = Holds(p, m) BY <1>3 DEF Holds
  <2>2. QED BY <1>1, <1>2, <1>6, <1>7, <2>1 DEF Returns
<1>10. \A m \in Msgs : Sends(p, m)' => Sends(p, m) BY <1>1, <1>6 DEF Sends
<1>11. CASE accepted' = accepted BY <1>3, <1>4, <1>6, <1>8, <1>9, <1>10, <1>11, QuietStep
<1>12. CASE accepted' # accepted
  <2>1. /\ accepted' = [accepted EXCEPT ![one] = accepted[one] + 1]
        /\ Goto(p, "complete") \/ (Fault /\ SendUnanswered(p))
    BY <1>2, <1>12 DEF SendToChannel, SendUnanswered
  <2>2. /\ \A m \in Msgs \ {one} : accepted'[m] = accepted[m]
        /\ accepted'[one] = accepted[one] + 1 /\ accepted' \in [Msgs -> Nat]
    BY <1>1, <1>2, <2>1 DEF Counters
  <2>3. Counters' BY <1>1, <1>3, <1>4, <2>2 DEF Counters
  <2>4. AllBatches' BY <1>6, <1>8, BatchesStay DEF OutboxInv, Shapes, AllBatches
  <2>5. FirstHeard' BY <1>2, <1>3, <1>6, <2>2, FreshStays DEF OutboxInv
  <2>6. \A m \in Msgs : IsFiniteSet(Hopes(m)) BY DEF OutboxInv, Paid
  <2>7. \A m \in Msgs : Keeps(m) BY <1>3, <1>6, <1>9, <1>10, Untouched
  <2>8. \A m \in Msgs \ {one} : Grows(m, 0) BY <1>1, <1>3, <2>2, <2>3, <2>6, <2>7, Priced
  <2>9. CASE Goto(p, "complete")
    <3>1. worker'[p].pc = "complete" BY <1>1, <2>9, GotoIs
    <3>2. Sends(p, one) /\ ~Sends(p, one)' /\ one \in worker'[p].batch BY <1>1, <1>2, <1>6, <1>7, <3>1 DEF Sends
    <3>3. rows'[one] = rows[one] BY <1>3
    <3>4. Loses(one) BY <1>6, <1>9, <3>2, <3>3, SentOnce
    <3>5. Grows(one, 0) BY <1>1, <1>2, <1>3, <2>2, <2>3, <2>6, <3>4, Priced
    <3>6. faults + acts <= faults' + acts'
      <4>1. acts' = acts BY <1>3
      <4>2. faults \in Nat /\ acts \in Nat /\ faults' \in Nat /\ acts' \in Nat BY <1>1, <2>3 DEF Counters
      <4>3. QED BY <1>4, <4>1, <4>2, SameActs
    <3>7. QED BY <2>3, <2>4, <2>5, <2>8, <3>5, <3>6 DEF After, Cheap
  <2>10. CASE Fault
    <3>1. Grows(one, 1) BY <1>1, <1>2, <1>3, <2>2, <2>3, <2>6, <2>7, Priced
    <3>2. faults + acts < faults' + acts' BY <1>1, <1>3, <2>10 DEF Counters, Fault
    <3>3. QED BY <1>2, <2>3, <2>4, <2>5, <2>8, <3>1, <3>2 DEF After, Dear
  <2>11. QED BY <2>1, <2>9, <2>10
<1>13. QED BY <1>11, <1>12

-----------------------------------------------------------------------------
(* Steps that end the row at hand.                                         *)

\* The row ends with the statement, or the statement finds that the lease has moved on.
LEMMA EndsRow ==
    ASSUME OutboxInv, NEW p \in Processes, worker[p].pc \in {"complete", "isolate", "retry"}, worker[p].ctx = "on", Done1(p),
           NEW r, r.status # "running", r.status = "pending" => worker[p].pc = "retry",
           rows' = IF Holds(p, Next1(p)) THEN [rows EXCEPT ![Next1(p)] = r] ELSE rows,
           UNCHANGED <<reports, acts, faults, enqueued, accepted>>
    PROVE  After
<1>1. RowsInv /\ BatchOf(p) /\ Counters BY DEF OutboxInv, Shapes
<1>2. PICK one \in Msgs : one = Next1(p) /\ one \in worker[p].batch BY <1>1, NextIsThere
<1>3. Others(p) /\ worker'[p].ctx = "on" /\ worker'[p].pc = "row" /\ worker'[p].batch = worker[p].batch \ {one}
  BY <1>1, <1>2, DoneIs
<1>4. \A m \in Msgs \ {one} : rows'[m] = rows[m] BY <1>1, <1>2 DEF RowsInv
<1>5. rows'[one] = IF Holds(p, one) THEN r ELSE rows[one] BY <1>1, <1>2 DEF RowsInv
<1>6. Counters' BY <1>1 DEF Counters
<1>7. BatchOf(p)' BY <1>1, <1>3 DEF BatchOf
<1>8. AllBatches' BY <1>3, <1>7, BatchesStay DEF OutboxInv, Shapes, AllBatches
<1>9. FirstHeard' BY <1>2, <1>3, <1>4, FreshStays DEF OutboxInv
<1>10. \A m \in Msgs : ~Returns(p, m)' BY <1>3 DEF Returns
<1>11. \A m \in Msgs \ {one} : Keeps(m)
  <2> SUFFICES ASSUME NEW m \in Msgs \ {one} PROVE Keeps(m) OBVIOUS
  <2>1. Sends(p, m)' => Sends(p, m) BY <1>2, <1>3 DEF Sends
  <2>2. QED BY <1>3, <1>4, <1>10, <2>1, Untouched
<1>12. Keeps(one) \/ Trades(one)
  <2>1. ~Sends(p, one)' BY <1>3 DEF Sends
  <2>2. \A q \in Processes : q # p => (Sends(q, one)' => Sends(q, one)) /\ (Returns(q, one)' => Returns(q, one))
    <3>1. rows'[one] = rows[one] \/ rows'[one].status # "running" BY <1>5
    <3>2. QED BY <1>3, <3>1, OthersHope
  <2>3. CASE Claimable(one)' => Claimable(one) BY <1>10, <2>1, <2>2, <2>3, HopesAre DEF Keeps
  <2>4. CASE Claimable(one)' /\ ~Claimable(one)
    <3>1. Holds(p, one)
      <4> SUFFICES ASSUME ~Holds(p, one) PROVE FALSE OBVIOUS
      <4>1. rows'[one] = rows[one] BY <1>5
      <4>2. QED BY <1>3, <2>4, <4>1, SameClaim
    <3>2. rows'[one] = r BY <1>5, <3>1
    <3>3. r.status = "pending" BY <2>4, <3>2 DEF Claimable
    <3>4. worker[p].pc = "retry" BY <3>3
    <3>5. Sends(p, one) BY <1>2, <3>4 DEF Sends
    <3>6. <<"send", p>> \in Hopes(one) BY <3>5, HopesAre
    <3>7. Hopes(one)' \subseteq (Hopes(one) \ {<<"send", p>>}) \cup {<<"claim", Nobody>>}
      BY <1>10, <2>1, <2>2, HopesAre
    <3>8. QED BY <3>6, <3>7 DEF Trades
  <2>5. QED BY <2>3, <2>4
<1>13. \A m \in Msgs : Grows(m, 0) BY <1>1, <1>6, <1>11, <1>12, Priced DEF OutboxInv, Paid
<1>14. faults + acts <= faults' + acts' BY <1>1 DEF Counters
<1>15. QED BY <1>6, <1>8, <1>9, <1>13, <1>14 DEF After, Cheap

LEMMA EndingMoves ==
    ASSUME OutboxInv, NEW p \in Processes, CompleteOutbox(p) \/ MarkOutboxUncertain(p) \/ RetryOutbox(p)
    PROVE  After
<1>1. worker[p].ctx = "on" /\ Done1(p) /\ UNCHANGED <<reports, acts, faults, enqueued, accepted>>
  BY DEF CompleteOutbox, MarkOutboxUncertain, RetryOutbox, CanWrite, Bounds
<1>2. CASE CompleteOutbox(p)
  <2>1. NoRow.status = "absent" BY DEF NoRow
  <2>2. QED BY <1>1, <1>2, <2>1, EndsRow DEF CompleteOutbox
<1>3. CASE MarkOutboxUncertain(p)
  <2>1. Isolated(Next1(p)).status = "uncertain" BY DEF Isolated
  <2>2. QED BY <1>1, <1>3, <2>1, EndsRow DEF MarkOutboxUncertain
<1>4. CASE RetryOutbox(p)
  <2> DEFINE r == Retried(Next1(p), rows[Next1(p)].attempts >= MaxAttempts)
  <2>1. r.status \in {"dead", "pending"} BY DEF Retried
  <2>2. /\ rows' = IF Holds(p, Next1(p)) THEN [rows EXCEPT ![Next1(p)] = r] ELSE rows
        /\ worker[p].pc = "retry"
    BY <1>4 DEF RetryOutbox
  <2> HIDE DEF r
  <2>3. QED BY <1>1, <2>1, <2>2, EndsRow
<1>5. QED BY <1>2, <1>3, <1>4

\* A worker that lets go of rows it has not sent: what it was to send will be claimed again.
LEMMA LetsGo ==
    ASSUME NEW p \in Processes, Others(p), NEW m \in Msgs, rows'[m] = rows[m],
           m \notin worker'[p].batch, m \in worker[p].batch => Sends(p, m) \/ Returns(p, m) \/ ~Holds(p, m)
    PROVE  Keeps(m) \/ Trades(m)
<1>1. ~Sends(p, m)' /\ ~Returns(p, m)' BY DEF Sends, Returns
<1>2. CASE m \in worker[p].batch /\ Sends(p, m)
  <2>1. <<"send", p>> \in Hopes(m) BY <1>2, HopesAre
  <2>2. Hopes(m)' \subseteq (Hopes(m) \ {<<"send", p>>}) \cup {<<"claim", Nobody>>} BY <1>1, OthersHope, HopesAre
  <2>3. QED BY <2>1, <2>2 DEF Trades
<1>3. CASE m \in worker[p].batch /\ Returns(p, m)
  <2>1. <<"return", p>> \in Hopes(m) BY <1>3, HopesAre
  <2>2. Hopes(m)' \subseteq (Hopes(m) \ {<<"return", p>>}) \cup {<<"claim", Nobody>>} BY <1>1, OthersHope, HopesAre
  <2>3. QED BY <2>1, <2>2 DEF Trades
<1>4. CASE m \notin worker[p].batch \/ ~Holds(p, m)
  <2>1. Claimable(m)' => Claimable(m) BY <1>4, SameClaim
  <2>2. Hopes(m)' \subseteq Hopes(m) BY <1>1, <2>1, OthersHope, HopesAre
  <2>3. QED BY <2>2 DEF Keeps
<1>5. QED BY <1>2, <1>3, <1>4

LEMMA ClaimEndsMoves == ASSUME OutboxInv, NEW p \in Processes, ClaimFails(p) PROVE After
<1>1. RowsInv /\ BatchOf(p) /\ Counters /\ AllBatches /\ worker[p].pc = "claim"
  BY DEF OutboxInv, Shapes, AllBatches, ClaimFails
<1>2. UNCHANGED <<rows, reports, acts, enqueued, accepted>> /\ (faults' = faults \/ Fault)
  BY DEF ClaimFails
<1>3. faults' \in Nat /\ faults <= faults' BY <1>2, FaultCounts
<1>4. worker'[p] = [Resting EXCEPT !.ctx = worker[p].ctx] /\ Others(p)
  BY <1>1 DEF ClaimFails, RowsInv, Others
<1>5. worker'[p].batch = {} /\ worker'[p].pc = "idle" /\ worker'[p].ctx = worker[p].ctx BY <1>4 DEF Resting
<1>6. Counters' BY <1>1, <1>2, <1>3 DEF Counters
<1>7. BatchOf(p)' BY <1>1, <1>5 DEF BatchOf
<1>8. AllBatches' BY <1>1, <1>4, <1>7, BatchesStay
<1>9. FirstHeard' BY <1>2, <1>4, <1>5, FreshStays DEF OutboxInv
<1>10. \A m \in Msgs : Keeps(m) \/ Trades(m)
  <2>1. \A m \in worker[p].batch : Sends(p, m) BY <1>1 DEF Sends
  <2>2. QED BY <1>2, <1>4, <1>5, <2>1, LetsGo
<1>11. \A m \in Msgs : Grows(m, 0) BY <1>1, <1>2, <1>6, <1>10, Priced DEF OutboxInv, Paid
<1>12. faults + acts <= faults' + acts' BY <1>1, <1>2, <1>3, SameActs DEF Counters
<1>13. QED BY <1>6, <1>8, <1>9, <1>11, <1>12 DEF After, Cheap

\* The row at hand stays running.  A worker whose Context lasts has met a failed statement; one that
\* is ending was to send it or was expected to let it come back.
LEMMA WriteFailsMoves == ASSUME OutboxInv, NEW p \in Processes, WriteFails(p) PROVE After
<1>1. RowsInv /\ BatchOf(p) /\ Counters /\ AllBatches /\ worker[p].pc \in {"isolate", "retry"}
  BY DEF OutboxInv, Shapes, AllBatches, WriteFails
<1>2. UNCHANGED <<rows, reports, acts, enqueued, accepted>> /\ (faults' = faults \/ Fault)
  BY DEF WriteFails
<1>3. faults' \in Nat /\ faults <= faults' BY <1>2, FaultCounts
<1>4. PICK one \in Msgs : one = Next1(p) /\ one \in worker[p].batch BY <1>1, NextIsThere
<1>5. Others(p) /\ worker'[p].ctx = worker[p].ctx /\ worker'[p].pc = "row" /\ worker'[p].batch = worker[p].batch \ {one}
  BY <1>1, <1>4, DoneIs DEF WriteFails
<1>6. Counters' BY <1>1, <1>2, <1>3 DEF Counters
<1>7. BatchOf(p)' BY <1>1, <1>5 DEF BatchOf
<1>8. AllBatches' BY <1>1, <1>5, <1>7, BatchesStay
<1>9. FirstHeard' BY <1>2, <1>5, FreshStays DEF OutboxInv
<1>10. \A m \in Msgs \ {one} : Keeps(m)
  <2> SUFFICES ASSUME NEW m \in Msgs \ {one} PROVE Keeps(m) OBVIOUS
  <2>1. Sends(p, m)' => Sends(p, m) BY <1>4, <1>5 DEF Sends
  <2>2. ~Returns(p, m)' BY <1>5 DEF Returns
  <2>3. QED BY <1>2, <1>5, <2>1, <2>2, Untouched
<1>11. \A m \in Msgs \ {one} : Grows(m, 0) BY <1>1, <1>2, <1>6, <1>10, Priced DEF OutboxInv, Paid
<1>12. worker[p].ctx \in {"on", "ending"} BY <1>1 DEF BatchOf
<1>13. CASE Sends(p, one) \/ Returns(p, one) \/ ~Holds(p, one)
  <2>1. Keeps(one) \/ Trades(one) BY <1>2, <1>5, <1>13, LetsGo
  <2>2. Grows(one, 0) BY <1>1, <1>2, <1>6, <2>1, Priced DEF OutboxInv, Paid
  <2>3. faults + acts <= faults' + acts' BY <1>1, <1>2, <1>3, SameActs DEF Counters
  <2>4. QED BY <1>6, <1>8, <1>9, <1>11, <2>2, <2>3 DEF After, Cheap
<1>14. CASE ~Sends(p, one) /\ ~Returns(p, one) /\ Holds(p, one)
  <2>1. worker[p].pc = "isolate" /\ worker[p].ctx # "ending" BY <1>1, <1>4, <1>14 DEF Sends, Returns
  <2>2. Fault
    <3>1. worker[p].ctx = "on" BY <1>12, <2>1
    <3>2. QED BY <3>1 DEF WriteFails, CanWrite
  <2>3. Gains(one)
    <3>1. ~Sends(p, one)' /\ ~Returns(p, one)' BY <1>5 DEF Sends, Returns
    <3>2. rows'[one] = rows[one] BY <1>2
    <3>3. Hopes(one)' \subseteq Hopes(one) \cup {<<"claim", Nobody>>} BY <1>5, <3>1, <3>2, OthersHope, HopesAre
    <3>4. QED BY <3>3 DEF Gains
  <2>4. Grows(one, 1) BY <1>1, <1>2, <1>6, <2>3, Priced DEF OutboxInv, Paid
  <2>5. faults + acts < faults' + acts' BY <1>1, <1>2, <2>2, OneFault
  <2>6. QED BY <1>6, <1>8, <1>9, <1>11, <2>4, <2>5 DEF After, Dear
<1>15. QED BY <1>13, <1>14

LEMMA ClaimIs ==
    ASSUME RowsInv, NEW p \in Processes, NEW m, worker' = [worker EXCEPT ![p].todo = @ \ {m}, ![p].batch = @ \cup {m}]
    PROVE  /\ Others(p) /\ worker'[p].ctx = worker[p].ctx /\ worker'[p].pc = worker[p].pc
           /\ worker'[p].batch = worker[p].batch \cup {m} /\ worker'[p].todo = worker[p].todo \ {m}
<1>1. PICK c, l, t, b : worker[p] = [ctx |-> c, pc |-> l, todo |-> t, batch |-> b] BY DEF RowsInv, IsWorker
<1> DEFINE left == worker[p].todo \ {m}
           more == worker[p].batch \cup {m}
           one  == [worker EXCEPT ![p].todo = left]
<1>2. worker' = [one EXCEPT ![p].batch = more]
  <2>1. one[p].batch = worker[p].batch BY <1>1 DEF RowsInv
  <2>2. worker' = [one EXCEPT ![p].batch = @ \cup {m}] OBVIOUS
  <2> HIDE DEF one
  <2>3. QED BY <2>1, <2>2
<1>3. one[p] = [ctx |-> c, pc |-> l, todo |-> left, batch |-> b] /\ \A q \in Processes : q # p => one[q] = worker[q]
  BY <1>1 DEF RowsInv
<1>4. one = [q \in Processes |-> one[q]] BY DEF RowsInv
<1> HIDE DEF one, left, more
<1>5. /\ worker'[p].ctx = c /\ worker'[p].pc = l /\ worker'[p].batch = more /\ worker'[p].todo = left
      /\ \A q \in Processes : q # p => worker'[q] = one[q]
  BY <1>2, <1>3, <1>4
<1>6. Others(p) BY <1>3, <1>5 DEF Others
<1>7. worker[p].ctx = c /\ worker[p].pc = l BY <1>1
<1>8. QED BY <1>5, <1>6, <1>7 DEF left, more

LEMMA TodoIs ==
    ASSUME RowsInv, NEW p \in Processes, NEW t, worker' = [worker EXCEPT ![p].todo = t]
    PROVE  /\ Others(p) /\ worker'[p].ctx = worker[p].ctx /\ worker'[p].pc = worker[p].pc
           /\ worker'[p].batch = worker[p].batch /\ worker'[p].todo = t
BY DEF RowsInv, IsWorker, Others

\* The claim turns into a send.
LEMMA ClaimMoves == ASSUME OutboxInv, NEW p \in Processes, ClaimRow(p) PROVE After
<1>1. RowsInv /\ BatchOf(p) /\ Counters /\ AllBatches /\ worker[p].pc = "claim" /\ worker[p].todo \subseteq Msgs
  BY DEF OutboxInv, Shapes, AllBatches, ClaimRow
<1>2. UNCHANGED <<reports, acts, faults, enqueued, accepted>> BY DEF ClaimRow, Bounds
<1>3. Counters' BY <1>1, <1>2 DEF Counters
<1>4. PICK one \in worker[p].todo :
         IF Due(one)
         THEN /\ rows' = [rows EXCEPT ![one] = [status |-> "running", attempts |-> @.attempts + 1,
                                              due |-> TRUE, live |-> TRUE, token |-> p]]
              /\ worker' = [worker EXCEPT ![p].todo = @ \ {one}, ![p].batch = @ \cup {one}]
         ELSE /\ worker' = [worker EXCEPT ![p].todo = @ \ {one}]
              /\ rows' = rows
  BY DEF ClaimRow
<1>5. one \in Msgs BY <1>1
<1>6. CASE ~Due(one)
  <2>1. worker' = [worker EXCEPT ![p].todo = worker[p].todo \ {one}] /\ rows' = rows BY <1>4, <1>6
  <2>2. Others(p) /\ worker'[p].ctx = worker[p].ctx /\ worker'[p].pc = "claim" /\ worker'[p].batch = worker[p].batch
    BY <1>1, <2>1, TodoIs
  <2>3. BatchOf(p)' BY <1>1, <2>2 DEF BatchOf
  <2>4. \A m \in Msgs : (Sends(p, m)' => Sends(p, m)) /\ (Returns(p, m)' => Returns(p, m))
    BY <1>1, <2>2 DEF Sends, Returns
  <2>5. faults' \in Nat /\ faults <= faults' BY <1>2, FaultCounts
  <2>6. QED BY <1>2, <2>1, <2>2, <2>3, <2>4, <2>5, QuietStep
<1>7. CASE Due(one)
  <2> DEFINE run == [status |-> "running", attempts |-> rows[one].attempts + 1, due |-> TRUE, live |-> TRUE, token |-> p]
  <2>1. rows' = [rows EXCEPT ![one] = run] /\ worker' = [worker EXCEPT ![p].todo = @ \ {one}, ![p].batch = @ \cup {one}]
    BY <1>4, <1>7
  <2>2. run.status = "running" /\ run.token = p /\ run.live = TRUE OBVIOUS
  <2> HIDE DEF run
  <2>3. rows'[one] = run /\ \A m \in Msgs \ {one} : rows'[m] = rows[m] BY <1>1, <1>5, <2>1 DEF RowsInv
  <2>4. Others(p) /\ worker'[p].ctx = worker[p].ctx /\ worker'[p].pc = "claim" /\ worker'[p].batch = worker[p].batch \cup {one}
    BY <1>1, <2>1, ClaimIs
  <2>5. BatchOf(p)' BY <1>1, <1>5, <2>4 DEF BatchOf
  <2>6. AllBatches' BY <1>1, <2>4, <2>5, BatchesStay
  <2>7. rows[one].status \in {"pending", "running"} BY <1>7 DEF Due
  <2>8. FirstHeard' BY <1>2, <2>3, <2>4, <2>7, FreshStays DEF OutboxInv
  <2>9. \A m \in Msgs \ {one} : Keeps(m)
    <3> SUFFICES ASSUME NEW m \in Msgs \ {one} PROVE Keeps(m) OBVIOUS
    <3>1. Sends(p, m)' => Sends(p, m) BY <1>1, <2>4 DEF Sends
    <3>2. ~Returns(p, m)' BY <2>4 DEF Returns
    <3>3. QED BY <2>3, <2>4, <3>1, <3>2, Untouched
  <2>10. Trades(one)
    <3>1. <<"claim", Nobody>> \in Hopes(one)
      <4>1. Claimable(one) BY <1>7 DEF Due, Claimable
      <4>2. QED BY <4>1, HopesAre
    <3>2. ~Returns(p, one)' BY <2>4 DEF Returns
    <3>3. ~Claimable(one)'
      <4>1. Holds(p, one)' /\ one \in worker'[p].batch BY <2>2, <2>3, <2>4 DEF Holds
      <4>2. WorkedOn(one)' BY <4>1 DEF WorkedOn
      <4>3. QED BY <2>2, <2>3, <4>2 DEF Claimable
    <3>4. \A q \in Processes : q # p => (Sends(q, one)' => Sends(q, one)) /\ (Returns(q, one)' => Returns(q, one))
      BY <1>5, <2>2, <2>3, <2>4, OthersHope
    <3>5. Hopes(one)' \subseteq (Hopes(one) \ {<<"claim", Nobody>>}) \cup {<<"send", p>>}
      BY <3>2, <3>3, <3>4, HopesAre
    <3>6. QED BY <3>1, <3>5 DEF Trades
  <2>11. \A m \in Msgs : Grows(m, 0) BY <1>1, <1>2, <1>3, <2>9, <2>10, Priced DEF OutboxInv, Paid
  <2>12. faults + acts <= faults' + acts' BY <1>1, <1>2 DEF Counters
  <2>13. QED BY <1>3, <2>6, <2>8, <2>11, <2>12 DEF After, Cheap
<1>8. QED BY <1>6, <1>7

\* Letting go of everything: only the message in hand may cost a second delivery.
LEMMA ProcessCrashMoves == ASSUME OutboxInv, NEW p \in Processes, ProcessCrash(p) PROVE After
<1>1. RowsInv /\ BatchOf(p) /\ Counters /\ AllBatches BY DEF OutboxInv, Shapes, AllBatches
<1>2. UNCHANGED <<rows, reports, acts, enqueued, accepted>> /\ Fault BY DEF ProcessCrash
<1>3. faults' \in Nat /\ faults + acts < faults' + acts' BY <1>1, <1>2, OneFault
<1>4. worker'[p] = [Resting EXCEPT !.ctx = "off"] /\ Others(p) BY <1>1 DEF ProcessCrash, RowsInv, Others
<1>5. worker'[p].batch = {} /\ worker'[p].pc = "idle" /\ worker'[p].ctx = "off" BY <1>4 DEF Resting
<1>6. Counters' BY <1>1, <1>2, <1>3 DEF Counters
<1>7. BatchOf(p)' BY <1>1, <1>5 DEF BatchOf
<1>8. AllBatches' BY <1>1, <1>4, <1>7, BatchesStay
<1>9. FirstHeard' BY <1>2, <1>4, <1>5, FreshStays DEF OutboxInv
<1>10. \A m \in Msgs : m # Next1(p) => Grows(m, 0)
  <2> SUFFICES ASSUME NEW m \in Msgs, m # Next1(p) PROVE Grows(m, 0) OBVIOUS
  <2>1. m \in worker[p].batch => Sends(p, m) BY DEF Sends
  <2>2. Keeps(m) \/ Trades(m) BY <1>2, <1>4, <1>5, <2>1, LetsGo
  <2>3. QED BY <1>1, <1>2, <1>6, <2>2, Priced DEF OutboxInv, Paid
<1>11. CASE Next1(p) \notin Msgs
  <2>1. \A m \in Msgs : Grows(m, 0) BY <1>10, <1>11
  <2>2. faults + acts <= faults' + acts' BY <1>1, <1>3, <1>6, Dearer
  <2>3. QED BY <1>6, <1>8, <1>9, <2>1, <2>2 DEF After, Cheap
<1>12. CASE Next1(p) \in Msgs
  <2>1. PICK one \in Msgs : one = Next1(p) BY <1>12
  <2>2. ~Sends(p, one)' /\ ~Returns(p, one)' BY <1>5 DEF Sends, Returns
  <2>3. rows'[one] = rows[one] BY <1>2
  <2>4. Hopes(one)' \subseteq Hopes(one) \cup {<<"claim", Nobody>>} BY <1>4, <2>2, <2>3, OthersHope, HopesAre
  <2>5. Grows(one, 1) BY <1>1, <1>2, <1>6, <2>4, Priced DEF Gains, OutboxInv, Paid
  <2>6. QED BY <1>3, <1>6, <1>8, <1>9, <1>10, <2>1, <2>5 DEF After, Dear
<1>13. QED BY <1>11, <1>12

\* A worker told to end may be sending: its statements will fail, and the message comes back.
LEMMA ShutdownMoves == ASSUME OutboxInv, NEW p \in Processes, Shutdown(p) PROVE After
<1>1. RowsInv /\ BatchOf(p) /\ Counters /\ AllBatches BY DEF OutboxInv, Shapes, AllBatches
<1>2. UNCHANGED <<rows, reports, faults, enqueued, accepted>> /\ Act BY DEF Shutdown
<1>3. acts' \in Nat /\ faults + acts < faults' + acts'
  <2>1. \A a, b, c, d \in Nat : c = a /\ d = b + 1 => a + b < c + d OBVIOUS
  <2>2. faults \in Nat /\ acts \in Nat /\ faults' = faults BY <1>1, <1>2 DEF Counters
  <2>3. acts' = acts + 1 /\ acts' \in Nat BY <1>2, <2>2 DEF Act
  <2>4. QED BY <2>1, <2>2, <2>3, Zenon
<1>4. worker' = [worker EXCEPT ![p].ctx = "ending"] /\ worker[p].ctx = "on" BY DEF Shutdown
<1>5. Others(p) /\ worker'[p].ctx = "ending" /\ worker'[p].pc = worker[p].pc /\ worker'[p].batch = worker[p].batch
  BY <1>1, <1>4, CtxIs
<1>6. Counters' BY <1>1, <1>2, <1>3 DEF Counters
<1>7. BatchOf(p)' BY <1>1, <1>5 DEF BatchOf
<1>8. AllBatches' BY <1>1, <1>5, <1>7, BatchesStay
<1>9. FirstHeard' BY <1>2, <1>5, FreshStays DEF OutboxInv
<1>10. Next1(p)' = Next1(p) BY <1>5, SameHand
<1>11. \A m \in Msgs : Sends(p, m)' => Sends(p, m) BY <1>5, <1>10 DEF Sends
<1>12. \A m \in Msgs : m # Next1(p) => Grows(m, 0)
  <2> SUFFICES ASSUME NEW m \in Msgs, m # Next1(p) PROVE Grows(m, 0) OBVIOUS
  <2>1. ~Returns(p, m)' BY <1>10 DEF Returns
  <2>2. Keeps(m) BY <1>2, <1>5, <1>11, <2>1, Untouched
  <2>3. QED BY <1>1, <1>2, <1>6, <2>2, Priced DEF OutboxInv, Paid
<1>13. CASE Next1(p) \notin Msgs
  <2>1. \A m \in Msgs : Grows(m, 0) BY <1>12, <1>13
  <2>2. faults + acts <= faults' + acts' BY <1>1, <1>3, <1>6, Dearer
  <2>3. QED BY <1>6, <1>8, <1>9, <2>1, <2>2 DEF After, Cheap
<1>14. CASE Next1(p) \in Msgs
  <2>1. PICK one \in Msgs : one = Next1(p) BY <1>14
  <2>2. rows'[one] = rows[one] BY <1>2
  <2>3. Claimable(one)' => Claimable(one) BY <1>5, <2>2, SameClaim
  <2>4. Hopes(one)' \subseteq Hopes(one) \cup {<<"return", p>>} BY <1>5, <1>11, <2>2, <2>3, OthersHope, HopesAre
  <2>5. Grows(one, 1) BY <1>1, <1>2, <1>6, <2>4, Priced DEF Gains, OutboxInv, Paid
  <2>6. QED BY <1>3, <1>6, <1>8, <1>9, <1>12, <2>1, <2>5 DEF After, Dear
<1>15. QED BY <1>13, <1>14

-----------------------------------------------------------------------------
(* Steps of the others: reports, time, operators.                          *)

\* Where no worker moves and the row stays, goes or is new.
LEMMA NoWorkerMoves ==
    ASSUME worker' = worker, NEW m \in Msgs
    PROVE  /\ rows'[m] = rows[m] \/ rows'[m].status = "absent" => Keeps(m)
           /\ rows[m].status # "running" /\ rows'[m].status # "running" => Gains(m)
           /\ rows[m].status = "pending" /\ rows'[m].status = "pending" => Keeps(m)
           /\ rows'[m].status = rows[m].status /\ rows'[m].token = rows[m].token => Gains(m)
           /\ /\ rows'[m].status = rows[m].status /\ rows'[m].token = rows[m].token
              /\ rows[m].status = "running" /\ ~WorkedOn(m)
              => Keeps(m)
<1>1. \A p \in Processes : Sends(p, m)' = Sends(p, m) BY DEF Sends, Next1
<1>2. ASSUME \A p \in Processes : Holds(p, m)' => Holds(p, m)
      PROVE  /\ \A p \in Processes : Returns(p, m)' => Returns(p, m)
             /\ Hopes(m)' \subseteq Hopes(m) \cup {<<"claim", Nobody>>}
             /\ (Claimable(m)' => Claimable(m)) => Keeps(m)
  <2>1. \A p \in Processes : Returns(p, m)' => Returns(p, m) BY <1>2 DEF Returns, Next1
  <2>2. Hopes(m)' \subseteq Hopes(m) \cup {<<"claim", Nobody>>} BY <1>1, <2>1, HopesAre
  <2>3. (Claimable(m)' => Claimable(m)) => Keeps(m) BY <1>1, <2>1, HopesAre DEF Keeps
  <2>4. QED BY <2>1, <2>2, <2>3
<1>3. rows'[m] = rows[m] \/ rows'[m].status = "absent" => Keeps(m)
  <2>1. rows'[m] = rows[m] => \A p \in Processes : Holds(p, m)' = Holds(p, m) BY DEF Holds
  <2>2. rows'[m].status = "absent" => \A p \in Processes : ~Holds(p, m)' BY DEF Holds
  <2>3. rows'[m] = rows[m] => (Claimable(m)' => Claimable(m)) BY <2>1 DEF Claimable, WorkedOn
  <2>4. rows'[m].status = "absent" => ~Claimable(m)' BY DEF Claimable
  <2>5. QED BY <1>2, <2>1, <2>2, <2>3, <2>4
<1>4. rows[m].status # "running" /\ rows'[m].status # "running" => Gains(m)
  <2>1. rows'[m].status # "running" => \A p \in Processes : ~Holds(p, m)' BY DEF Holds
  <2>2. QED BY <1>2, <2>1 DEF Gains
<1>5. rows[m].status = "pending" /\ rows'[m].status = "pending" => Keeps(m)
  <2>1. rows'[m].status = "pending" => \A p \in Processes : ~Holds(p, m)' BY DEF Holds
  <2>2. rows[m].status = "pending" => Claimable(m) BY DEF Claimable
  <2>3. QED BY <1>2, <2>1, <2>2
<1>6. rows'[m].status = rows[m].status /\ rows'[m].token = rows[m].token => Gains(m)
  <2> SUFFICES ASSUME rows'[m].status = rows[m].status, rows'[m].token = rows[m].token PROVE Gains(m) OBVIOUS
  <2>1. \A p \in Processes : Holds(p, m)' = Holds(p, m) BY DEF Holds
  <2>2. QED BY <1>2, <2>1 DEF Gains
<1>7. ASSUME rows'[m].status = rows[m].status, rows'[m].token = rows[m].token, rows[m].status = "running", ~WorkedOn(m)
      PROVE  Keeps(m)
  <2>1. \A p \in Processes : Holds(p, m)' = Holds(p, m) BY <1>7 DEF Holds
  <2>2. Claimable(m) BY <1>7 DEF Claimable
  <2>3. QED BY <1>2, <2>1, <2>2
<1>8. QED BY <1>3, <1>4, <1>5, <1>6, <1>7

\* Steps in which only rows change or go.
LEMMA BackgroundMoves ==
    ASSUME OutboxInv, worker' = worker, UNCHANGED <<reports, enqueued, accepted>>,
           faults' \in Nat, acts' \in Nat, faults + acts <= faults' + acts',
           \A m \in Msgs : \/ rows'[m] = rows[m] \/ rows'[m].status = "absent"
                           \/ rows[m].status = "pending" /\ rows'[m].status = "pending"
    PROVE  After
<1>1. Counters' BY DEF OutboxInv, Shapes, Counters
<1>2. AllBatches' BY DEF OutboxInv, Shapes, AllBatches, BatchOf
<1>3. FirstHeard' BY DEF OutboxInv, FirstHeard, Unheard
<1>4. \A m \in Msgs : Keeps(m) BY NoWorkerMoves
<1>5. \A m \in Msgs : Grows(m, 0) BY <1>1, <1>4, Priced DEF OutboxInv, Shapes, Paid
<1>6. QED BY <1>1, <1>2, <1>3, <1>5 DEF After, Cheap

LEMMA NotifyMoves == ASSUME OutboxInv, NEW p \in Processes, NEW e \in Events, NotifyEvent(p, e) PROVE After
<1>1. RowsInv /\ Counters /\ AllBatches /\ worker' = worker /\ UNCHANGED <<acts, faults>>
  BY DEF OutboxInv, Shapes, AllBatches, NotifyEvent
<1>2. reports' = [reports EXCEPT ![e] = reports[e] + 1] BY DEF NotifyEvent
<1>3. reports' \in [Events -> Nat] /\ reports'[e] # 0 /\ \A f \in Events \ {e} : reports'[f] = reports[f]
  BY <1>1, <1>2 DEF Counters
<1>4. AllBatches' BY <1>1 DEF AllBatches, BatchOf
<1>5. faults + acts <= faults' + acts' BY <1>1 DEF Counters
<1>6. \A m \in Msgs : m[1] \in Events BY DEF Msgs
<1>7. CASE (worker[p].ctx # "new" \/ e \in Keyed) /\ EnqueueOutbox(e) /\ accepted' = accepted
  <2> DEFINE new == {e} \X {c \in Channels : Inserts(e, c)}
  <2>1. /\ rows' = [m \in Msgs |-> IF m \in new THEN Inserted ELSE rows[m]]
        /\ enqueued' = [m \in Msgs |-> IF m \in new THEN enqueued[m] + 1 ELSE enqueued[m]]
    BY <1>7 DEF EnqueueOutbox
  <2>2. \A m \in new : rows[m].status = "absent" /\ m[1] = e BY DEF Inserts
  <2>3. Inserted.status = "pending" BY DEF Inserted
  <2> HIDE DEF new
  <2>4. Counters' BY <1>1, <1>3, <1>7, <2>1 DEF Counters
  <2>5. FirstHeard'
    <3> SUFFICES ASSUME NEW m \in Msgs, reports'[m[1]] = 0 PROVE Unheard(m)' BY DEF FirstHeard
    <3>1. m[1] # e /\ reports[m[1]] = 0 BY <1>3, <1>6
    <3>2. Unheard(m) /\ m \notin new BY <2>2, <3>1 DEF OutboxInv, FirstHeard
    <3>3. QED BY <1>1, <1>7, <2>1, <3>2 DEF Unheard
  <2>6. \A m \in Msgs : Grows(m, 0)
    <3> SUFFICES ASSUME NEW m \in Msgs PROVE Grows(m, 0) OBVIOUS
    <3>1. IsFiniteSet(Hopes(m)) BY DEF OutboxInv, Paid
    <3>2. CASE m \in new
      <4>1. Gains(m) BY <1>1, <2>1, <2>2, <2>3, <3>2, NoWorkerMoves
      <4>2. QED BY <1>1, <1>7, <2>1, <2>4, <3>1, <3>2, <4>1, Priced
    <3>3. CASE m \notin new
      <4>1. Keeps(m) BY <1>1, <2>1, <3>3, NoWorkerMoves
      <4>2. QED BY <1>1, <1>7, <2>1, <2>4, <3>1, <3>3, <4>1, Priced
    <3>4. QED BY <3>2, <3>3
  <2>7. QED BY <1>4, <1>5, <2>4, <2>5, <2>6 DEF After, Cheap
<1>8. CASE /\ e \notin Keyed /\ rows' = rows
           /\ accepted' = [m \in Msgs |-> IF m[1] = e /\ m[2] \in Eligible(e) /\ channel[m[2]].works
                                          THEN accepted[m] + 1 ELSE accepted[m]]
           /\ enqueued' = [m \in Msgs |-> IF m[1] = e THEN 1 ELSE enqueued[m]]
  <2>1. reports[e] = 0 BY <1>1, <1>8 DEF NotifyEvent, Counters
  <2>2. \A m \in Msgs : m[1] = e => Unheard(m) BY <2>1 DEF OutboxInv, FirstHeard
  <2>3. Counters' BY <1>1, <1>3, <1>8 DEF Counters
  <2>4. FirstHeard'
    <3> SUFFICES ASSUME NEW m \in Msgs, reports'[m[1]] = 0 PROVE Unheard(m)' BY DEF FirstHeard
    <3>1. m[1] # e /\ reports[m[1]] = 0 BY <1>3, <1>6
    <3>2. Unheard(m) BY <3>1 DEF OutboxInv, FirstHeard
    <3>3. QED BY <1>1, <1>8, <3>1, <3>2 DEF Unheard
  <2>5. \A m \in Msgs : Grows(m, 0)
    <3> SUFFICES ASSUME NEW m \in Msgs PROVE Grows(m, 0) OBVIOUS
    <3>1. IsFiniteSet(Hopes(m)) BY DEF OutboxInv, Paid
    <3>2. Keeps(m) BY <1>1, <1>8, NoWorkerMoves
    <3>3. CASE m[1] # e BY <1>1, <1>8, <2>3, <3>1, <3>2, <3>3, Priced
    <3>4. CASE m[1] = e
      <4>1. accepted[m] = 0 /\ enqueued[m] = 0 BY <2>2, <3>4 DEF Unheard
      <4>2. (accepted'[m] = 0 \/ accepted'[m] = 1) /\ enqueued'[m] = 1 BY <1>8, <3>4, <4>1
      <4>3. IsFiniteSet(Hopes(m)') /\ Size(m) \in Nat /\ Size(m)' \in Nat /\ Size(m)' <= Size(m) BY <3>1, <3>2, Sizes
      <4>4. Excess(m) = accepted[m] + Size(m) - enqueued[m] /\ Excess(m)' = accepted'[m] + Size(m)' - enqueued'[m]
        BY DEF Excess, Size
      <4>5. QED BY <4>1, <4>2, <4>3, <4>4 DEF Grows
    <3>5. QED BY <3>3, <3>4
  <2>6. QED BY <1>4, <1>5, <2>3, <2>4, <2>5 DEF After, Cheap
<1>9. QED BY <1>7, <1>8 DEF NotifyEvent

LEMMA TimeMoves == ASSUME OutboxInv, NEW k \in Msgs, BackoffEnds(k) \/ LeaseLapses(k) PROVE After
<1>1. RowsInv /\ Counters /\ AllBatches BY DEF OutboxInv, Shapes, AllBatches
<1>2. worker' = worker /\ UNCHANGED <<reports, acts, enqueued, accepted>> /\ (faults' = faults \/ Fault)
  BY DEF BackoffEnds, LeaseLapses, Bounds
<1>3. faults' \in Nat /\ faults <= faults' BY <1>2, FaultCounts
<1>4. faults + acts <= faults' + acts' /\ acts' \in Nat BY <1>1, <1>2, <1>3, SameActs DEF Counters
<1>5. \A m \in Msgs \ {k} : rows'[m] = rows[m] BY <1>1 DEF BackoffEnds, LeaseLapses, RowsInv
<1>6. rows'[k].status = rows[k].status /\ rows'[k].token = rows[k].token
  BY <1>1 DEF BackoffEnds, LeaseLapses, RowsInv, IsRow
<1>7. CASE BackoffEnds(k)
  <2>1. rows[k].status = "pending" BY <1>7 DEF BackoffEnds
  <2>2. QED BY <1>2, <1>3, <1>4, <1>5, <1>6, <2>1, BackgroundMoves
<1>8. CASE LeaseLapses(k)
  <2>1. Counters' BY <1>1, <1>2, <1>3 DEF Counters
  <2>2. AllBatches' BY <1>1, <1>2 DEF AllBatches, BatchOf
  <2>3. FirstHeard' BY <1>2, <1>5, <1>6 DEF OutboxInv, FirstHeard, Unheard
  <2>4. \A m \in Msgs \ {k} : Grows(m, 0)
    BY <1>1, <1>2, <1>5, <2>1, NoWorkerMoves, Priced DEF OutboxInv, Paid
  <2>5. rows[k].status = "running" BY <1>8 DEF LeaseLapses
  <2>6. CASE WorkedOn(k)
    <3>1. Fault BY <1>8, <2>6 DEF LeaseLapses
    <3>2. Gains(k) BY <1>2, <1>6, NoWorkerMoves
    <3>3. Grows(k, 1) BY <1>1, <1>2, <2>1, <3>2, Priced DEF OutboxInv, Paid
    <3>4. faults + acts < faults' + acts' BY <1>1, <1>2, <3>1, OneFault
    <3>5. QED BY <2>1, <2>2, <2>3, <2>4, <3>3, <3>4 DEF After, Dear
  <2>7. CASE ~WorkedOn(k)
    <3>1. Keeps(k) BY <1>2, <1>6, <2>5, <2>7, NoWorkerMoves
    <3>2. Grows(k, 0) BY <1>1, <1>2, <2>1, <3>1, Priced DEF OutboxInv, Paid
    <3>3. QED BY <1>4, <2>1, <2>2, <2>3, <2>4, <3>2 DEF After, Cheap
  <2>8. QED BY <2>6, <2>7
<1>9. QED BY <1>7, <1>8

LEMMA OperatorMoves ==
    ASSUME OutboxInv, SetBindings \/ (\E c \in Channels : UpdateChannel(c) \/ DeleteChannel(c)) \/ UNCHANGED outboxVars
    PROVE  After
<1>1. Counters BY DEF OutboxInv, Shapes
<1>2. worker' = worker /\ UNCHANGED <<reports, faults, enqueued, accepted>> /\ (acts' = acts \/ Act)
  BY DEF SetBindings, UpdateChannel, DeleteChannel, outboxVars
<1>3. acts' \in Nat /\ faults' \in Nat /\ faults + acts <= faults' + acts'
  <2>1. \A a, b, c, d \in Nat : c = a /\ (d = b \/ d = b + 1) => a + b <= c + d OBVIOUS
  <2>2. faults \in Nat /\ acts \in Nat /\ faults' = faults BY <1>1, <1>2 DEF Counters
  <2>3. (acts' = acts \/ acts' = acts + 1) /\ acts' \in Nat BY <1>2, <2>2 DEF Act
  <2>4. QED BY <2>1, <2>2, <2>3, Zenon
<1>4. \A m \in Msgs : rows'[m] = rows[m] \/ rows'[m].status = "absent"
  BY DEF SetBindings, UpdateChannel, DeleteChannel, outboxVars, NoRow
<1>5. QED BY <1>2, <1>3, <1>4, BackgroundMoves

\* The rows a worker has listed are messages.
LEMMA TodosStay ==
    ASSUME OutboxInv, [OutboxNext]_outboxVars
    PROVE  \A p \in Processes : worker'[p].todo \subseteq Msgs
<1>1. RowsInv /\ \A p \in Processes : worker[p].todo \subseteq Msgs BY DEF OutboxInv, Shapes
<1>2. CASE worker' = worker BY <1>1, <1>2
<1>3. ASSUME NEW p \in Processes, Others(p), worker'[p].todo \subseteq Msgs
      PROVE  \A q \in Processes : worker'[q].todo \subseteq Msgs
  BY <1>1, <1>3 DEF Others
<1>4. ASSUME NEW p \in Processes, NEW pc, Goto(p, pc) PROVE Others(p) /\ worker'[p].todo \subseteq Msgs
  BY <1>1, <1>4 DEF Goto, Others, RowsInv, IsWorker
<1>5. ASSUME NEW p \in Processes, NEW x, worker' = [worker EXCEPT ![p].ctx = x]
      PROVE  Others(p) /\ worker'[p].todo \subseteq Msgs
  BY <1>1, <1>5 DEF Others, RowsInv, IsWorker
<1>6. ASSUME NEW p \in Processes, Done1(p) PROVE Others(p) /\ worker'[p].todo \subseteq Msgs
  <2>1. PICK c, l, t, b : worker[p] = [ctx |-> c, pc |-> l, todo |-> t, batch |-> b] BY <1>1 DEF RowsInv, IsWorker
  <2> DEFINE rest == worker[p].batch \ {Next1(p)}
             one  == [worker EXCEPT ![p].pc = "row"]
  <2>2. worker' = [one EXCEPT ![p].batch = rest]
    <3>1. one[p].batch = worker[p].batch BY <1>1, <2>1 DEF RowsInv
    <3>2. QED BY <1>6, <3>1 DEF Done1
  <2>3. one[p] = [ctx |-> c, pc |-> "row", todo |-> t, batch |-> b] /\ one = [q \in Processes |-> one[q]]
    BY <1>1, <2>1 DEF RowsInv
  <2> HIDE DEF one, rest
  <2>4. worker'[p].todo = t BY <2>2, <2>3
  <2>5. Others(p) BY <1>1, <1>6, DoneIs
  <2>6. QED BY <1>1, <2>1, <2>4, <2>5
<1>7. ASSUME NEW p \in Processes, ClaimRow(p) PROVE Others(p) /\ worker'[p].todo \subseteq Msgs
  <2>1. PICK m : \/ worker' = [worker EXCEPT ![p].todo = worker[p].todo \ {m}]
                 \/ worker' = [worker EXCEPT ![p].todo = @ \ {m}, ![p].batch = @ \cup {m}]
    BY <1>7 DEF ClaimRow
  <2>2. Others(p) /\ worker'[p].todo = worker[p].todo \ {m} BY <1>1, <2>1, TodoIs, ClaimIs
  <2>3. QED BY <1>1, <2>2
<1>8. ASSUME NEW p \in Processes, ClaimList(p) \/ ClaimFails(p) \/ ProcessCrash(p)
      PROVE  Others(p) /\ worker'[p].todo \subseteq Msgs
  <2>1. CASE ClaimList(p)
    <3>1. worker'[p] = [ctx |-> "on", pc |-> "claim", todo |-> {m \in Msgs : Due(m)}, batch |-> {}] /\ Others(p)
      BY <1>1, <2>1 DEF ClaimList, RowsInv, Others
    <3>2. QED BY <3>1
  <2>2. CASE ClaimFails(p) \/ ProcessCrash(p)
    <3>1. (\E x : worker'[p] = [Resting EXCEPT !.ctx = x]) /\ Others(p)
      BY <1>1, <2>2 DEF ClaimFails, ProcessCrash, RowsInv, Others
    <3>2. worker'[p].todo = {} BY <3>1 DEF Resting
    <3>3. QED BY <3>1, <3>2
  <2>3. QED BY <1>8, <2>1, <2>2
<1>9. ASSUME NEW p \in Processes, WorkerStep(p) \/ ClaimFails(p) \/ LoadFails(p) \/ SendUnanswered(p)
                                  \/ CompleteFails(p) \/ WriteFails(p) \/ Shutdown(p) \/ ProcessCrash(p)
      PROVE  Others(p) /\ worker'[p].todo \subseteq Msgs
  <2>1. CASE Start(p) \/ WorkerReturns(p) \/ Boot(p) \/ Shutdown(p)
    <3>1. \E x : worker' = [worker EXCEPT ![p].ctx = x] BY <2>1 DEF Start, WorkerReturns, Boot, Shutdown
    <3>2. QED BY <1>5, <3>1
  <2>2. CASE DrainRow(p) \/ LoadChannel(p) \/ SendToChannel(p) \/ LoadFails(p) \/ SendUnanswered(p) \/ CompleteFails(p)
    <3>1. \E pc : Goto(p, pc) BY <2>2 DEF DrainRow, LoadChannel, SendToChannel, LoadFails, SendUnanswered, CompleteFails
    <3>2. QED BY <1>4, <3>1
  <2>3. CASE CompleteOutbox(p) \/ MarkOutboxUncertain(p) \/ RetryOutbox(p) \/ WriteFails(p)
    <3>1. Done1(p) BY <2>3 DEF CompleteOutbox, MarkOutboxUncertain, RetryOutbox, WriteFails
    <3>2. QED BY <1>6, <3>1
  <2>4. QED BY <1>7, <1>8, <1>9, <2>1, <2>2, <2>3 DEF WorkerStep
<1>10. CASE worker' # worker
  <2>1. PICK p \in Processes : WorkerStep(p) \/ ClaimFails(p) \/ LoadFails(p) \/ SendUnanswered(p)
                               \/ CompleteFails(p) \/ WriteFails(p) \/ Shutdown(p) \/ ProcessCrash(p)
    BY <1>10 DEF OutboxNext, NotifyEvent, BackoffEnds, LeaseLapses, UpdateChannel, DeleteChannel, SetBindings, outboxVars
  <2>2. QED BY <1>3, <1>9, <2>1
<1>11. QED BY <1>2, <1>10

-----------------------------------------------------------------------------

LEMMA InitOutbox == OutboxInit => OutboxInv
<1> SUFFICES ASSUME OutboxInit PROVE OutboxInv OBVIOUS
<1>1. RowsInv BY InitRows
<1>2. Counters BY DEF OutboxInit, Counters
<1>3. \A p \in Processes : worker[p] = [Resting EXCEPT !.ctx = "new"] BY DEF OutboxInit
<1>4. \A p \in Processes : /\ worker[p].ctx = "new" /\ worker[p].pc = "idle"
                           /\ worker[p].batch = {} /\ worker[p].todo = {}
  BY <1>3 DEF Resting
<1>5. \A p \in Processes : BatchOf(p) /\ worker[p].todo \subseteq Msgs BY <1>4 DEF BatchOf
<1>6. \A m \in Msgs : rows[m].status = "absent" BY DEF OutboxInit, NoRow
<1>7. FirstHeard BY <1>4, <1>6 DEF OutboxInit, FirstHeard, Unheard
<1>8. \A m \in Msgs : Hopes(m) = {} BY <1>4, <1>6 DEF Hopes, Sends, Returns, Claimable
<1>9. IsFiniteSet({}) /\ Cardinality({}) = 0 BY FS_EmptySet
<1>10. \A m \in Msgs : IsFiniteSet(Hopes(m)) /\ Excess(m) = 0
  <2> SUFFICES ASSUME NEW m \in Msgs PROVE IsFiniteSet(Hopes(m)) /\ Excess(m) = 0 OBVIOUS
  <2>1. accepted[m] = 0 /\ enqueued[m] = 0 BY DEF OutboxInit
  <2>2. QED BY <1>8, <1>9, <2>1 DEF Excess
<1>11. Over = {} BY <1>10 DEF Over
<1>12. faults = 0 /\ acts = 0 BY DEF OutboxInit
<1>13. Paid BY <1>9, <1>10, <1>11, <1>12 DEF Paid
<1>14. QED BY <1>1, <1>2, <1>5, <1>7, <1>13 DEF OutboxInv, Shapes

LEMMA NextOutbox == OutboxInv /\ ChannelInv /\ [OutboxNext]_outboxVars => OutboxInv'
<1> SUFFICES ASSUME OutboxInv, ChannelInv, [OutboxNext]_outboxVars PROVE OutboxInv' OBVIOUS
<1>1. After
  <2>1. CASE \E p \in Processes, e \in Events : NotifyEvent(p, e) BY <2>1, NotifyMoves
  <2>2. CASE \E p \in Processes : WorkerStep(p)
    BY <2>2, QuietMoves, ClaimMoves, SendMoves, EndingMoves DEF WorkerStep
  <2>3. CASE \E p \in Processes : ClaimFails(p) \/ LoadFails(p) \/ SendUnanswered(p) \/ CompleteFails(p)
                                 \/ WriteFails(p) \/ Shutdown(p) \/ ProcessCrash(p)
    BY <2>3, ClaimEndsMoves, QuietMoves, SendMoves, WriteFailsMoves, ShutdownMoves, ProcessCrashMoves
  <2>4. CASE \E m \in Msgs : BackoffEnds(m) \/ LeaseLapses(m) BY <2>4, TimeMoves
  <2>5. CASE SetBindings \/ (\E c \in Channels : UpdateChannel(c) \/ DeleteChannel(c)) \/ UNCHANGED outboxVars
    BY <2>5, OperatorMoves
  <2>6. QED BY <2>1, <2>2, <2>3, <2>4, <2>5 DEF OutboxNext
<1>2. RowsInv' BY NextMoves DEF OutboxInv, Shapes
<1>3. Paid' BY <1>1, StepPays DEF OutboxInv, Shapes, After
<1>4. QED BY <1>1, <1>2, <1>3, TodosStay DEF OutboxInv, Shapes, After, AllBatches

LEMMA FewDuplicates == OutboxInv => DuplicatesAreFew
<1> SUFFICES ASSUME OutboxInv PROVE DuplicatesAreFew OBVIOUS
<1>1. Counters /\ Paid BY DEF OutboxInv, Shapes
<1>2. Duplicates \subseteq Over
  <2> SUFFICES ASSUME NEW m \in Msgs, NEW k \in 1 .. Extra(m) PROVE <<m, k>> \in Over BY DEF Duplicates
  <2>1. /\ accepted[m] \in Nat /\ enqueued[m] \in Nat /\ Size(m) \in Nat
        /\ Excess(m) = accepted[m] + Size(m) - enqueued[m]
    BY <1>1, WholeExcess DEF Counters, Paid
  <2>2. k \in Nat /\ 1 <= k /\ k <= Excess(m) BY <2>1 DEF Extra
  <2>3. QED BY <2>2 DEF Over
<1>3. Cardinality(Duplicates) \in Nat /\ Cardinality(Over) \in Nat /\ Cardinality(Duplicates) <= Cardinality(Over)
  BY <1>1, <1>2, FewerHopes DEF Paid
<1>4. Cardinality(Over) <= faults + acts /\ faults \in Nat /\ acts \in Nat BY <1>1 DEF Paid, Counters
<1>5. QED BY <1>3, <1>4 DEF DuplicatesAreFew

\* However long the batches: no more messages arrive a second time than there were crashes, failed
\* statements, lost answers, leases lost at work and acts of operators.
THEOREM DuplicatesAreFewHolds == OutboxSpec => []DuplicatesAreFew
<1>1. OutboxInit => OutboxInv /\ ChannelInv BY InitOutbox, InitRows
<1>2. OutboxInv /\ ChannelInv /\ [OutboxNext]_outboxVars => OutboxInv' /\ ChannelInv' BY NextOutbox, ChannelsKeep
<1>3. QED BY <1>1, <1>2, FewDuplicates, PTL DEF OutboxSpec

-----------------------------------------------------------------------------
(* Nothing is lost: a worker about to remove a row has delivered it, or    *)
(* the channel is gone.                                                    *)

Answered(m)  == accepted[m] > 0 \/ ~channel[m[2]].exists
Confirmed(p) == worker[p].pc = "complete" => Answered(Next1(p))
LostInv      == OutboxInv /\ ChannelInv /\ \A p \in Processes : Confirmed(p)

LEMMA AnswersStay == ASSUME LostInv, [OutboxNext]_outboxVars PROVE \A m \in Msgs : Answered(m) => Answered(m)'
<1>1. Counters /\ ChannelInv BY DEF LostInv, OutboxInv, Shapes
<1>2. \A m \in Msgs : m[2] \in Channels BY DEF Msgs
<1>3. \A m \in Msgs : ~channel[m[2]].exists => ~channel'[m[2]].exists
  <2>1. CASE channel' = channel BY <2>1
  <2>2. ASSUME NEW c \in Channels, UpdateChannel(c) PROVE \A m \in Msgs : ~channel[m[2]].exists => ~channel'[m[2]].exists
    BY <1>1, <2>2 DEF UpdateChannel, ChannelInv
  <2>3. ASSUME NEW c \in Channels, DeleteChannel(c) PROVE \A m \in Msgs : ~channel[m[2]].exists => ~channel'[m[2]].exists
    BY <1>1, <1>2, <2>3 DEF DeleteChannel, ChannelInv, IsChannel
  <2>4. CASE channel' # channel
    <3>1. \E c \in Channels : UpdateChannel(c) \/ DeleteChannel(c)
      BY <2>4 DEF OutboxNext, NotifyEvent, WorkerStep, Start, ClaimList, ClaimRow, DrainRow, LoadChannel, SendToChannel,
         CompleteOutbox, MarkOutboxUncertain, RetryOutbox, WorkerReturns, Boot, ClaimFails, LoadFails, SendUnanswered,
         CompleteFails, WriteFails, Shutdown, ProcessCrash, BackoffEnds, LeaseLapses, SetBindings, outboxVars
    <3>2. QED BY <2>2, <2>3, <3>1
  <2>5. QED BY <2>1, <2>4
<1>4. \A m \in Msgs : accepted[m] > 0 => accepted'[m] > 0
  <2> SUFFICES ASSUME NEW m \in Msgs, accepted[m] > 0 PROVE accepted'[m] > 0 OBVIOUS
  <2>1. accepted[m] \in Nat BY <1>1 DEF Counters
  <2>2. CASE accepted' = accepted BY <2>2
  <2>3. CASE accepted' # accepted
    <3>1. \E p \in Processes : (\E e \in Events : NotifyEvent(p, e)) \/ SendToChannel(p) \/ SendUnanswered(p)
      BY <2>3 DEF OutboxNext, WorkerStep, Start, ClaimList, ClaimRow, DrainRow, LoadChannel, CompleteOutbox,
         MarkOutboxUncertain, RetryOutbox, WorkerReturns, Boot, ClaimFails, LoadFails, CompleteFails, WriteFails,
         Shutdown, ProcessCrash, BackoffEnds, LeaseLapses, UpdateChannel, DeleteChannel, SetBindings, outboxVars
    <3>2. accepted'[m] = accepted[m] \/ accepted'[m] = accepted[m] + 1
      BY <1>1, <2>3, <3>1 DEF NotifyEvent, SendToChannel, SendUnanswered, Counters
    <3>3. QED BY <2>1, <3>2
  <2>4. QED BY <2>2, <2>3
<1>5. QED BY <1>3, <1>4 DEF Answered

LEMMA SameConfirmed ==
    ASSUME LostInv, [OutboxNext]_outboxVars, NEW q \in Processes,
           worker'[q].pc = worker[q].pc, worker'[q].batch = worker[q].batch
    PROVE  Confirmed(q)'
<1>1. CASE worker'[q].pc # "complete" BY <1>1 DEF Confirmed
<1>2. CASE worker'[q].pc = "complete"
  <2>1. PICK m \in Msgs : m = Next1(q) BY <1>2, NextIsThere DEF LostInv, OutboxInv, Shapes
  <2>2. Next1(q)' = m BY <2>1, SameHand
  <2>3. Answered(m) BY <1>2, <2>1 DEF LostInv, Confirmed
  <2>4. Answered(m)' BY <2>3, AnswersStay
  <2>5. QED BY <2>2, <2>4 DEF Confirmed, Answered
<1>3. QED BY <1>1, <1>2

LEMMA OneConfirmed ==
    ASSUME LostInv, [OutboxNext]_outboxVars, NEW p \in Processes, Others(p), Confirmed(p)'
    PROVE  \A q \in Processes : Confirmed(q)'
BY SameConfirmed DEF Others

LEMMA ConfirmedStays == LostInv /\ [OutboxNext]_outboxVars => LostInv'
<1> SUFFICES ASSUME LostInv, [OutboxNext]_outboxVars PROVE LostInv' OBVIOUS
<1>1. OutboxInv' /\ ChannelInv' BY NextOutbox, ChannelsKeep DEF LostInv
<1>2. RowsInv /\ Counters /\ \A p \in Processes : BatchOf(p) BY DEF LostInv, OutboxInv, Shapes
<1>3. CASE worker' = worker BY <1>1, <1>3, SameConfirmed DEF LostInv
<1>4. ASSUME NEW p \in Processes, SendToChannel(p) PROVE Confirmed(p)' /\ Others(p)
  <2>1. PICK pc : Goto(p, pc) BY <1>4 DEF SendToChannel
  <2>2. Others(p) /\ worker'[p].batch = worker[p].batch /\ worker[p].pc = "send" BY <1>2, <1>4, <2>1, GotoIs DEF SendToChannel
  <2>3. PICK m \in Msgs : m = Next1(p) BY <1>2, <2>2, NextIsThere
  <2>4. Next1(p)' = m BY <2>2, <2>3, SameHand
  <2>5. CASE Goto(p, "complete") /\ accepted' = [accepted EXCEPT ![m] = @ + 1]
    <3>1. accepted[m] \in Nat /\ accepted'[m] = accepted[m] + 1 BY <1>2, <2>5 DEF Counters
    <3>2. accepted'[m] > 0 BY <3>1
    <3>3. QED BY <2>2, <2>4, <3>2 DEF Confirmed, Answered
  <2>6. CASE Goto(p, "retry") BY <1>2, <2>2, <2>6, GotoIs DEF Confirmed
  <2>7. QED BY <1>4, <2>3, <2>5, <2>6 DEF SendToChannel
<1>5. ASSUME NEW p \in Processes, LoadChannel(p) PROVE Confirmed(p)' /\ Others(p)
  <2> DEFINE go == IF ~CanWrite(p) THEN "retry" ELSE IF channel[Next1(p)[2]].exists THEN "send" ELSE "complete"
  <2>1. Goto(p, go) /\ worker[p].pc = "load" /\ channel' = channel BY <1>5 DEF LoadChannel
  <2>2. Others(p) /\ worker'[p].batch = worker[p].batch /\ worker'[p].pc = go BY <1>2, <2>1, GotoIs
  <2>3. Next1(p)' = Next1(p) BY <2>2, SameHand
  <2>4. go = "complete" => ~channel[Next1(p)[2]].exists OBVIOUS
  <2> HIDE DEF go
  <2>5. QED BY <2>1, <2>2, <2>3, <2>4 DEF Confirmed, Answered
<1>6. ASSUME NEW p \in Processes, Others(p), worker'[p].pc # "complete" PROVE Confirmed(p)' /\ Others(p)
  BY <1>6 DEF Confirmed
<1>7. ASSUME NEW p \in Processes, Start(p) \/ WorkerReturns(p) \/ Boot(p) \/ Shutdown(p) PROVE Confirmed(p)' /\ Others(p)
  <2>1. PICK x : worker' = [worker EXCEPT ![p].ctx = x] BY <1>7 DEF Start, WorkerReturns, Boot, Shutdown
  <2>2. Others(p) /\ worker'[p].pc = worker[p].pc /\ worker'[p].batch = worker[p].batch BY <1>2, <2>1, CtxIs
  <2>3. QED BY <2>2, SameConfirmed
<1>8. ASSUME NEW p \in Processes, DrainRow(p) \/ LoadFails(p) \/ SendUnanswered(p) \/ CompleteFails(p)
      PROVE  Confirmed(p)' /\ Others(p)
  <2>1. \E pc \in {"idle", "load", "retry", "isolate"} : Goto(p, pc) BY <1>8 DEF DrainRow, LoadFails, SendUnanswered, CompleteFails
  <2>2. QED BY <1>2, <1>6, <2>1, GotoIs
<1>9. ASSUME NEW p \in Processes, CompleteOutbox(p) \/ MarkOutboxUncertain(p) \/ RetryOutbox(p) \/ WriteFails(p)
      PROVE  Confirmed(p)' /\ Others(p)
  <2>1. Done1(p) BY <1>9 DEF CompleteOutbox, MarkOutboxUncertain, RetryOutbox, WriteFails
  <2>2. QED BY <1>2, <1>6, <2>1, DoneIs
<1>10. ASSUME NEW p \in Processes, ClaimRow(p) PROVE Confirmed(p)' /\ Others(p)
  <2>1. PICK m : \/ worker' = [worker EXCEPT ![p].todo = worker[p].todo \ {m}]
                 \/ worker' = [worker EXCEPT ![p].todo = @ \ {m}, ![p].batch = @ \cup {m}]
    BY <1>10 DEF ClaimRow
  <2>2. Others(p) /\ worker'[p].pc = worker[p].pc /\ worker[p].pc = "claim" BY <1>2, <1>10, <2>1, TodoIs, ClaimIs DEF ClaimRow
  <2>3. QED BY <1>6, <2>2
<1>11. ASSUME NEW p \in Processes, ClaimList(p) \/ ClaimFails(p) \/ ProcessCrash(p) PROVE Confirmed(p)' /\ Others(p)
  <2>1. CASE ClaimList(p)
    <3>1. worker'[p] = [ctx |-> "on", pc |-> "claim", todo |-> {m \in Msgs : Due(m)}, batch |-> {}] /\ Others(p)
      BY <1>2, <2>1 DEF ClaimList, RowsInv, Others
    <3>2. worker'[p].pc = "claim" BY <3>1
    <3>3. QED BY <1>6, <3>1, <3>2
  <2>2. CASE ClaimFails(p) \/ ProcessCrash(p)
    <3>1. (\E x : worker'[p] = [Resting EXCEPT !.ctx = x]) /\ Others(p)
      BY <1>2, <2>2 DEF ClaimFails, ProcessCrash, RowsInv, Others
    <3>2. worker'[p].pc = "idle" BY <3>1 DEF Resting
    <3>3. QED BY <1>6, <3>1, <3>2
  <2>3. QED BY <1>11, <2>1, <2>2
<1>12. CASE worker' # worker
  <2>1. PICK p \in Processes : WorkerStep(p) \/ ClaimFails(p) \/ LoadFails(p) \/ SendUnanswered(p)
                               \/ CompleteFails(p) \/ WriteFails(p) \/ Shutdown(p) \/ ProcessCrash(p)
    BY <1>12 DEF OutboxNext, NotifyEvent, BackoffEnds, LeaseLapses, UpdateChannel, DeleteChannel, SetBindings, outboxVars
  <2>2. Confirmed(p)' /\ Others(p) BY <1>4, <1>5, <1>7, <1>8, <1>9, <1>10, <1>11, <2>1 DEF WorkerStep
  <2>3. QED BY <1>1, <2>2, OneConfirmed DEF LostInv
<1>13. QED BY <1>3, <1>12

\* A notification leaves the table only once its channel accepted it, or with its channel.
THEOREM NothingLostHolds == OutboxSpec => NothingLost
<1> DEFINE NoneLost == \A m \in Msgs : rows[m].status # "absent" /\ rows'[m].status = "absent"
                                   => accepted[m] > 0 \/ ~channel'[m[2]].exists
<1>1. OutboxInit => LostInv
  <2>1. OutboxInit => \A p \in Processes : worker[p].pc = "idle" BY DEF OutboxInit, Resting
  <2>2. QED BY <2>1, InitOutbox, InitRows DEF LostInv, Confirmed
<1>2. LostInv /\ [OutboxNext]_outboxVars => NoneLost
  <2> SUFFICES ASSUME LostInv, [OutboxNext]_outboxVars, NEW m \in Msgs, rows[m].status # "absent", rows'[m].status = "absent"
               PROVE  accepted[m] > 0 \/ ~channel'[m[2]].exists
    OBVIOUS
  <2>1. RowsInv /\ ChannelInv /\ m[2] \in Channels BY DEF LostInv, OutboxInv, Shapes, Msgs
  <2>2. ASSUME NEW p \in Processes, CompleteOutbox(p) PROVE accepted[m] > 0 \/ ~channel'[m[2]].exists
    <3>1. m = Next1(p) BY <2>1, <2>2 DEF CompleteOutbox, RowsInv
    <3>2. Answered(m) /\ channel' = channel BY <2>2, <3>1 DEF CompleteOutbox, LostInv, Confirmed
    <3>3. QED BY <3>2 DEF Answered
  <2>3. ASSUME NEW c \in Channels, DeleteChannel(c) PROVE ~channel'[m[2]].exists
    <3>1. m[2] = c BY <2>3 DEF DeleteChannel
    <3>2. QED BY <2>1, <2>3, <3>1 DEF DeleteChannel, ChannelInv, IsChannel
  <2>4. ASSUME NEW p \in Processes, NEW e \in Events, NotifyEvent(p, e) PROVE FALSE
    BY <2>4 DEF NotifyEvent, EnqueueOutbox, Inserted
  <2>5. ASSUME NEW p \in Processes, ClaimRow(p) PROVE FALSE
    <3>1. PICK k : \/ rows' = rows
                   \/ rows' = [rows EXCEPT ![k] = [status |-> "running", attempts |-> rows[k].attempts + 1,
                                                   due |-> TRUE, live |-> TRUE, token |-> p]]
      BY <2>5 DEF ClaimRow
    <3>2. QED BY <2>1, <3>1 DEF RowsInv
  <2>6. ASSUME NEW p \in Processes, MarkOutboxUncertain(p) PROVE FALSE
    BY <2>1, <2>6 DEF MarkOutboxUncertain, RowsInv, Isolated
  <2>7. ASSUME NEW p \in Processes, RetryOutbox(p) PROVE FALSE
    <3>1. \/ rows' = rows
          \/ \E permanent : rows' = [rows EXCEPT ![Next1(p)] = Retried(Next1(p), permanent)]
      BY <2>7 DEF RetryOutbox
    <3>2. \A permanent : Retried(Next1(p), permanent).status \in {"dead", "pending"} BY DEF Retried
    <3>3. QED BY <2>1, <3>1, <3>2 DEF RowsInv
  <2>8. ASSUME NEW k \in Msgs, BackoffEnds(k) \/ LeaseLapses(k) PROVE FALSE
    BY <2>1, <2>8 DEF BackoffEnds, LeaseLapses, RowsInv, IsRow
  <2>9. rows' # rows OBVIOUS
  <2>10. \/ \E p \in Processes : \/ CompleteOutbox(p) \/ ClaimRow(p) \/ MarkOutboxUncertain(p) \/ RetryOutbox(p)
                                 \/ \E e \in Events : NotifyEvent(p, e)
         \/ \E c \in Channels : DeleteChannel(c)
         \/ \E k \in Msgs : BackoffEnds(k) \/ LeaseLapses(k)
    BY <2>9 DEF OutboxNext, WorkerStep, Start, ClaimList, DrainRow, LoadChannel, SendToChannel, WorkerReturns, Boot,
       ClaimFails, LoadFails, SendUnanswered, CompleteFails, WriteFails, Shutdown, ProcessCrash, UpdateChannel, SetBindings,
       outboxVars
  <2>11. QED BY <2>2, <2>3, <2>4, <2>5, <2>6, <2>7, <2>8, <2>10
<1>3. QED BY <1>1, <1>2, ConfirmedStays, PTL DEF OutboxSpec, NothingLost
=============================================================================
