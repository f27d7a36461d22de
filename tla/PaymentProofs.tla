--------------------------- MODULE PaymentProofs ---------------------------
(* Theorems about Payment for every set of orders, requests, prices and      *)
(* refund numbers, every number of faults and every interleaving.            *)
EXTENDS Payment, WalletProofs

-----------------------------------------------------------------------------
(* The inductive invariant.                                                  *)

TxnRow == [status : {"NONE", "PENDING", "SUCCEEDED"},
           ref : {"none", "placeholder", "sandbox", "trade"}]
ChannelRow == [state : {"none", "open", "paid", "closed"}, paid : Nat, told : BOOLEAN]
RequestRow ==
    {Idle}
    \cup [at : {"create", "answered", "fulfil", "close", "closed"}, order : Orders]
    \cup [at : {"refund"}, order : Orders, no : RefundNos, cents : Nat]
    \cup [at : {"retry"}, order : Orders, left : Nat]

(* The types the runs check, and those of the channel and of the requests.   *)
PaymentTypes ==
    /\ PaymentTypeOK
    /\ channel \in [Orders -> ChannelRow]
    /\ request \in [Requests -> RequestRow]

(* One order's row, its transaction and what the channel knows of it.        *)
OrderOK(o) ==
    /\ order[o].status = "NONE" =>
          /\ order[o] = NoOrder /\ txn[o].status = "NONE"
          /\ channel[o].state = "none" /\ refund[o] = NoRefund
    /\ order[o].status # "NONE" /\ order[o].type = "RECHARGE" => order[o].credits > 0
    /\ 1..order[o].credits \subseteq Amounts
    /\ order[o].status = "PENDING" => txn[o].status = "PENDING" /\ ~order[o].fulfilled
    /\ order[o].status # "NONE" => order[o].amount > 0
    /\ revenue[o] # 0 <=> txn[o].status = "SUCCEEDED"
    /\ order[o].status = "SUCCEEDED" \/ order[o].fulfilled => revenue[o] # 0
    /\ revenue[o] # 0 /\ order[o].channel # "sandbox" =>
          txn[o].ref = "trade" /\ channel[o].state = "paid" /\ revenue[o] = channel[o].paid

(* Its refund record.                                                        *)
RefundOK(o) ==
    /\ refund[o].status = "NONE" => refund[o] = NoRefund
    /\ refund[o].status = "COMPLETED" => refund[o].revoked = refund[o].toRevoke
    /\ refund[o].status = "CREDITS_PENDING" => refund[o].revoked = 0
    /\ refund[o].toRevoke <= order[o].credits

(* A refund number is recorded once.                                         *)
NumbersOK == \A o, p \in Orders : refund[o].no = refund[p].no /\ refund[o].no # "none" => o = p

(* What a request remembers of its order is still so.                        *)
RequestFacts(q) ==
    /\ q.at \in {"create", "answered"} =>
          order[q.order].status # "NONE" /\ channel[q.order].state # "paid"
    /\ q.at \in {"close", "closed"} => order[q.order].status # "NONE"
    /\ q.at = "refund" => order[q.order].status # "NONE" /\ q.cents \in 1..order[q.order].amount
    /\ q.at = "retry" => refund[q.order].status # "NONE" /\ q.left = refund[q.order].toRevoke

(* Everything but the ledger.                                                *)
OrdersInv ==
    /\ PaymentTypes
    /\ \A o \in Orders : OrderOK(o) /\ RefundOK(o)
    /\ NumbersOK
    /\ \A r \in Requests : RequestFacts(request[r])

-----------------------------------------------------------------------------
(* What a step means for the order it is about.                              *)

KeepsTerms(row, o) ==
    /\ row.type = order[o].type /\ row.channel = order[o].channel
    /\ row.amount = order[o].amount /\ row.credits = order[o].credits

Creates(o, row, t, f, c) ==
    /\ order[o] = NoOrder
    /\ row.status = "PENDING" /\ ~row.fulfilled /\ row.amount > 0
    /\ row.type = "RECHARGE" => row.credits > 0
    /\ 1..row.credits \subseteq Amounts
    /\ t.status = "PENDING" /\ f = refund[o] /\ c = channel[o]
    /\ revenue' = revenue /\ UNCHANGED walletVars

(* The channel opens, is paid, closes or is answered.                        *)
Tells(o, row, t, f, c) ==
    /\ row = order[o] /\ t = txn[o] /\ f = refund[o]
    /\ order[o].status # "NONE" \/ c.state = channel[o].state
    /\ channel[o].state = "paid" => c.state = "paid" /\ c.paid = channel[o].paid
    /\ c.state = "paid" => channel[o].state = "paid" \/ ~Creating(o)
    /\ revenue' = revenue /\ UNCHANGED walletVars

Refers(o, row, t, f, c) ==
    /\ row = order[o] /\ f = refund[o] /\ c = channel[o]
    /\ order[o].status # "NONE" /\ channel[o].state # "paid"
    /\ t.status = txn[o].status
    /\ revenue' = revenue /\ UNCHANGED walletVars

Settles(o, row, t, f, c) ==
    /\ order[o].status = "PENDING"
    /\ row.status = "SUCCEEDED" /\ (row.fulfilled <=> order[o].type = "RECHARGE")
    /\ KeepsTerms(row, o)
    /\ t.status = "SUCCEEDED" /\ f = refund[o] /\ c.state = channel[o].state
    /\ order[o].channel # "sandbox" =>
          t.ref = "trade" /\ c.state = "paid" /\ c.paid = order[o].amount
    /\ revenue' = [revenue EXCEPT ![o] = order[o].amount]
    /\ IF order[o].type = "RECHARGE" THEN Credit("recharge", o) ELSE UNCHANGED walletVars

Grants(o, row, t, f, c) ==
    /\ order[o].status = "SUCCEEDED" /\ order[o].type = "PLAN" /\ ~order[o].fulfilled
    /\ row.status = "SUCCEEDED" /\ row.fulfilled /\ KeepsTerms(row, o)
    /\ t = txn[o] /\ f = refund[o] /\ c.state = channel[o].state /\ c.paid = channel[o].paid
    /\ revenue' = revenue
    /\ IF order[o].credits > 0 THEN Credit("grant", o) ELSE UNCHANGED walletVars

Fails(o, row, t, f, c) ==
    /\ order[o].status # "NONE"
    /\ row.status = "FAILED" /\ row.fulfilled = order[o].fulfilled /\ KeepsTerms(row, o)
    /\ t = txn[o] /\ f = refund[o] /\ c = channel[o]
    /\ revenue' = revenue /\ UNCHANGED walletVars

Records(o, row, t, f, c) ==
    /\ row = order[o] /\ t = txn[o] /\ c = channel[o]
    /\ order[o].status = "SUCCEEDED" /\ refund[o] = NoRefund
    /\ f.no \in RefundNos /\ \A p \in Orders : refund[p].no # f.no
    /\ f.toRevoke <= order[o].credits
    /\ revenue' = revenue
    /\ \/ /\ f.status = "COMPLETED" /\ f.revoked = f.toRevoke
          /\ Revoke(<<o, f.no>>, f.toRevoke)
       \/ /\ f.status = "CREDITS_PENDING" /\ f.revoked = 0
          /\ UNCHANGED walletVars

Revokes(o, row, t, f, c) ==
    /\ row = order[o] /\ t = txn[o] /\ c = channel[o]
    /\ refund[o].status = "CREDITS_PENDING"
    /\ f.status = "COMPLETED" /\ f.no = refund[o].no
    /\ f.toRevoke = refund[o].toRevoke /\ f.revoked = f.toRevoke
    /\ revenue' = revenue
    /\ Revoke(<<o, "credits">>, f.toRevoke)

OrderStep(o, row, t, f, c) ==
    /\ order' = [order EXCEPT ![o] = row]
    /\ txn' = [txn EXCEPT ![o] = t]
    /\ refund' = [refund EXCEPT ![o] = f]
    /\ channel' = [channel EXCEPT ![o] = c]
    /\ \/ Creates(o, row, t, f, c) \/ Tells(o, row, t, f, c) \/ Refers(o, row, t, f, c)
       \/ Settles(o, row, t, f, c) \/ Grants(o, row, t, f, c) \/ Fails(o, row, t, f, c)
       \/ Records(o, row, t, f, c) \/ Revokes(o, row, t, f, c)

SomeOrderStep ==
    \E o \in Orders : \E row \in OrderRow, t \in TxnRow, f \in RefundRow, c \in ChannelRow :
        OrderStep(o, row, t, f, c)

(* A step that is about no order's tables.                                   *)
NoOrderStep ==
    /\ UNCHANGED <<order, txn, revenue, refund, channel>>
    /\ Spend \/ UNCHANGED walletVars

(* What it means for the requests: one of them moves on, to a place where    *)
(* what it remembers is so.                                                  *)
RequestStep ==
    \/ request' = request
    \/ \E r \in Requests, q \in RequestRow :
          request' = [request EXCEPT ![r] = q] /\ RequestFacts(q)'

StepMeaning ==
    /\ SomeOrderStep \/ NoOrderStep
    /\ RequestStep
    /\ subscription' \in [Orders -> {"NONE", "ACTIVE", "CANCELED"}]
    /\ faults' \in 0..MaxFaults

(* Products and quotients of naturals.                                       *)
LEMMA ProductNat == ASSUME NEW a \in Nat, NEW b \in Nat PROVE a * b \in Nat
OBVIOUS

LEMMA ProductGrows ==
    ASSUME NEW a \in Nat, NEW b \in Nat, NEW k \in Nat, a <= b
    PROVE  a * k <= b * k
OBVIOUS

LEMMA QuotientNat ==
    ASSUME NEW x \in Nat, NEW a \in Nat \ {0}
    PROVE  x \div a \in Nat /\ a * (x \div a) <= x
OBVIOUS

LEMMA QuotientBound ==
    ASSUME NEW x \in Nat, NEW a \in Nat \ {0}, NEW k \in Nat, x <= a * k
    PROVE  x \div a <= k
<1> DEFINE q == x \div a
<1>1. q \in Nat /\ a * q <= x
  BY QuotientNat
<1> HIDE DEF q
<1>2. ASSUME q > k PROVE FALSE
  <2>1. k + 1 \in Nat /\ k + 1 <= q
    BY <1>1, <1>2
  <2>2. (k + 1) * a <= q * a
    BY <1>1, <2>1, ProductGrows
  <2>3. (k + 1) * a = a * k + a /\ q * a = a * q
    BY <1>1
  <2>4. a * k \in Nat /\ a * q \in Nat
    BY <1>1, ProductNat
  <2> QED
    BY <1>1, <2>2, <2>3, <2>4
<1>3. QED
  BY <1>1, <1>2 DEF q

(* One row replaced by itself leaves a table as it was.                      *)
LEMMA SameRow ==
    ASSUME NEW S, NEW T, NEW f \in [S -> T], NEW x \in S
    PROVE  f = [f EXCEPT ![x] = f[x]] /\ f[x] \in T
OBVIOUS

(* The types of the tables, one by one.                                      *)
LEMMA TableTypes ==
    ASSUME PaymentTypes
    PROVE  /\ order \in [Orders -> OrderRow] /\ txn \in [Orders -> TxnRow]
           /\ refund \in [Orders -> RefundRow] /\ channel \in [Orders -> ChannelRow]
           /\ subscription \in [Orders -> {"NONE", "ACTIVE", "CANCELED"}]
           /\ request \in [Requests -> RequestRow]
           /\ revenue \in [Orders -> Nat] /\ faults \in 0..MaxFaults /\ MaxFaults \in Nat
BY PaymentAssumption DEF PaymentTypes, PaymentTypeOK, TxnRow

LEMMA IdleIsOK == Idle \in RequestRow /\ RequestFacts(Idle) /\ RequestFacts(Idle)'
BY DEF Idle, RequestRow, RequestFacts

LEMMA EndsStep == ASSUME NEW r \in Requests, Ends(r) PROVE RequestStep
BY IdleIsOK DEF Ends, RequestStep

(* A request in a step that remembers nothing but its order.                 *)
LEMMA PlainRequest ==
    ASSUME NEW step \in {"create", "answered", "fulfil", "close", "closed"}, NEW o \in Orders
    PROVE  [at |-> step, order |-> o] \in RequestRow
BY DEF RequestRow

LEMMA GoesRow ==
    ASSUME PaymentTypes, NEW r \in Requests, NEW o \in Orders,
           NEW step \in {"create", "answered", "fulfil", "close", "closed"},
           request[r].at \in {"create", "answered", "fulfil", "close", "closed"},
           request[r].order = o, Goes(r, step)
    PROVE  request' = [request EXCEPT ![r] = [at |-> step, order |-> o]]
<1>1. request[r] \in [at : {"create", "answered", "fulfil", "close", "closed"}, order : Orders]
  <2>1. request[r] \in RequestRow
    BY TableTypes
  <2> QED
    BY <2>1 DEF RequestRow, Idle
<1>2. [request[r] EXCEPT !.at = step] = [at |-> step, order |-> o]
  BY <1>1
<1>3. request' = [request EXCEPT ![r] = [request[r] EXCEPT !.at = step]]
  BY DEF Goes
<1>4. QED
  BY <1>2, <1>3

(* Checkout: the order is inserted.                                          *)
LEMMA CreateMeaning ==
    ASSUME OrdersInv, NEW r \in Requests, NEW o \in Orders,
           createRecharge(r, o) \/ createPlanOrder(r, o)
    PROVE  StepMeaning
<1>0. PaymentTypes /\ OrderOK(o) /\ RefundOK(o)
  BY DEF OrdersInv
<1>1. PICK row \in OrderRow :
          /\ Insert(r, o, row)
          /\ row.status = "PENDING" /\ ~row.fulfilled /\ row.amount > 0
          /\ row.type = "RECHARGE" => row.credits > 0
          /\ 1..row.credits \subseteq Amounts
  <2>1. CASE createRecharge(r, o)
    <3>1. PICK amount \in Prices, ch \in Channels :
              LET credits == creditsFromCents(amount, CreditsPerCny)
              IN  /\ credits > 0
                  /\ Insert(r, o, [status |-> "PENDING", type |-> "RECHARGE", channel |-> ch,
                                   amount |-> amount, credits |-> credits, fulfilled |-> FALSE])
      BY <2>1 DEF createRecharge
    <3> DEFINE credits == creditsFromCents(amount, CreditsPerCny)
    <3>2. amount \in Nat /\ amount > 0 /\ credits \in Nat /\ 1..credits \subseteq Amounts
      <4>1. amount \in Nat /\ amount > 0 /\ CreditsPerCny \in Nat
        BY PaymentAssumption
      <4>2. amount * CreditsPerCny \in Nat
        BY <4>1, ProductNat
      <4> QED
        BY <4>1, <4>2, QuotientNat, WalletServesOrders DEF creditsFromCents
    <3> DEFINE row == [status |-> "PENDING", type |-> "RECHARGE", channel |-> ch,
                       amount |-> amount, credits |-> credits, fulfilled |-> FALSE]
    <3>3. Insert(r, o, row) /\ credits > 0
      BY <3>1
    <3> HIDE DEF credits
    <3>4. row \in OrderRow
      BY <3>2 DEF OrderRow
    <3>5. row.status = "PENDING" /\ ~row.fulfilled /\ row.credits = credits /\ row.amount = amount
      OBVIOUS
    <3> HIDE DEF row
    <3> QED
      BY <3>2, <3>3, <3>4, <3>5
  <2>2. CASE createPlanOrder(r, o)
    <3>1. PICK amount \in Prices, ch \in Channels :
              Insert(r, o, [status |-> "PENDING", type |-> "PLAN", channel |-> ch,
                            amount |-> amount, credits |-> PlanCredits, fulfilled |-> FALSE])
      BY <2>2 DEF createPlanOrder
    <3>2. amount \in Nat /\ amount > 0 /\ PlanCredits \in Nat /\ 1..PlanCredits \subseteq Amounts
      BY PaymentAssumption, WalletServesOrders
    <3> DEFINE row == [status |-> "PENDING", type |-> "PLAN", channel |-> ch,
                       amount |-> amount, credits |-> PlanCredits, fulfilled |-> FALSE]
    <3>3. row \in OrderRow
      BY <3>2 DEF OrderRow
    <3>4. /\ row.status = "PENDING" /\ ~row.fulfilled /\ row.amount = amount
          /\ row.credits = PlanCredits /\ row.type = "PLAN"
      OBVIOUS
    <3> HIDE DEF row
    <3> QED
      BY <3>1, <3>2, <3>3, <3>4 DEF row
  <2> QED
    BY <2>1, <2>2
<1> DEFINE t == [status |-> "PENDING", ref |-> "none"]
           q == [at |-> "create", order |-> o]
<1>2. t \in TxnRow /\ t.status = "PENDING"
  BY DEF TxnRow
<1>3. /\ order[o] = NoOrder
      /\ order' = [order EXCEPT ![o] = row]
      /\ txn' = [txn EXCEPT ![o] = t]
      /\ request' = [request EXCEPT ![r] = q]
      /\ UNCHANGED <<walletVars, subscription, revenue, refund, channel, faults>>
  BY <1>1 DEF Insert, Starts
<1> HIDE DEF t
<1>4. Creates(o, row, t, refund[o], channel[o])
  BY <1>1, <1>2, <1>3 DEF Creates
<1>5. OrderStep(o, row, t, refund[o], channel[o])
  BY <1>0, <1>3, <1>4, TableTypes, SameRow DEF OrderStep
<1>6. SomeOrderStep
  BY <1>0, <1>2, <1>5, TableTypes DEF SomeOrderStep
<1>7. q \in RequestRow /\ RequestFacts(q)'
  <2>1. order'[o].status # "NONE"
    BY <1>0, <1>1, <1>3, TableTypes
  <2>2. channel'[o].state # "paid"
    <3>1. order[o].status = "NONE"
      BY <1>3 DEF NoOrder
    <3> QED
      BY <1>0, <1>3, <3>1 DEF OrderOK
  <2> QED
    BY <2>1, <2>2, PlainRequest DEF RequestFacts
<1>8. QED
  BY <1>0, <1>3, <1>6, <1>7, TableTypes DEF StepMeaning, RequestStep

(* A step that leaves the four tables of the order alone.                    *)
LEMMA QuietMeaning ==
    ASSUME PaymentTypes, RequestStep, UNCHANGED <<walletVars, orderVars, channel>>,
           faults' \in 0..MaxFaults
    PROVE  StepMeaning
BY TableTypes DEF StepMeaning, NoOrderStep, orderVars

(* A step of the channel: c is what the channel knows afterwards.            *)
LEMMA TellsMeaning ==
    ASSUME OrdersInv, NEW o \in Orders, NEW c \in ChannelRow, RequestStep,
           channel' = [channel EXCEPT ![o] = c],
           UNCHANGED <<walletVars, orderVars>>, faults' \in 0..MaxFaults,
           order[o].status # "NONE" \/ c.state = channel[o].state,
           channel[o].state = "paid" => c.state = "paid" /\ c.paid = channel[o].paid,
           c.state = "paid" => channel[o].state = "paid" \/ ~Creating(o)
    PROVE  StepMeaning
<1>0. PaymentTypes
  BY DEF OrdersInv
<1>1. Tells(o, order[o], txn[o], refund[o], c)
  BY DEF Tells, orderVars
<1>2. OrderStep(o, order[o], txn[o], refund[o], c)
  BY <1>0, <1>1, TableTypes, SameRow DEF OrderStep, orderVars
<1>3. SomeOrderStep
  BY <1>0, <1>2, TableTypes DEF SomeOrderStep
<1>4. QED
  BY <1>0, <1>3, TableTypes DEF StepMeaning, orderVars

(* What the channel knows of an order, with another state or answered.       *)
LEMMA ChannelState ==
    ASSUME NEW c \in ChannelRow, NEW s \in {"none", "open", "paid", "closed"}
    PROVE  [c EXCEPT !.state = s] \in ChannelRow /\ [c EXCEPT !.state = s].state = s
BY DEF ChannelRow

LEMMA ChannelTold ==
    ASSUME NEW c \in ChannelRow, NEW b \in BOOLEAN
    PROVE  /\ [c EXCEPT !.told = b] \in ChannelRow
           /\ [c EXCEPT !.told = b].state = c.state /\ [c EXCEPT !.told = b].paid = c.paid
BY DEF ChannelRow

LEMMA AcceptsMeaning ==
    ASSUME OrdersInv, NEW r \in Requests, NEW o \in Orders,
           ChannelAccepts(r, o) \/ AnswerLost(r, o)
    PROVE  StepMeaning
<1>0. PaymentTypes /\ On(r, "create", o) /\ RequestFacts(request[r])
  BY DEF OrdersInv, ChannelAccepts, AnswerLost
<1> DEFINE c == [channel[o] EXCEPT !.state = "open"]
           q == [at |-> "answered", order |-> o]
<1>1. order[o].status # "NONE" /\ channel[o].state # "paid"
  BY <1>0 DEF RequestFacts, On, At
<1>2. c \in ChannelRow /\ c.state = "open"
  BY <1>0, TableTypes, ChannelState
<1>3. channel' = [channel EXCEPT ![o] = c] /\ UNCHANGED <<walletVars, orderVars>>
  BY DEF ChannelAccepts, AnswerLost
<1> HIDE DEF c
<1>4. faults' \in 0..MaxFaults
  BY <1>0, TableTypes DEF ChannelAccepts, AnswerLost
<1>5. RequestStep
  <2>1. CASE AnswerLost(r, o)
    BY <2>1, EndsStep DEF AnswerLost
  <2>2. CASE ChannelAccepts(r, o)
    <3>1. request' = [request EXCEPT ![r] = q]
      BY <1>0, <2>2, GoesRow DEF ChannelAccepts, On, At
    <3>2. q \in RequestRow
      BY PlainRequest
    <3>3. RequestFacts(q)'
      BY <1>0, <1>1, <1>2, <1>3, TableTypes DEF RequestFacts, orderVars
    <3> QED
      BY <3>1, <3>2, <3>3 DEF RequestStep
  <2> QED
    BY <2>1, <2>2
<1>6. QED
  BY <1>1, <1>2, <1>3, <1>4, <1>5, TellsMeaning

LEMMA PayMeaning ==
    ASSUME OrdersInv, NEW o \in Orders, Pay(o)
    PROVE  StepMeaning
<1>0. PaymentTypes /\ OrderOK(o)
  BY DEF OrdersInv
<1>1. PICK c \in ChannelRow : channel' = [channel EXCEPT ![o] = c] /\ c.state = "paid"
  <2>1. PICK paid \in {order[o].amount} \cup (1..order[o].amount) :
            channel' = [channel EXCEPT ![o] = [state |-> "paid", paid |-> paid, told |-> FALSE]]
    BY DEF Pay
  <2>2. paid \in Nat
    <3>1. order[o].amount \in Nat
      BY <1>0, TableTypes DEF OrderRow
    <3> QED
      BY <3>1
  <2> DEFINE c == [state |-> "paid", paid |-> paid, told |-> FALSE]
  <2>3. c \in ChannelRow /\ c.state = "paid"
    BY <2>2 DEF ChannelRow
  <2> QED
    BY <2>1, <2>3
<1>2. order[o].status # "NONE"
  BY <1>0 DEF OrderOK, Pay
<1>3. QED
  BY <1>0, <1>1, <1>2, TellsMeaning, TableTypes DEF Pay, RequestStep

LEMMA CloseAtChannelMeaning ==
    ASSUME OrdersInv, NEW r \in Requests, NEW o \in Orders, CloseAtChannel(r, o)
    PROVE  StepMeaning
<1>0. PaymentTypes /\ On(r, "close", o) /\ RequestFacts(request[r])
  BY DEF OrdersInv, CloseAtChannel
<1> DEFINE q == [at |-> "closed", order |-> o]
<1>1. order[o].status # "NONE"
  BY <1>0 DEF RequestFacts, On, At
<1>2. UNCHANGED <<walletVars, orderVars>> /\ faults' \in 0..MaxFaults
  BY <1>0, TableTypes DEF CloseAtChannel
<1>3. RequestStep
  <2>1. request' = [request EXCEPT ![r] = q]
    BY <1>0, GoesRow DEF CloseAtChannel, On, At
  <2>2. q \in RequestRow
    BY PlainRequest
  <2>3. RequestFacts(q)'
    BY <1>1, <1>2 DEF RequestFacts, orderVars
  <2> QED
    BY <2>1, <2>2, <2>3 DEF RequestStep
<1>4. CASE UNCHANGED channel
  BY <1>0, <1>2, <1>3, <1>4, QuietMeaning
<1>5. CASE channel[o].state = "open" /\ channel' = [channel EXCEPT ![o].state = "closed"]
  <2> DEFINE c == [channel[o] EXCEPT !.state = "closed"]
  <2>1. c \in ChannelRow /\ c.state = "closed"
    BY <1>0, TableTypes, ChannelState
  <2>2. channel' = [channel EXCEPT ![o] = c]
    BY <1>5
  <2> HIDE DEF c
  <2> QED
    BY <1>1, <1>2, <1>3, <1>5, <2>1, <2>2, TellsMeaning
<1>6. QED
  BY <1>4, <1>5 DEF CloseAtChannel

LEMMA ReferenceMeaning ==
    ASSUME OrdersInv, NEW r \in Requests, NEW o \in Orders, WriteReference(r, o)
    PROVE  StepMeaning
<1>0. PaymentTypes /\ On(r, "answered", o) /\ RequestFacts(request[r])
  BY DEF OrdersInv, WriteReference
<1> DEFINE t == [txn[o] EXCEPT !.ref = ReferenceOf(o)]
<1>1. order[o].status # "NONE" /\ channel[o].state # "paid"
  BY <1>0 DEF RequestFacts, On, At
<1>2. t \in TxnRow /\ t.status = txn[o].status
  <2>1. ReferenceOf(o) \in {"sandbox", "placeholder"} /\ txn[o] \in TxnRow
    BY <1>0, TableTypes DEF ReferenceOf
  <2> QED
    BY <2>1 DEF TxnRow
<1>3. /\ txn' = [txn EXCEPT ![o] = t]
      /\ UNCHANGED <<walletVars, order, subscription, revenue, refund, channel, faults>>
  BY DEF WriteReference
<1> HIDE DEF t
<1>4. Refers(o, order[o], t, refund[o], channel[o])
  BY <1>1, <1>2, <1>3 DEF Refers
<1>5. OrderStep(o, order[o], t, refund[o], channel[o])
  BY <1>0, <1>3, <1>4, TableTypes, SameRow DEF OrderStep
<1>6. SomeOrderStep
  BY <1>0, <1>2, <1>5, TableTypes DEF SomeOrderStep
<1>7. RequestStep
  BY EndsStep DEF WriteReference
<1>8. QED
  BY <1>0, <1>3, <1>6, <1>7, TableTypes DEF StepMeaning

(* An order row with another status and fulfilment keeps its terms.          *)
LEMMA OrderStatus ==
    ASSUME NEW row \in OrderRow, NEW s \in {"NONE", "PENDING", "SUCCEEDED", "FAILED"}
    PROVE  LET n == [row EXCEPT !.status = s]
           IN  /\ n \in OrderRow /\ n.status = s /\ n.fulfilled = row.fulfilled
               /\ n.type = row.type /\ n.channel = row.channel
               /\ n.amount = row.amount /\ n.credits = row.credits
BY DEF OrderRow

LEMMA OrderFulfilled ==
    ASSUME NEW row \in OrderRow, NEW b \in BOOLEAN
    PROVE  LET n == [row EXCEPT !.fulfilled = b]
           IN  /\ n \in OrderRow /\ n.status = row.status /\ n.fulfilled = b
               /\ n.type = row.type /\ n.channel = row.channel
               /\ n.amount = row.amount /\ n.credits = row.credits
BY DEF OrderRow

LEMMA OrderSettled ==
    ASSUME NEW row \in OrderRow, NEW b \in BOOLEAN
    PROVE  LET n == [row EXCEPT !.status = "SUCCEEDED", !.fulfilled = b]
           IN  /\ n \in OrderRow /\ n.status = "SUCCEEDED" /\ n.fulfilled = b
               /\ n.type = row.type /\ n.channel = row.channel
               /\ n.amount = row.amount /\ n.credits = row.credits
BY DEF OrderRow

(* Starting to fulfil, which relies on nothing remembered.                   *)
LEMMA StartsFulfil ==
    ASSUME NEW r \in Requests, NEW o \in Orders, Starts(r, "fulfil", o)
    PROVE  RequestStep
<1> DEFINE q == [at |-> "fulfil", order |-> o]
<1>1. request' = [request EXCEPT ![r] = q]
  BY DEF Starts
<1>2. q \in RequestRow /\ RequestFacts(q)'
  BY PlainRequest DEF RequestFacts
<1>3. QED
  BY <1>1, <1>2 DEF RequestStep

LEMMA SettleMeaning ==
    ASSUME OrdersInv, NEW r \in Requests, NEW o \in Orders, NEW trade \in BOOLEAN,
           settleOrder(r, o, trade),
           trade => channel[o].state = "paid" /\ order[o].channel # "sandbox"
                    /\ channel[o].paid = order[o].amount,
           ~trade => order[o].channel = "sandbox"
    PROVE  StepMeaning
<1>0. PaymentTypes /\ OrderOK(o)
  BY DEF OrdersInv
<1>1. RequestStep
  BY StartsFulfil DEF settleOrder, RequestStep
<1>2. PICK c \in ChannelRow : /\ channel' = [channel EXCEPT ![o] = c]
                              /\ c.state = channel[o].state /\ c.paid = channel[o].paid
  <2> DEFINE told == [channel[o] EXCEPT !.told = TRUE]
  <2>1. told \in ChannelRow /\ told.state = channel[o].state /\ told.paid = channel[o].paid
    BY <1>0, TableTypes, ChannelTold
  <2>2. channel' = [channel EXCEPT ![o] = told] \/ channel' = [channel EXCEPT ![o] = channel[o]]
    BY <1>0, TableTypes, SameRow DEF settleOrder
  <2>3. channel[o] \in ChannelRow
    BY <1>0, TableTypes
  <2> HIDE DEF told
  <2> QED
    BY <2>1, <2>2, <2>3
<1>3. subscription' = subscription /\ refund' = refund /\ faults' = faults
  BY DEF settleOrder
<1>4. CASE order[o].status = "SUCCEEDED" /\ UNCHANGED <<order, txn, revenue, walletVars>>
  BY <1>0, <1>1, <1>2, <1>3, <1>4, TellsMeaning, TableTypes DEF orderVars
<1>5. CASE order[o].status # "SUCCEEDED"
  <2> DEFINE b == order[o].type = "RECHARGE"
             row == [order[o] EXCEPT !.status = "SUCCEEDED", !.fulfilled = b]
             t == Settled(txn[o], trade)
  <2>1. /\ order[o].status = "PENDING"
        /\ order' = [order EXCEPT ![o].status = "SUCCEEDED", ![o].fulfilled = b]
        /\ txn' = [txn EXCEPT ![o] = t]
        /\ revenue' = [revenue EXCEPT ![o] = order[o].amount]
        /\ IF order[o].type = "RECHARGE" THEN Credit("recharge", o) ELSE UNCHANGED walletVars
    BY <1>5 DEF settleOrder, markSucceededAndRecharge
  <2>2. order' = [order EXCEPT ![o] = row]
    BY <2>1
  <2>3. txn[o].status = "PENDING" /\ txn[o] \in TxnRow
    BY <1>0, <2>1, TableTypes DEF OrderOK
  <2>4. t \in TxnRow /\ t.status = "SUCCEEDED" /\ (trade => t.ref = "trade")
    BY <2>3 DEF Settled, TxnRow
  <2>5. /\ row \in OrderRow /\ row.status = "SUCCEEDED" /\ row.fulfilled = b
        /\ KeepsTerms(row, o)
    <3>1. b \in BOOLEAN /\ order[o] \in OrderRow
      BY <1>0, TableTypes
    <3> HIDE DEF b
    <3> QED
      BY <3>1, OrderSettled DEF KeepsTerms
  <2> HIDE DEF row, t
  <2>6. Settles(o, row, t, refund[o], c)
    BY <1>2, <2>1, <2>4, <2>5 DEF Settles
  <2>7. OrderStep(o, row, t, refund[o], c)
    BY <1>0, <1>2, <1>3, <2>1, <2>2, <2>6, TableTypes, SameRow DEF OrderStep
  <2>8. SomeOrderStep
    BY <1>0, <2>4, <2>5, <2>7, TableTypes DEF SomeOrderStep
  <2> QED
    BY <1>0, <1>1, <1>3, <2>8, TableTypes DEF StepMeaning
<1>6. QED
  BY <1>4, <1>5 DEF settleOrder, markSucceededAndRecharge

(* The fulfilment of a plan, by the request that settled it or by a retry.   *)
LEMMA GrantMeaning ==
    ASSUME OrdersInv, NEW o \in Orders, Fulfils(o), RequestStep, faults' \in 0..MaxFaults,
           NEW c \in ChannelRow, channel' = [channel EXCEPT ![o] = c],
           c.state = channel[o].state, c.paid = channel[o].paid
    PROVE  StepMeaning
<1>0. PaymentTypes
  BY DEF OrdersInv
<1> DEFINE row == [order[o] EXCEPT !.fulfilled = TRUE]
<1>1. /\ row \in OrderRow /\ row.status = order[o].status /\ row.fulfilled
      /\ KeepsTerms(row, o)
  BY <1>0, TableTypes, OrderFulfilled DEF KeepsTerms
<1>2. /\ order[o].status = "SUCCEEDED" /\ order[o].type = "PLAN" /\ ~order[o].fulfilled
      /\ order' = [order EXCEPT ![o] = row]
      /\ IF order[o].credits > 0 THEN Credit("grant", o) ELSE UNCHANGED walletVars
      /\ UNCHANGED <<txn, revenue, refund>>
  BY DEF Fulfils
<1> HIDE DEF row
<1>3. Grants(o, row, txn[o], refund[o], c)
  BY <1>1, <1>2 DEF Grants
<1>4. OrderStep(o, row, txn[o], refund[o], c)
  BY <1>0, <1>2, <1>3, TableTypes, SameRow DEF OrderStep
<1>5. SomeOrderStep
  BY <1>0, <1>1, <1>4, TableTypes DEF SomeOrderStep
<1>6. subscription' \in [Orders -> {"NONE", "ACTIVE", "CANCELED"}]
  BY <1>0, TableTypes DEF Fulfils
<1>7. QED
  BY <1>5, <1>6 DEF StepMeaning

LEMMA FulfilMeaning ==
    ASSUME OrdersInv, NEW r \in Requests, NEW o \in Orders, FulfilAfterPayment(r, o)
    PROVE  StepMeaning
<1>0. PaymentTypes /\ OrderOK(o)
  BY DEF OrdersInv
<1>1. RequestStep
  BY EndsStep DEF FulfilAfterPayment
<1>2. PICK c \in ChannelRow : /\ channel' = [channel EXCEPT ![o] = c]
                              /\ c.state = channel[o].state /\ c.paid = channel[o].paid
  <2> DEFINE b == channel[o].told \/ channel[o].state = "paid"
             told == [channel[o] EXCEPT !.told = b]
  <2>1. channel' = [channel EXCEPT ![o] = told]
    BY DEF FulfilAfterPayment, Told
  <2>2. b \in BOOLEAN /\ channel[o] \in ChannelRow
    BY <1>0, TableTypes DEF ChannelRow
  <2> HIDE DEF b
  <2>3. told \in ChannelRow /\ told.state = channel[o].state /\ told.paid = channel[o].paid
    BY <2>2, ChannelTold
  <2> HIDE DEF told
  <2> QED
    BY <2>1, <2>3
<1>3. faults' \in 0..MaxFaults
  BY <1>0, TableTypes DEF FulfilAfterPayment
<1>4. CASE Fulfils(o)
  BY <1>1, <1>2, <1>3, <1>4, GrantMeaning
<1>5. CASE UNCHANGED <<walletVars, orderVars>>
  BY <1>1, <1>2, <1>3, <1>5, TellsMeaning
<1>6. QED
  BY <1>4, <1>5 DEF FulfilAfterPayment

LEMMA RetryFulfilMeaning ==
    ASSUME OrdersInv, NEW o \in Orders, retryFulfillment(o)
    PROVE  StepMeaning
<1>0. PaymentTypes
  BY DEF OrdersInv
<1>1. RequestStep /\ faults' \in 0..MaxFaults /\ Fulfils(o)
  BY <1>0, TableTypes DEF retryFulfillment, RequestStep
<1>2. channel[o] \in ChannelRow /\ channel' = [channel EXCEPT ![o] = channel[o]]
  BY <1>0, TableTypes, SameRow DEF retryFulfillment
<1>3. QED
  BY <1>1, <1>2, GrantMeaning

(* Closing.                                                                  *)
LEMMA CloseReadMeaning ==
    ASSUME OrdersInv, NEW r \in Requests, NEW o \in Orders, CloseRead(r, o)
    PROVE  StepMeaning
<1>0. PaymentTypes
  BY DEF OrdersInv
<1> DEFINE q == [at |-> "close", order |-> o]
<1>1. request' = [request EXCEPT ![r] = q] /\ q \in RequestRow
  BY PlainRequest DEF CloseRead, Starts
<1>2. RequestFacts(q)'
  BY DEF CloseRead, RequestFacts, orderVars
<1>3. RequestStep
  BY <1>1, <1>2 DEF RequestStep
<1>4. QED
  BY <1>0, <1>3, QuietMeaning, TableTypes DEF CloseRead

LEMMA CloseWriteMeaning ==
    ASSUME OrdersInv, NEW r \in Requests, NEW o \in Orders, CloseWrite(r, o)
    PROVE  StepMeaning
<1>0. PaymentTypes /\ On(r, "closed", o) /\ RequestFacts(request[r])
  BY DEF OrdersInv, CloseWrite
<1> DEFINE row == [order[o] EXCEPT !.status = "FAILED"]
<1>1. order[o].status # "NONE"
  BY <1>0 DEF RequestFacts, On, At
<1>2. /\ row \in OrderRow /\ row.status = "FAILED" /\ row.fulfilled = order[o].fulfilled
      /\ KeepsTerms(row, o)
  BY <1>0, TableTypes, OrderStatus DEF KeepsTerms
<1>3. /\ order' = [order EXCEPT ![o] = row]
      /\ UNCHANGED <<walletVars, txn, subscription, revenue, refund, channel, faults>>
  BY DEF CloseWrite
<1> HIDE DEF row
<1>4. Fails(o, row, txn[o], refund[o], channel[o])
  BY <1>1, <1>2, <1>3 DEF Fails
<1>5. OrderStep(o, row, txn[o], refund[o], channel[o])
  BY <1>0, <1>3, <1>4, TableTypes, SameRow DEF OrderStep
<1>6. SomeOrderStep
  BY <1>0, <1>2, <1>5, TableTypes DEF SomeOrderStep
<1>7. RequestStep
  BY EndsStep DEF CloseWrite
<1>8. QED
  BY <1>0, <1>3, <1>6, <1>7, TableTypes DEF StepMeaning

(* Manual refunds.                                                           *)
LEMMA RefundReadMeaning ==
    ASSUME OrdersInv, NEW r \in Requests, NEW o \in Orders, RefundRead(r, o)
    PROVE  StepMeaning
<1>0. PaymentTypes
  BY DEF OrdersInv
<1>1. PICK no \in RefundNos, cents \in 1..order[o].amount :
          /\ Recordable(o, no)
          /\ request' = [request EXCEPT ![r] = [at |-> "refund", order |-> o, no |-> no, cents |-> cents]]
  BY DEF RefundRead
<1>2. cents \in Nat
  <2>1. order[o].amount \in Nat
    BY <1>0, TableTypes DEF OrderRow
  <2> QED
    BY <2>1
<1> DEFINE q == [at |-> "refund", order |-> o, no |-> no, cents |-> cents]
<1>3. q \in RequestRow
  BY <1>2 DEF RequestRow
<1>4. RequestFacts(q)'
  BY <1>1 DEF RefundRead, Recordable, RequestFacts, orderVars
<1>5. RequestStep
  BY <1>1, <1>3, <1>4 DEF RequestStep
<1>6. QED
  BY <1>0, <1>5, QuietMeaning, TableTypes DEF RefundRead

(* A revocation is never more than the credits of the order.                 *)
LEMMA RevokeBound ==
    ASSUME PaymentTypes, NEW o \in Orders, NEW cents \in 1..order[o].amount
    PROVE  creditsToRevoke(o, cents) \subseteq 0..order[o].credits
<1> DEFINE a == order[o].amount
           k == order[o].credits
<1>1. a \in Nat /\ k \in Nat /\ cents \in Nat /\ cents <= a /\ a # 0
  BY TableTypes DEF OrderRow
<1>2. CASE isFullRefund(o, cents)
  BY <1>1, <1>2 DEF creditsToRevoke
<1>3. CASE ~isFullRefund(o, cents)
  <2>1. \A c \in creditsToRevoke(o, cents) :
           c = (cents * k) \div a \/ (c = (cents * k) \div a - 1 /\ c >= 0)
    BY <1>3 DEF creditsToRevoke
  <2> HIDE DEF a, k
  <2>2. cents * k \in Nat /\ cents * k <= a * k
    BY <1>1, ProductNat, ProductGrows
  <2>3. (cents * k) \div a \in Nat /\ (cents * k) \div a <= k
    BY <1>1, <2>2, QuotientNat, QuotientBound
  <2> QED
    BY <1>1, <2>1, <2>3 DEF k
<1>4. QED
  BY <1>2, <1>3

LEMMA RefundMeaning ==
    ASSUME OrdersInv, NEW r \in Requests, NEW o \in Orders, RefundTx(r, o)
    PROVE  StepMeaning
<1>0. PaymentTypes /\ On(r, "refund", o) /\ RequestFacts(request[r]) /\ request[r] \in RequestRow
  BY TableTypes DEF OrdersInv, RefundTx
<1> DEFINE cents == request[r].cents
           no == request[r].no
<1>01. PICK k \in creditsToRevoke(o, cents) :
          LET enough == wallet.balance >= k
          IN  /\ refund' = [refund EXCEPT ![o] =
                     [status |-> IF enough THEN "COMPLETED" ELSE "CREDITS_PENDING",
                      full |-> isFullRefund(o, cents), toRevoke |-> k,
                      revoked |-> IF enough THEN k ELSE 0, no |-> no]]
              /\ IF enough THEN Revoke(<<o, no>>, k) ELSE UNCHANGED walletVars
  BY DEF RefundTx
<1> DEFINE enough == wallet.balance >= k
           f == [status |-> IF enough THEN "COMPLETED" ELSE "CREDITS_PENDING",
                 full |-> isFullRefund(o, cents), toRevoke |-> k,
                 revoked |-> IF enough THEN k ELSE 0, no |-> no]
<1>1. cents \in 1..order[o].amount
  BY <1>0 DEF RequestFacts, On, At
<1>2. no \in RefundNos
  BY <1>0 DEF RequestRow, On, At, Idle
<1>3. k \in Nat /\ k <= order[o].credits
  <2>1. order[o].credits \in Nat
    BY <1>0, TableTypes DEF OrderRow
  <2> QED
    BY <1>0, <1>1, <2>1, RevokeBound
<1>4. /\ refund' = [refund EXCEPT ![o] = f]
      /\ Recordable(o, no)
      /\ IF enough THEN Revoke(<<o, no>>, k) ELSE UNCHANGED walletVars
      /\ UNCHANGED <<order, txn, revenue, channel, faults>>
  BY <1>01 DEF RefundTx
<1>5. /\ f.toRevoke = k /\ f.no = no
      /\ enough => f.status = "COMPLETED" /\ f.revoked = k
      /\ ~enough => f.status = "CREDITS_PENDING" /\ f.revoked = 0
  OBVIOUS
<1>6. f \in RefundRow
  <2>1. isFullRefund(o, cents) \in BOOLEAN
    BY DEF isFullRefund
  <2> HIDE DEF no, cents, enough
  <2> QED
    BY <1>2, <1>3, <2>1 DEF RefundRow
<1>7. subscription' \in [Orders -> {"NONE", "ACTIVE", "CANCELED"}]
  <2>1. subscription' = [subscription EXCEPT ![o] =
            IF isFullRefund(o, cents) /\ subscription[o] = "ACTIVE" THEN "CANCELED" ELSE subscription[o]]
    BY DEF RefundTx
  <2> QED
    BY <1>0, <2>1, TableTypes
<1> HIDE DEF f, no, cents, enough
<1>8. Records(o, order[o], txn[o], f, channel[o])
  BY <1>2, <1>3, <1>4, <1>5 DEF Records, Recordable
<1>9. OrderStep(o, order[o], txn[o], f, channel[o])
  BY <1>0, <1>4, <1>8, TableTypes, SameRow DEF OrderStep
<1>10. SomeOrderStep
  BY <1>0, <1>6, <1>9, TableTypes DEF SomeOrderStep
<1>11. RequestStep
  BY EndsStep DEF RefundTx
<1>12. QED
  BY <1>0, <1>4, <1>7, <1>10, <1>11, TableTypes DEF StepMeaning

LEMMA RetryReadMeaning ==
    ASSUME OrdersInv, NEW r \in Requests, NEW o \in Orders, RetryRead(r, o)
    PROVE  StepMeaning
<1>0. PaymentTypes /\ RefundOK(o) /\ refund[o] \in RefundRow
  BY TableTypes DEF OrdersInv
<1>1. PICK n \in Nat : n = refund[o].toRevoke /\ refund[o].toRevoke - refund[o].revoked = n
  BY <1>0 DEF RetryRead, RefundOK, RefundRow
<1> DEFINE q == [at |-> "retry", order |-> o, left |-> n]
<1>2. request' = [request EXCEPT ![r] = q]
  BY <1>1 DEF RetryRead
<1>3. q \in RequestRow
  BY DEF RequestRow
<1>4. RequestFacts(q)'
  <2>1. refund'[o].status # "NONE" /\ refund'[o].toRevoke = n
    BY <1>1 DEF RetryRead, orderVars
  <2> QED
    BY <2>1 DEF RequestFacts
<1>5. RequestStep
  BY <1>2, <1>3, <1>4 DEF RequestStep
<1>6. QED
  BY <1>0, <1>5, QuietMeaning, TableTypes DEF RetryRead

LEMMA RetryMeaning ==
    ASSUME OrdersInv, NEW r \in Requests, NEW o \in Orders, RetryTx(r, o)
    PROVE  StepMeaning
<1>0. PaymentTypes /\ On(r, "retry", o) /\ RequestFacts(request[r]) /\ refund[o] \in RefundRow
  BY TableTypes DEF OrdersInv, RetryTx
<1>1. RequestStep
  BY EndsStep DEF RetryTx
<1>2. request[r].left = refund[o].toRevoke
  BY <1>0 DEF RequestFacts, On, At
<1>3. CASE ~(refund[o].status = "CREDITS_PENDING" /\ wallet.balance >= request[r].left)
  BY <1>0, <1>1, <1>3, QuietMeaning, TableTypes DEF RetryTx, orderVars
<1>4. CASE refund[o].status = "CREDITS_PENDING" /\ wallet.balance >= request[r].left
  <2> DEFINE f == [refund[o] EXCEPT !.status = "COMPLETED", !.revoked = refund[o].toRevoke]
  <2>1. /\ refund' = [refund EXCEPT ![o] = f]
        /\ Revoke(<<o, "credits">>, refund[o].toRevoke)
        /\ UNCHANGED <<order, txn, subscription, revenue, channel, faults>>
    BY <1>2, <1>4 DEF RetryTx
  <2>2. /\ f \in RefundRow /\ f.status = "COMPLETED" /\ f.revoked = refund[o].toRevoke
        /\ f.no = refund[o].no /\ f.toRevoke = refund[o].toRevoke
    BY <1>0 DEF RefundRow
  <2> HIDE DEF f
  <2>3. Revokes(o, order[o], txn[o], f, channel[o])
    BY <1>4, <2>1, <2>2 DEF Revokes
  <2>4. OrderStep(o, order[o], txn[o], f, channel[o])
    BY <1>0, <2>1, <2>3, TableTypes, SameRow DEF OrderStep
  <2>5. SomeOrderStep
    BY <1>0, <2>2, <2>4, TableTypes DEF SomeOrderStep
  <2> QED
    BY <1>0, <1>1, <2>1, <2>5, TableTypes DEF StepMeaning
<1>5. QED
  BY <1>3, <1>4

(* Every step of PaymentNext has its meaning.                                *)
LEMMA PaymentStepMeaning ==
    ASSUME OrdersInv, [PaymentNext]_paymentVars
    PROVE  StepMeaning
<1>0. PaymentTypes
  BY DEF OrdersInv
<1>1. CASE UNCHANGED paymentVars
  BY <1>0, <1>1, QuietMeaning, TableTypes DEF paymentVars, RequestStep
<1>2. ASSUME NEW r \in Requests, NEW o \in Orders, Checkout(r, o) PROVE StepMeaning
  BY <1>2, CreateMeaning, AcceptsMeaning, ReferenceMeaning DEF Checkout
<1>3. ASSUME NEW r \in Requests, NEW o \in Orders, Settlement(r, o) PROVE StepMeaning
  BY <1>3, SettleMeaning, FulfilMeaning DEF Settlement, settleNotification, simulateConfirm
<1>4. ASSUME NEW r \in Requests, NEW o \in Orders, Closing(r, o) PROVE StepMeaning
  BY <1>4, CloseReadMeaning, CloseAtChannelMeaning, CloseWriteMeaning DEF Closing
<1>5. ASSUME NEW r \in Requests, NEW o \in Orders, Refunding(r, o) PROVE StepMeaning
  <2>1. CASE RefundRefused(r, o)
    BY <1>0, <2>1, EndsStep, QuietMeaning, TableTypes DEF RefundRefused
  <2> QED
    BY <1>5, <2>1, RefundReadMeaning, RefundMeaning, RetryReadMeaning, RetryMeaning DEF Refunding
<1>6. ASSUME NEW o \in Orders, Pay(o) \/ retryFulfillment(o) PROVE StepMeaning
  BY <1>6, PayMeaning, RetryFulfilMeaning
<1>7. ASSUME NEW r \in Requests, Dies(r) PROVE StepMeaning
  <2>1. RequestStep
    BY <1>7, EndsStep DEF Dies
  <2>2. faults' \in 0..MaxFaults
    BY <1>0, <1>7, TableTypes DEF Dies
  <2> QED
    BY <1>0, <1>7, <2>1, <2>2, QuietMeaning DEF Dies
<1>8. CASE Spend
  BY <1>0, <1>8, TableTypes DEF Spend, StepMeaning, NoOrderStep, RequestStep, orderVars
<1>9. QED
  BY <1>1, <1>2, <1>3, <1>4, <1>5, <1>6, <1>7, <1>8 DEF PaymentNext

-----------------------------------------------------------------------------
(* The invariant is kept.                                                    *)

(* An order's step replaces that order's rows and no other's.                *)
LEMMA RowsAfter ==
    ASSUME PaymentTypes, NEW o \in Orders,
           NEW row \in OrderRow, NEW t \in TxnRow, NEW f \in RefundRow, NEW c \in ChannelRow,
           OrderStep(o, row, t, f, c)
    PROVE  /\ order'[o] = row /\ txn'[o] = t /\ refund'[o] = f /\ channel'[o] = c
           /\ \A p \in Orders : p # o =>
                 /\ order'[p] = order[p] /\ txn'[p] = txn[p]
                 /\ refund'[p] = refund[p] /\ channel'[p] = channel[p]
           /\ order' \in [Orders -> OrderRow] /\ txn' \in [Orders -> TxnRow]
           /\ refund' \in [Orders -> RefundRow] /\ channel' \in [Orders -> ChannelRow]
BY TableTypes DEF OrderStep

(* Only a settlement recognises revenue, that of its own order.              *)
LEMMA RevenueAfter ==
    ASSUME PaymentTypes, NEW o \in Orders,
           NEW row, NEW t, NEW f, NEW c, OrderStep(o, row, t, f, c)
    PROVE  /\ revenue' \in [Orders -> Nat]
           /\ \A p \in Orders : p # o => revenue'[p] = revenue[p]
           /\ \/ revenue' = revenue
              \/ Settles(o, row, t, f, c) /\ revenue'[o] = order[o].amount
<1>1. revenue \in [Orders -> Nat] /\ order[o] \in OrderRow
  BY TableTypes
<1>2. order[o].amount \in Nat
  BY <1>1 DEF OrderRow
<1>3. \/ revenue' = revenue
      \/ Settles(o, row, t, f, c) /\ revenue' = [revenue EXCEPT ![o] = order[o].amount]
  BY DEF OrderStep, Creates, Tells, Refers, Settles, Grants, Fails, Records, Revokes
<1> QED
  BY <1>1, <1>2, <1>3

LEMMA PaymentTypesNext ==
    ASSUME PaymentTypes, StepMeaning
    PROVE  PaymentTypes'
<1>1. /\ order' \in [Orders -> OrderRow] /\ txn' \in [Orders -> TxnRow]
      /\ refund' \in [Orders -> RefundRow] /\ channel' \in [Orders -> ChannelRow]
      /\ revenue' \in [Orders -> Nat]
  <2>1. CASE NoOrderStep
    BY <2>1, TableTypes DEF NoOrderStep
  <2>2. ASSUME NEW o \in Orders, NEW row \in OrderRow, NEW t \in TxnRow,
               NEW f \in RefundRow, NEW c \in ChannelRow, OrderStep(o, row, t, f, c)
        PROVE  /\ order' \in [Orders -> OrderRow] /\ txn' \in [Orders -> TxnRow]
               /\ refund' \in [Orders -> RefundRow] /\ channel' \in [Orders -> ChannelRow]
               /\ revenue' \in [Orders -> Nat]
    BY <2>2, RowsAfter, RevenueAfter, TableTypes
  <2> QED
    BY <2>1, <2>2 DEF StepMeaning, SomeOrderStep
<1>2. request' \in [Requests -> RequestRow]
  BY TableTypes DEF StepMeaning, RequestStep
<1>3. \A o \in Orders : channel'[o].state \in {"none", "open", "paid", "closed"}
  BY <1>1 DEF ChannelRow
<1>4. QED
  BY <1>1, <1>2, <1>3 DEF StepMeaning, PaymentTypes, PaymentTypeOK, TxnRow

LEMMA OrderOKNext ==
    ASSUME OrdersInv, NEW o \in Orders,
           NEW row \in OrderRow, NEW t \in TxnRow, NEW f \in RefundRow, NEW c \in ChannelRow,
           OrderStep(o, row, t, f, c)
    PROVE  OrderOK(o)'
<1>0. PaymentTypes /\ OrderOK(o) /\ RefundOK(o)
  BY DEF OrdersInv
<1>1. order'[o] = row /\ txn'[o] = t /\ refund'[o] = f /\ channel'[o] = c
  BY <1>0, RowsAfter
<1>2. order[o].status = "NONE" => order[o] = NoOrder
  BY <1>0 DEF OrderOK
<1>3. CASE Creates(o, row, t, f, c)
  BY <1>0, <1>1, <1>3 DEF OrderOK, Creates, NoOrder
<1>4. CASE Tells(o, row, t, f, c)
  BY <1>0, <1>1, <1>4 DEF OrderOK, Tells
<1>5. CASE Refers(o, row, t, f, c)
  BY <1>0, <1>1, <1>5 DEF OrderOK, Refers
<1>6. CASE Settles(o, row, t, f, c)
  <2>1. /\ revenue \in [Orders -> Nat] /\ order[o].amount \in Nat
        /\ revenue' = [revenue EXCEPT ![o] = order[o].amount]
    BY <1>0, <1>6, TableTypes DEF Settles, OrderRow
  <2>2. revenue'[o] = order[o].amount
    BY <2>1
  <2>3. order[o].amount > 0
    BY <1>0, <1>6 DEF OrderOK, Settles
  <2> QED
    BY <1>0, <1>1, <1>6, <2>1, <2>2, <2>3 DEF OrderOK, Settles, KeepsTerms
<1>7. CASE Grants(o, row, t, f, c)
  BY <1>0, <1>1, <1>7 DEF OrderOK, Grants, KeepsTerms
<1>8. CASE Fails(o, row, t, f, c)
  BY <1>0, <1>1, <1>8 DEF OrderOK, Fails, KeepsTerms
<1>9. CASE Records(o, row, t, f, c)
  BY <1>0, <1>1, <1>9 DEF OrderOK, Records
<1>10. CASE Revokes(o, row, t, f, c)
  <2>1. order[o].status # "NONE"
    BY <1>0, <1>10 DEF OrderOK, Revokes, NoRefund
  <2> QED
    BY <1>0, <1>1, <1>10, <2>1 DEF OrderOK, Revokes
<1>11. QED
  BY <1>3, <1>4, <1>5, <1>6, <1>7, <1>8, <1>9, <1>10 DEF OrderStep

LEMMA RefundOKNext ==
    ASSUME OrdersInv, NEW o \in Orders,
           NEW row \in OrderRow, NEW t \in TxnRow, NEW f \in RefundRow, NEW c \in ChannelRow,
           OrderStep(o, row, t, f, c)
    PROVE  RefundOK(o)'
<1>0. PaymentTypes /\ OrderOK(o) /\ RefundOK(o)
  BY DEF OrdersInv
<1>1. order'[o] = row /\ refund'[o] = f
  BY <1>0, RowsAfter
<1>2. CASE Creates(o, row, t, f, c)
  <2>1. refund[o] = NoRefund
    BY <1>0, <1>2 DEF OrderOK, Creates, NoOrder
  <2>2. row.credits \in Nat
    BY DEF OrderRow
  <2> QED
    BY <1>1, <1>2, <2>1, <2>2 DEF RefundOK, Creates, NoRefund
<1>3. CASE row.credits = order[o].credits /\ f = refund[o]
  BY <1>0, <1>1, <1>3 DEF RefundOK
<1>4. CASE Records(o, row, t, f, c)
  BY <1>1, <1>4 DEF RefundOK, Records
<1>5. CASE Revokes(o, row, t, f, c)
  BY <1>0, <1>1, <1>5 DEF RefundOK, Revokes
<1>6. QED
  BY <1>2, <1>3, <1>4, <1>5 DEF OrderStep, Tells, Refers, Settles, Grants, Fails, KeepsTerms

LEMMA NumbersNext ==
    ASSUME OrdersInv, StepMeaning
    PROVE  NumbersOK'
<1>0. PaymentTypes /\ NumbersOK /\ \A o \in Orders : RefundOK(o)
  BY DEF OrdersInv
<1>1. CASE refund' = refund
  BY <1>0, <1>1 DEF NumbersOK
<1>2. ASSUME NEW o \in Orders, NEW f \in RefundRow,
             refund'[o] = f, \A p \in Orders : p # o => refund'[p] = refund[p],
             \/ f.no = refund[o].no
             \/ \A p \in Orders : refund[p].no # f.no
      PROVE  NumbersOK'
  BY <1>0, <1>2 DEF NumbersOK
<1>3. ASSUME NEW o \in Orders, NEW row \in OrderRow, NEW t \in TxnRow,
             NEW f \in RefundRow, NEW c \in ChannelRow, OrderStep(o, row, t, f, c)
      PROVE  NumbersOK'
  <2>1. f = refund[o] \/ Records(o, row, t, f, c) \/ Revokes(o, row, t, f, c)
    BY <1>3 DEF OrderStep, Creates, Tells, Refers, Settles, Grants, Fails
  <2>2. f.no = refund[o].no \/ \A p \in Orders : refund[p].no # f.no
    BY <2>1 DEF Records, Revokes
  <2> QED
    <3>1. refund'[o] = f /\ \A p \in Orders : p # o => refund'[p] = refund[p]
      BY <1>0, <1>3, RowsAfter
    <3> QED
      BY <1>2, <2>2, <3>1
<1>4. QED
  BY <1>1, <1>3 DEF StepMeaning, SomeOrderStep, NoOrderStep

(* What no step takes back: an order and its amount, a refund and what it is *)
(* to revoke; and an order is paid for only once its link was given out.     *)
Lasting(p) ==
    /\ order[p].status # "NONE" => order'[p].status # "NONE" /\ order'[p].amount = order[p].amount
    /\ refund[p].status # "NONE" =>
          /\ refund'[p].status # "NONE" /\ refund'[p].no = refund[p].no
          /\ refund'[p].toRevoke = refund[p].toRevoke
    /\ channel'[p].state = "paid" => channel[p].state = "paid" \/ ~Creating(p)

LEMMA LastingNext ==
    ASSUME OrdersInv, StepMeaning, NEW p \in Orders
    PROVE  Lasting(p)
<1>0. PaymentTypes
  BY DEF OrdersInv
<1>1. CASE NoOrderStep
  BY <1>1 DEF NoOrderStep, Lasting
<1>2. ASSUME NEW o \in Orders, NEW row \in OrderRow, NEW t \in TxnRow,
             NEW f \in RefundRow, NEW c \in ChannelRow, OrderStep(o, row, t, f, c)
      PROVE  Lasting(p)
  <2>1. CASE p # o
    BY <1>0, <1>2, <2>1, RowsAfter DEF Lasting
  <2>2. CASE p = o
    <3>0. order'[o] = row /\ refund'[o] = f /\ channel'[o] = c
      BY <1>0, <1>2, RowsAfter
    <3>1. order[o].status # "NONE" => row.status # "NONE" /\ row.amount = order[o].amount
      BY <1>2 DEF OrderStep, Creates, Tells, Refers, Settles, Grants, Fails, Records, Revokes,
                  KeepsTerms, NoOrder
    <3>2. refund[o].status # "NONE" =>
              f.status # "NONE" /\ f.no = refund[o].no /\ f.toRevoke = refund[o].toRevoke
      BY <1>2 DEF OrderStep, Creates, Tells, Refers, Settles, Grants, Fails, Records, Revokes,
                  NoRefund
    <3>3. c.state = "paid" => channel[o].state = "paid" \/ ~Creating(o)
      BY <1>2 DEF OrderStep, Creates, Tells, Refers, Settles, Grants, Fails, Records, Revokes
    <3> QED
      BY <2>2, <3>0, <3>1, <3>2, <3>3 DEF Lasting
  <2> QED
    BY <2>1, <2>2
<1>3. QED
  BY <1>1, <1>2 DEF StepMeaning, SomeOrderStep

LEMMA RequestFactsNext ==
    ASSUME OrdersInv, StepMeaning, NEW r \in Requests
    PROVE  RequestFacts(request[r])'
<1>0. PaymentTypes /\ RequestFacts(request[r]) /\ request[r] \in RequestRow
  BY TableTypes DEF OrdersInv
<1>1. ASSUME request'[r] = request[r] PROVE RequestFacts(request[r])'
  <2> PICK q \in RequestRow : q = request[r]
    BY <1>0
  <2>1. q.at # "idle" => q.order \in Orders
    BY DEF RequestRow, Idle
  <2>2. q.at # "idle" => Lasting(q.order)
    BY <2>1, LastingNext
  <2>3. q.at \in {"create", "answered"} => Creating(q.order)
    BY <2>1 DEF Creating, On, At
  <2>4. RequestFacts(q)
    BY <1>0
  <2>5. RequestFacts(q)'
    BY <2>2, <2>3, <2>4 DEF RequestFacts, Lasting
  <2> QED
    BY <1>1, <2>5 DEF RequestFacts
<1>2. ASSUME NEW s \in Requests, NEW q \in RequestRow,
             request' = [request EXCEPT ![s] = q], RequestFacts(q)'
      PROVE  RequestFacts(request[r])'
  <2>1. CASE s = r
    <3>1. request'[r] = q
      BY <1>0, <1>2, <2>1, TableTypes
    <3> QED
      BY <1>2, <3>1 DEF RequestFacts
  <2>2. CASE s # r
    BY <1>0, <1>1, <1>2, <2>2, TableTypes
  <2> QED
    BY <2>1, <2>2
<1>3. QED
  BY <1>1, <1>2 DEF StepMeaning, RequestStep

LEMMA OrdersNext ==
    ASSUME OrdersInv, StepMeaning
    PROVE  OrdersInv'
<1>0. PaymentTypes
  BY DEF OrdersInv
<1>1. ASSUME NEW p \in Orders PROVE OrderOK(p)' /\ RefundOK(p)'
  <2>0. OrderOK(p) /\ RefundOK(p)
    BY DEF OrdersInv
  <2>1. ASSUME UNCHANGED <<order[p], txn[p], refund[p], channel[p]>>,
               revenue'[p] = revenue[p]
        PROVE  OrderOK(p)' /\ RefundOK(p)'
    BY <2>0, <2>1 DEF OrderOK, RefundOK
  <2>2. CASE NoOrderStep
    BY <2>1, <2>2 DEF NoOrderStep
  <2>3. ASSUME NEW o \in Orders, NEW row \in OrderRow, NEW t \in TxnRow,
               NEW f \in RefundRow, NEW c \in ChannelRow, OrderStep(o, row, t, f, c)
        PROVE  OrderOK(p)' /\ RefundOK(p)'
    <3>1. CASE p # o
      BY <1>0, <2>1, <2>3, <3>1, RowsAfter, RevenueAfter
    <3>2. CASE p = o
      BY <2>3, <3>2, OrderOKNext, RefundOKNext
    <3> QED
      BY <3>1, <3>2
  <2> QED
    BY <2>2, <2>3 DEF StepMeaning, SomeOrderStep
<1>2. \A r \in Requests : RequestFacts(request[r])'
  BY RequestFactsNext
<1>3. QED
  BY <1>0, <1>1, <1>2, PaymentTypesNext, NumbersNext DEF OrdersInv

-----------------------------------------------------------------------------
(* To the wallet a step of Payment is one of its transactions.               *)

LEMMA SpendIsWallet == Spend => WalletNext
BY DEF Spend, WalletNext, ReleaseKinds

LEMMA CreditIsWallet ==
    ASSUME NEW k \in {"recharge", "grant"}, NEW o \in Orders,
           1..order[o].credits \subseteq Amounts, order[o].credits \in Nat,
           order[o].credits > 0, Credit(k, o)
    PROVE  [WalletNext]_walletVars
<1>1. order[o].credits \in Amounts /\ o \in Refs
  BY WalletServesOrders
<1>2. QED
  BY <1>1 DEF Credit, WalletNext

LEMMA RevokeIsWallet ==
    ASSUME NEW o \in Orders, NEW no \in RefundNos \cup {"credits"}, NEW c \in Nat,
           1..order[o].credits \subseteq Amounts, order[o].credits \in Nat,
           c <= order[o].credits, Revoke(<<o, no>>, c)
    PROVE  [WalletNext]_walletVars
<1>1. <<o, no>> \in Refs
  BY WalletServesOrders
<1>2. c = 0 \/ c \in Amounts
  OBVIOUS
<1>3. QED
  BY <1>1, <1>2 DEF Revoke, WalletNext

LEMMA StepIsWallet ==
    ASSUME OrdersInv, StepMeaning
    PROVE  [WalletNext]_walletVars
<1>0. PaymentTypes
  BY DEF OrdersInv
<1>1. CASE NoOrderStep
  BY <1>1, SpendIsWallet DEF NoOrderStep
<1>2. ASSUME NEW o \in Orders, NEW row \in OrderRow, NEW t \in TxnRow,
             NEW f \in RefundRow, NEW c \in ChannelRow, OrderStep(o, row, t, f, c)
      PROVE  [WalletNext]_walletVars
  <2>1. /\ order[o].credits \in Nat /\ 1..order[o].credits \subseteq Amounts
        /\ OrderOK(o) /\ RefundOK(o)
    BY <1>0, TableTypes DEF OrdersInv, OrderOK, OrderRow
  <2>2. f.toRevoke \in Nat
    BY DEF RefundRow
  <2>3. CASE Settles(o, row, t, f, c)
    <3>1. order[o].type = "RECHARGE" => order[o].credits > 0
      BY <2>1, <2>3 DEF OrderOK, Settles
    <3> QED
      BY <2>1, <2>3, <3>1, CreditIsWallet DEF Settles
  <2>4. CASE Grants(o, row, t, f, c)
    BY <2>1, <2>4, CreditIsWallet DEF Grants
  <2>5. CASE Records(o, row, t, f, c)
    BY <2>1, <2>2, <2>5, RevokeIsWallet DEF Records
  <2>6. CASE Revokes(o, row, t, f, c)
    <3>1. f.toRevoke <= order[o].credits
      BY <2>1, <2>6 DEF Revokes, RefundOK
    <3> QED
      BY <2>1, <2>2, <2>6, <3>1, RevokeIsWallet DEF Revokes
  <2> QED
    BY <1>2, <2>3, <2>4, <2>5, <2>6 DEF OrderStep, Creates, Tells, Refers, Fails
<1>3. QED
  BY <1>1, <1>2 DEF StepMeaning, SomeOrderStep

-----------------------------------------------------------------------------
(* Sums over the ledger, each row weighed by a function of the row.          *)

Weigh(log, w) == SumTo([i \in 1..Len(log) |-> w[log[i]]], Len(log))

LEMMA WeighAppend ==
    ASSUME NEW log \in Seq(LedgerRow), NEW l \in LedgerRow, NEW w \in [LedgerRow -> Int]
    PROVE  /\ Weigh(log, w) \in Int
           /\ Weigh(Append(log, l), w) = Weigh(log, w) + w[l]
<1> DEFINE n == Len(log)
           m == Append(log, l)
           f == [i \in 1..n |-> w[log[i]]]
           g == [i \in 1..(n + 1) |-> w[m[i]]]
<1>1. n \in Nat /\ Len(m) = n + 1 /\ m[n + 1] = l
      /\ \A i \in 1..n : m[i] = log[i] /\ log[i] \in LedgerRow
  OBVIOUS
<1>2. Weigh(log, w) = SumTo(f, n) /\ Weigh(m, w) = SumTo(g, n + 1)
  BY <1>1 DEF Weigh
<1> HIDE DEF m, n
<1>3. \A i \in 1..n : f[i] \in Int /\ g[i] = f[i]
  BY <1>1
<1>4. g[n + 1] = w[l] /\ w[l] \in Int
  BY <1>1
<1> HIDE DEF f, g
<1>5. SumTo(f, n) \in Int /\ SumTo(g, n + 1) = SumTo(f, n) + g[n + 1]
  <2>1. \A i \in 1..n : f[i] \in Int
    BY <1>3
  <2>2. \A i \in 1..n : g[i] = f[i]
    BY <1>3
  <2>3. g[n + 1] \in Int /\ n \in Nat
    BY <1>1, <1>4
  <2>4. SumTo(f, n) \in Int
    BY <2>1, <2>3, SumToInt
  <2> QED
    BY <2>1, <2>2, <2>3, <2>4, SumToAppend
<1>6. QED
  BY <1>2, <1>4, <1>5 DEF m

LEMMA WeighEmpty == \A w : Weigh(<<>>, w) = 0
BY SumToEmpty DEF Weigh

LEMMA KeysAppend ==
    ASSUME NEW log \in Seq(LedgerRow), NEW l
    PROVE  KeysOf(Append(log, l)) = KeysOf(log) \cup {l.key}
<1>1. /\ DOMAIN log = 1..Len(log) /\ DOMAIN Append(log, l) = 1..(Len(log) + 1)
      /\ Len(log) \in Nat
      /\ Append(log, l)[Len(log) + 1] = l
      /\ \A i \in 1..Len(log) : Append(log, l)[i] = log[i]
  OBVIOUS
<1>2. QED
  BY <1>1 DEF KeysOf

(* What an order's rows have granted and revoked, as weights of rows.        *)
GrantKeys(o) == {<<"recharge", o>>, <<"grant", o>>}
Granting(o) == [l \in LedgerRow |-> IF l.key \in GrantKeys(o) THEN l.amount ELSE 0]
Revoking(o) == [l \in LedgerRow |-> IF l.key \in RevokedKeys(o) THEN -l.amount ELSE 0]

LEMMA WeightTypes ==
    ASSUME NEW o
    PROVE  Granting(o) \in [LedgerRow -> Int] /\ Revoking(o) \in [LedgerRow -> Int]
<1>1. \A l \in LedgerRow : l.amount \in Int
  BY DEF LedgerRow
<1>2. QED
  BY <1>1 DEF Granting, Revoking

LEMMA GrantedIsWeight ==
    ASSUME ledger \in Seq(LedgerRow), NEW o
    PROVE  Granted(o) = Weigh(ledger, Granting(o)) /\ Revoked(o) = Weigh(ledger, Revoking(o))
<1>1. \A i \in 1..Len(ledger) : ledger[i] \in LedgerRow
  OBVIOUS
<1>2. [i \in 1..Len(ledger) |->
             IF ledger[i].key \in GrantKeys(o) THEN ledger[i].amount ELSE 0]
      = [i \in 1..Len(ledger) |-> Granting(o)[ledger[i]]]
  BY <1>1 DEF Granting
<1>3. [i \in 1..Len(ledger) |->
             IF ledger[i].key \in RevokedKeys(o) THEN -ledger[i].amount ELSE 0]
      = [i \in 1..Len(ledger) |-> Revoking(o)[ledger[i]]]
  BY <1>1 DEF Revoking
<1>4. QED
  BY <1>2, <1>3 DEF Granted, Revoked, Weigh, GrantKeys

-----------------------------------------------------------------------------
(* An order against its rows in the ledger.                                  *)

GrantsOK(o) ==
    /\ Weigh(ledger, Granting(o)) = IF order[o].fulfilled THEN order[o].credits ELSE 0
    /\ ~order[o].fulfilled => KeysOf(ledger) \cap GrantKeys(o) = {}

RevokesOK(o) ==
    /\ Weigh(ledger, Revoking(o)) = refund[o].revoked
    /\ refund[o].status # "COMPLETED" => KeysOf(ledger) \cap RevokedKeys(o) = {}

(* The row l is added to the ledger.                                         *)
Adds(l, key, amount) == ledger' = Append(ledger, l) /\ l.key = key /\ l.amount = amount

LEMMA MoveAdds ==
    ASSUME NEW type, NEW key, NEW amount, Move(type, key, amount)
    PROVE  \E l : Adds(l, key, amount)
<1> DEFINE w == [wallet EXCEPT !.balance = wallet.balance + amount]
           l == Row(type, NoJob, key, amount, wallet, w)
<1>1. ledger' = Append(ledger, l)
  BY DEF Move, Write
<1>2. l.key = key /\ l.amount = amount
  BY RowFields
<1> HIDE DEF l
<1>3. QED
  BY <1>1, <1>2 DEF Adds

(* A job's row has a key of the job's.                                       *)
LEMMA SpendAdds ==
    ASSUME Spend
    PROVE  \/ ledger' = ledger
           \/ \E l, amount : \E k \in JobKeyKinds, i \in Jobs : Adds(l, <<k, i>>, amount)
<1>1. PICK j \in Jobs, c \in Credits : ReserveInTx(j, c) \/ ReleaseInTx(j, "release:fail")
  BY DEF Spend
<1>2. CASE ReserveInTx(j, c)
  <2> DEFINE l == Row("GENERATION_RESERVE", j, <<"reserve", j>>, -c, wallet, computeReserve(wallet, c))
  <2>1. ledger' = Append(ledger, l)
    BY <1>2 DEF ReserveInTx, Write
  <2>2. l.key = <<"reserve", j>> /\ l.amount = -c
    BY RowFields
  <2> HIDE DEF l
  <2>3. Adds(l, <<"reserve", j>>, -c) /\ "reserve" \in JobKeyKinds
    BY <2>1, <2>2 DEF Adds, JobKeyKinds
  <2> QED
    BY <2>3
<1>3. CASE ReleaseInTx(j, "release:fail")
  <2> DEFINE back == computeReleaseForJob(reservation[j]).release
             l == Row("GENERATION_RELEASE", j, <<"release:fail", j>>, back, wallet,
                      unreserve(wallet, back, back))
  <2>1. ledger' = ledger \/ ledger' = Append(ledger, l)
    BY <1>3 DEF ReleaseInTx, Write
  <2>2. l.key = <<"release:fail", j>> /\ l.amount = back
    BY RowFields
  <2> HIDE DEF l, back
  <2>3. ledger' = ledger \/ Adds(l, <<"release:fail", j>>, back)
    BY <2>1, <2>2 DEF Adds
  <2>4. "release:fail" \in JobKeyKinds
    BY DEF JobKeyKinds
  <2> QED
    BY <2>3, <2>4
<1>4. QED
  BY <1>1, <1>2, <1>3

(* What one more row does to an order's books.                               *)
LEMMA RowCounts ==
    ASSUME TypeInv, TypeInv', NEW l, NEW key, NEW amount, Adds(l, key, amount), NEW o
    PROVE  /\ KeysOf(ledger') = KeysOf(ledger) \cup {key}
           /\ Weigh(ledger', Granting(o))
                  = Weigh(ledger, Granting(o)) + (IF key \in GrantKeys(o) THEN amount ELSE 0)
           /\ Weigh(ledger', Revoking(o))
                  = Weigh(ledger, Revoking(o)) + (IF key \in RevokedKeys(o) THEN -amount ELSE 0)
           /\ Weigh(ledger, Granting(o)) \in Int /\ Weigh(ledger, Revoking(o)) \in Int
           /\ amount \in Int
<1>1. ledger \in Seq(LedgerRow) /\ ledger' \in Seq(LedgerRow) /\ ledger' = Append(ledger, l)
  BY DEF TypeInv, WalletTypeOK, Adds
<1>2. l \in LedgerRow
  <2>1. ledger'[Len(ledger) + 1] = l /\ Len(ledger) + 1 \in 1..Len(ledger')
    BY <1>1
  <2> QED
    BY <1>1, <2>1
<1>3. l.amount \in Int /\ l.key = key /\ l.amount = amount
  BY <1>2 DEF LedgerRow, Adds
<1>4. KeysOf(ledger') = KeysOf(ledger) \cup {key}
  BY <1>1, <1>3, KeysAppend
<1>5. Granting(o)[l] = IF key \in GrantKeys(o) THEN amount ELSE 0
  BY <1>2, <1>3 DEF Granting
<1>6. Revoking(o)[l] = IF key \in RevokedKeys(o) THEN -amount ELSE 0
  BY <1>2, <1>3 DEF Revoking
<1>7. /\ Weigh(ledger', Granting(o)) = Weigh(ledger, Granting(o)) + Granting(o)[l]
      /\ Weigh(ledger', Revoking(o)) = Weigh(ledger, Revoking(o)) + Revoking(o)[l]
      /\ Weigh(ledger, Granting(o)) \in Int /\ Weigh(ledger, Revoking(o)) \in Int
  BY <1>1, <1>2, WeightTypes, WeighAppend
<1>8. QED
  BY <1>3, <1>4, <1>5, <1>6, <1>7

(* A key is of one purpose and of one order.                                 *)
LEMMA GrantKeysApart ==
    ASSUME NEW o, NEW p, NEW key \in GrantKeys(o)
    PROVE  key \notin RevokedKeys(p) /\ (o # p => key \notin GrantKeys(p))
<1>1. key[1] \in {"recharge", "grant"} /\ key[2] = o
  BY DEF GrantKeys
<1>2. \A k \in RevokedKeys(p) : k[1] = "refund"
  BY DEF RevokedKeys
<1>3. \A k \in GrantKeys(p) : k[2] = p
  BY DEF GrantKeys
<1>4. QED
  BY <1>1, <1>2, <1>3

LEMMA RevokedKeysApart ==
    ASSUME NEW o, NEW p, NEW key \in RevokedKeys(o)
    PROVE  key \notin GrantKeys(p) /\ (o # p => key \notin RevokedKeys(p))
<1>1. \A q : \A k \in RevokedKeys(q) : k[1] = "refund" /\ k[2][1] = q
  BY DEF RevokedKeys
<1>2. \A k \in GrantKeys(p) : k[1] \in {"recharge", "grant"}
  BY DEF GrantKeys
<1>3. QED
  BY <1>1, <1>2

LEMMA JobKeysApart ==
    ASSUME NEW k \in JobKeyKinds, NEW j, NEW o
    PROVE  <<k, j>> \notin GrantKeys(o) /\ <<k, j>> \notin RevokedKeys(o)
<1>1. \A key \in GrantKeys(o) \cup RevokedKeys(o) : key[1] \in {"recharge", "grant", "refund"}
  BY DEF GrantKeys, RevokedKeys
<1>2. <<k, j>>[1] = k /\ k \notin {"recharge", "grant", "refund"}
  BY DEF JobKeyKinds
<1>3. QED
  BY <1>1, <1>2

(* What a step writes to the ledger for its order: nothing, and the order's  *)
(* word on its credits does not change either; the credits of a fulfilment;  *)
(* or those a refund revokes.                                                *)
WritesNothing(o, row, f) ==
    /\ ledger' = ledger
    /\ \/ ~row.fulfilled /\ ~order[o].fulfilled
       \/ row.fulfilled /\ order[o].fulfilled /\ row.credits = order[o].credits
       \/ row.fulfilled /\ ~order[o].fulfilled /\ row.credits = 0
    /\ f.revoked = refund[o].revoked
    /\ f.status # "COMPLETED" => refund[o].status # "COMPLETED"

WritesGrant(o, row, f) ==
    /\ ~order[o].fulfilled /\ row.fulfilled
    /\ f = refund[o]
    /\ \E l, key : key \in GrantKeys(o) /\ Adds(l, key, row.credits)

WritesRefund(o, row, f) ==
    /\ row = order[o]
    /\ refund[o].status # "COMPLETED" /\ f.status = "COMPLETED" /\ refund[o].revoked = 0
    /\ \E l, key : key \in RevokedKeys(o) /\ Adds(l, key, -f.revoked)

LEMMA CreditAdds ==
    ASSUME NEW kind \in {"recharge", "grant"}, NEW o, Credit(kind, o),
           KeysOf(ledger) \cap GrantKeys(o) = {}
    PROVE  \E l, key : key \in GrantKeys(o) /\ Adds(l, key, order[o].credits)
<1>1. <<kind, o>> \in GrantKeys(o)
  BY DEF GrantKeys
<1>2. Move("RECHARGE", <<kind, o>>, order[o].credits)
  BY <1>1 DEF Credit, RechargeInTx
<1>3. QED
  BY <1>1, <1>2, MoveAdds

LEMMA RevokeAdds ==
    ASSUME NEW o, NEW no \in RefundNos \cup {"credits"}, NEW c \in Nat, Revoke(<<o, no>>, c),
           KeysOf(ledger) \cap RevokedKeys(o) = {}
    PROVE  \/ c = 0 /\ ledger' = ledger
           \/ \E l, key : key \in RevokedKeys(o) /\ Adds(l, key, -c)
<1>1. <<"refund", <<o, no>>>> \in RevokedKeys(o)
  BY DEF RevokedKeys
<1>2. CASE c = 0
  BY <1>2 DEF Revoke, walletVars
<1>3. CASE c # 0
  <2>1. Move("REFUND", <<"refund", <<o, no>>>>, -c)
    BY <1>1, <1>3 DEF Revoke, RefundCreditsInTx
  <2> QED
    BY <1>1, <2>1, MoveAdds
<1>4. QED
  BY <1>2, <1>3

LEMMA OrderWrites ==
    ASSUME OrdersInv, NEW o \in Orders, GrantsOK(o), RevokesOK(o),
           NEW row \in OrderRow, NEW t \in TxnRow, NEW f \in RefundRow, NEW c \in ChannelRow,
           OrderStep(o, row, t, f, c)
    PROVE  WritesNothing(o, row, f) \/ WritesGrant(o, row, f) \/ WritesRefund(o, row, f)
<1>0. /\ order[o] \in OrderRow /\ refund[o] \in RefundRow
      /\ OrderOK(o) /\ RefundOK(o)
  BY TableTypes DEF OrdersInv
<1>1. order[o].credits \in Nat /\ f.toRevoke \in Nat /\ order[o].fulfilled \in BOOLEAN
  BY <1>0 DEF OrderRow, RefundRow
<1>2. CASE Creates(o, row, t, f, c)
  BY <1>0, <1>2 DEF Creates, WritesNothing, NoOrder, walletVars
<1>3. CASE Tells(o, row, t, f, c) \/ Refers(o, row, t, f, c)
  BY <1>0, <1>1, <1>3 DEF Tells, Refers, WritesNothing, walletVars
<1>4. CASE Settles(o, row, t, f, c)
  <2>1. ~order[o].fulfilled /\ row.credits = order[o].credits /\ f = refund[o]
    BY <1>0, <1>4 DEF OrderOK, Settles, KeepsTerms
  <2>2. CASE order[o].type = "RECHARGE"
    <3>1. row.fulfilled /\ Credit("recharge", o)
      BY <1>4, <2>2 DEF Settles
    <3>2. \E l, key : key \in GrantKeys(o) /\ Adds(l, key, order[o].credits)
      BY <2>1, <3>1, CreditAdds DEF GrantsOK
    <3> QED
      BY <2>1, <3>1, <3>2 DEF WritesGrant
  <2>3. CASE order[o].type # "RECHARGE"
    BY <1>4, <2>1, <2>3 DEF Settles, WritesNothing, walletVars
  <2> QED
    BY <2>2, <2>3
<1>5. CASE Grants(o, row, t, f, c)
  <2>1. /\ ~order[o].fulfilled /\ row.fulfilled /\ row.credits = order[o].credits
        /\ f = refund[o]
    BY <1>5 DEF Grants, KeepsTerms
  <2>2. CASE order[o].credits > 0
    <3>1. \E l, key : key \in GrantKeys(o) /\ Adds(l, key, order[o].credits)
      BY <1>5, <2>1, <2>2, CreditAdds DEF GrantsOK, Grants
    <3> QED
      BY <2>1, <3>1 DEF WritesGrant
  <2>3. CASE ~(order[o].credits > 0)
    <3>1. row.credits = 0
      BY <1>1, <2>1, <2>3
    <3> QED
      BY <1>5, <2>1, <2>3, <3>1 DEF Grants, WritesNothing, walletVars
  <2> QED
    BY <2>2, <2>3
<1>6. CASE Fails(o, row, t, f, c)
  BY <1>0, <1>1, <1>6 DEF Fails, KeepsTerms, WritesNothing, walletVars
<1>7. CASE Records(o, row, t, f, c)
  <2>1. row = order[o] /\ refund[o].status # "COMPLETED" /\ refund[o].revoked = 0
    BY <1>7 DEF Records, NoRefund
  <2>2. CASE f.status = "COMPLETED"
    <3>1. f.revoked = f.toRevoke /\ Revoke(<<o, f.no>>, f.toRevoke) /\ f.no \in RefundNos
      BY <1>7, <2>2 DEF Records
    <3>2. \/ f.toRevoke = 0 /\ ledger' = ledger
          \/ \E l, key : key \in RevokedKeys(o) /\ Adds(l, key, -f.toRevoke)
      BY <1>1, <2>1, <3>1, RevokeAdds DEF RevokesOK
    <3>3. CASE f.toRevoke = 0 /\ ledger' = ledger
      BY <1>1, <2>1, <2>2, <3>1, <3>3 DEF WritesNothing
    <3>4. CASE \E l, key : key \in RevokedKeys(o) /\ Adds(l, key, -f.toRevoke)
      BY <2>1, <2>2, <3>1, <3>4 DEF WritesRefund
    <3> QED
      BY <3>2, <3>3, <3>4
  <2>3. CASE f.status # "COMPLETED"
    BY <1>1, <1>7, <2>1, <2>3 DEF Records, WritesNothing, walletVars
  <2> QED
    BY <2>2, <2>3
<1>8. CASE Revokes(o, row, t, f, c)
  <2>1. /\ row = order[o] /\ refund[o].status # "COMPLETED" /\ refund[o].revoked = 0
        /\ f.status = "COMPLETED" /\ f.revoked = f.toRevoke
        /\ Revoke(<<o, "credits">>, f.toRevoke)
    BY <1>0, <1>8 DEF Revokes, RefundOK
  <2>2. \/ f.toRevoke = 0 /\ ledger' = ledger
        \/ \E l, key : key \in RevokedKeys(o) /\ Adds(l, key, -f.toRevoke)
    BY <1>1, <2>1, RevokeAdds DEF RevokesOK
  <2>3. CASE f.toRevoke = 0 /\ ledger' = ledger
    BY <1>1, <2>1, <2>3 DEF WritesNothing
  <2>4. CASE \E l, key : key \in RevokedKeys(o) /\ Adds(l, key, -f.toRevoke)
    BY <2>1, <2>4 DEF WritesRefund
  <2> QED
    BY <2>2, <2>3, <2>4
<1>9. QED
  BY <1>2, <1>3, <1>4, <1>5, <1>6, <1>7, <1>8 DEF OrderStep

(* The whole invariant: the wallet's, the tables, and what ties the two.     *)
PaymentInv ==
    /\ TypeInv
    /\ OrdersInv
    /\ \A o \in Orders : GrantsOK(o) /\ RevokesOK(o)

(* A row of another purpose, or of another order, leaves an order's books.   *)
LEMMA OtherRow ==
    ASSUME TypeInv, TypeInv', NEW p \in Orders, GrantsOK(p), RevokesOK(p),
           NEW l, NEW key, NEW amount, Adds(l, key, amount),
           key \notin GrantKeys(p)
    PROVE  order'[p].fulfilled = order[p].fulfilled /\ order'[p].credits = order[p].credits
               => GrantsOK(p)'
<1>1. Granting(p)' = Granting(p) /\ GrantKeys(p)' = GrantKeys(p)
  BY DEF Granting, GrantKeys
<1>2. Weigh(ledger', Granting(p)) = Weigh(ledger, Granting(p))
  BY RowCounts
<1>3. KeysOf(ledger') \cap GrantKeys(p) = KeysOf(ledger) \cap GrantKeys(p)
  BY RowCounts
<1>4. QED
  BY <1>1, <1>2, <1>3 DEF GrantsOK

LEMMA OtherRefundRow ==
    ASSUME TypeInv, TypeInv', NEW p \in Orders, RevokesOK(p),
           NEW l, NEW key, NEW amount, Adds(l, key, amount),
           key \notin RevokedKeys(p)
    PROVE  refund'[p] = refund[p] => RevokesOK(p)'
<1>2. Weigh(ledger', Revoking(p)) = Weigh(ledger, Revoking(p))
  BY RowCounts
<1>3. KeysOf(ledger') \cap RevokedKeys(p) = KeysOf(ledger) \cap RevokedKeys(p)
  BY RowCounts
<1>4. QED
  BY <1>2, <1>3 DEF RevokesOK

LEMMA BooksNext ==
    ASSUME PaymentInv, StepMeaning, TypeInv', NEW p \in Orders
    PROVE  GrantsOK(p)' /\ RevokesOK(p)'
<1>0. OrdersInv /\ PaymentTypes /\ TypeInv /\ GrantsOK(p) /\ RevokesOK(p)
  BY DEF PaymentInv, OrdersInv
<1>1. CASE NoOrderStep
  <2>1. order' = order /\ refund' = refund
    BY <1>1 DEF NoOrderStep
  <2>2. CASE ledger' = ledger
    BY <1>0, <2>1, <2>2 DEF GrantsOK, RevokesOK
  <2>3. ASSUME NEW l, NEW amount, NEW k \in JobKeyKinds, NEW i \in Jobs, Adds(l, <<k, i>>, amount)
        PROVE  GrantsOK(p)' /\ RevokesOK(p)'
    <3>1. <<k, i>> \notin GrantKeys(p) /\ <<k, i>> \notin RevokedKeys(p)
      BY JobKeysApart
    <3>2. GrantsOK(p)'
      BY <1>0, <2>1, <2>3, <3>1, OtherRow
    <3>3. RevokesOK(p)'
      BY <1>0, <2>1, <2>3, <3>1, OtherRefundRow
    <3> QED
      BY <3>2, <3>3
  <2> QED
    BY <1>1, <2>2, <2>3, SpendAdds DEF NoOrderStep, walletVars
<1>2. ASSUME NEW o \in Orders, NEW row \in OrderRow, NEW t \in TxnRow,
             NEW f \in RefundRow, NEW c \in ChannelRow, OrderStep(o, row, t, f, c)
      PROVE  GrantsOK(p)' /\ RevokesOK(p)'
  <2>0. /\ order'[o] = row /\ refund'[o] = f
        /\ p # o => order'[p] = order[p] /\ refund'[p] = refund[p]
    BY <1>0, <1>2, RowsAfter
  <2>1. GrantsOK(o) /\ RevokesOK(o)
    BY DEF PaymentInv
  <2>2. CASE WritesNothing(o, row, f)
    <3>1. CASE p # o
      BY <1>0, <2>0, <2>2, <3>1 DEF WritesNothing, GrantsOK, RevokesOK
    <3>2. CASE p = o
      BY <1>0, <2>0, <2>2, <3>2 DEF WritesNothing, GrantsOK, RevokesOK
    <3> QED
      BY <3>1, <3>2
  <2>3. CASE WritesGrant(o, row, f)
    <3>1. PICK l, key : key \in GrantKeys(o) /\ Adds(l, key, row.credits)
      BY <2>3 DEF WritesGrant
    <3>2. key \notin RevokedKeys(p) /\ (o # p => key \notin GrantKeys(p))
      BY <3>1, GrantKeysApart
    <3>3. refund'[p] = refund[p]
      BY <2>0, <2>3 DEF WritesGrant
    <3>4. RevokesOK(p)'
      BY <1>0, <3>1, <3>2, <3>3, OtherRefundRow
    <3>5. CASE p # o
      BY <1>0, <2>0, <3>1, <3>2, <3>4, <3>5, OtherRow
    <3>6. CASE p = o
      <4>1. Weigh(ledger', Granting(o)) = Weigh(ledger, Granting(o)) + row.credits
        BY <1>0, <3>1, RowCounts
      <4>2. Weigh(ledger, Granting(o)) = 0
        BY <2>1, <2>3 DEF GrantsOK, WritesGrant
      <4>3. row.credits \in Nat /\ row.fulfilled
        BY <2>3 DEF OrderRow, WritesGrant
      <4>4. GrantsOK(o)'
        BY <2>0, <4>1, <4>2, <4>3 DEF GrantsOK
      <4> QED
        BY <3>4, <3>6, <4>4
    <3> QED
      BY <3>5, <3>6
  <2>4. CASE WritesRefund(o, row, f)
    <3>1. PICK l, key : key \in RevokedKeys(o) /\ Adds(l, key, -f.revoked)
      BY <2>4 DEF WritesRefund
    <3>2. key \notin GrantKeys(p) /\ (o # p => key \notin RevokedKeys(p))
      BY <3>1, RevokedKeysApart
    <3>3. order'[p] = order[p]
      BY <2>0, <2>4 DEF WritesRefund
    <3>4. GrantsOK(p)'
      BY <1>0, <3>1, <3>2, <3>3, OtherRow
    <3>5. CASE p # o
      BY <1>0, <2>0, <3>1, <3>2, <3>4, <3>5, OtherRefundRow
    <3>6. CASE p = o
      <4>1. Weigh(ledger', Revoking(o)) = Weigh(ledger, Revoking(o)) + (-(-f.revoked))
        BY <1>0, <3>1, RowCounts
      <4>2. Weigh(ledger, Revoking(o)) = 0
        BY <2>1, <2>4 DEF RevokesOK, WritesRefund
      <4>3. f.revoked \in Nat /\ f.status = "COMPLETED"
        BY <2>4 DEF RefundRow, WritesRefund
      <4>4. RevokesOK(o)'
        BY <2>0, <4>1, <4>2, <4>3 DEF RevokesOK
      <4> QED
        BY <3>4, <3>6, <4>4
    <3> QED
      BY <3>5, <3>6
  <2> QED
    BY <1>0, <1>2, <2>1, <2>2, <2>3, <2>4, OrderWrites
<1>3. QED
  BY <1>1, <1>2 DEF StepMeaning, SomeOrderStep

LEMMA PaymentInvNext ==
    ASSUME PaymentInv, [PaymentNext]_paymentVars
    PROVE  PaymentInv' /\ StepMeaning /\ [WalletNext]_walletVars
<1>1. OrdersInv /\ TypeInv
  BY DEF PaymentInv
<1>2. StepMeaning
  BY <1>1, PaymentStepMeaning
<1>3. [WalletNext]_walletVars
  BY <1>1, <1>2, StepIsWallet
<1>4. TypeInv'
  BY <1>1, <1>3, TypeNext
<1>5. OrdersInv'
  BY <1>1, <1>2, OrdersNext
<1>6. (\A o \in Orders : GrantsOK(o) /\ RevokesOK(o))'
  BY <1>2, <1>4, BooksNext
<1>7. QED
  BY <1>2, <1>3, <1>4, <1>5, <1>6 DEF PaymentInv

LEMMA PaymentInvInit == PaymentInit => PaymentInv
<1> SUFFICES ASSUME PaymentInit PROVE PaymentInv
  OBVIOUS
<1>1. TypeInv
  BY TypeInit DEF PaymentInit
<1>2. /\ NoOrder \in OrderRow /\ NoRefund \in RefundRow
      /\ [status |-> "NONE", ref |-> "none"] \in TxnRow
      /\ [state |-> "none", paid |-> 0, told |-> FALSE] \in ChannelRow
  BY DEF NoOrder, OrderRow, NoRefund, RefundRow, TxnRow, ChannelRow
<1>3. PaymentTypes
  <2>1. channel \in [Orders -> ChannelRow]
    BY <1>2 DEF PaymentInit
  <2>2. \A o \in Orders : channel[o].state \in {"none", "open", "paid", "closed"}
    BY <2>1 DEF ChannelRow
  <2>3. request \in [Requests -> RequestRow]
    BY IdleIsOK DEF PaymentInit
  <2>4. order \in [Orders -> OrderRow] /\ txn \in [Orders -> TxnRow]
        /\ refund \in [Orders -> RefundRow]
    BY <1>2 DEF PaymentInit
  <2>5. subscription \in [Orders -> {"NONE", "ACTIVE", "CANCELED"}]
        /\ revenue \in [Orders -> Nat] /\ faults \in 0..MaxFaults
    BY PaymentAssumption DEF PaymentInit
  <2> QED
    BY <2>1, <2>2, <2>3, <2>4, <2>5 DEF PaymentTypes, PaymentTypeOK, TxnRow
<1>4. ASSUME NEW o \in Orders PROVE OrderOK(o) /\ RefundOK(o)
  BY <1>4 DEF PaymentInit, OrderOK, RefundOK, NoOrder, NoRefund
<1>5. NumbersOK
  BY DEF PaymentInit, NumbersOK, NoRefund
<1>6. \A r \in Requests : RequestFacts(request[r])
  BY IdleIsOK DEF PaymentInit
<1>7. ASSUME NEW o \in Orders PROVE GrantsOK(o) /\ RevokesOK(o)
  <2>0. /\ ~order[o].fulfilled /\ refund[o].revoked = 0
        /\ ledger = WelcomeLedger
    BY DEF PaymentInit, WalletInit, NoOrder, NoRefund
  <2>1. Weigh(ledger, Granting(o)) = 0 /\ Weigh(ledger, Revoking(o)) = 0
        /\ KeysOf(ledger) \cap GrantKeys(o) = {} /\ KeysOf(ledger) \cap RevokedKeys(o) = {}
    <3>1. CASE ledger = <<>>
      BY <3>1, WeighEmpty DEF KeysOf
    <3>2. CASE ledger # <<>>
      <4>1. PICK l : ledger = Append(<<>>, l) /\ l.key = <<"welcome", NoJob>>
        <5> DEFINE l == Row("WELCOME", NoJob, <<"welcome", NoJob>>, Welcome,
                            [balance |-> 0, reserved |-> 0],
                            [balance |-> Welcome, reserved |-> 0])
        <5>1. ledger = <<l>> /\ l.key = <<"welcome", NoJob>>
          BY <2>0, <3>2, RowFields DEF WelcomeLedger
        <5> HIDE DEF l
        <5>2. <<l>> = Append(<<>>, l)
          OBVIOUS
        <5> QED
          BY <5>1, <5>2
      <4>2. l \in LedgerRow /\ <<>> \in Seq(LedgerRow)
        <5>1. ledger \in Seq(LedgerRow) /\ Len(ledger) = 1 /\ ledger[1] = l
          BY <1>1, <4>1 DEF TypeInv, WalletTypeOK
        <5> QED
          BY <5>1
      <4>3. l.key \notin GrantKeys(o) /\ l.key \notin RevokedKeys(o)
        <5>1. \A key \in GrantKeys(o) \cup RevokedKeys(o) : key[1] \in {"recharge", "grant", "refund"}
          BY DEF GrantKeys, RevokedKeys
        <5>2. l.key[1] = "welcome"
          BY <4>1
        <5> QED
          BY <5>1, <5>2
      <4>4. Granting(o)[l] = 0 /\ Revoking(o)[l] = 0
        BY <4>2, <4>3 DEF Granting, Revoking
      <4>5. Weigh(ledger, Granting(o)) = 0 /\ Weigh(ledger, Revoking(o)) = 0
        <5>1. \A w \in [LedgerRow -> Int] : w[l] = 0 => Weigh(ledger, w) = 0
          <6> TAKE w \in [LedgerRow -> Int]
          <6>1. Weigh(Append(<<>>, l), w) = Weigh(<<>>, w) + w[l]
            BY <4>2, WeighAppend
          <6>2. Weigh(<<>>, w) = 0
            BY WeighEmpty
          <6> QED
            BY <4>1, <6>1, <6>2
        <5> QED
          BY <4>4, <5>1, WeightTypes
      <4>6. KeysOf(ledger) = {l.key}
        <5>1. KeysOf(<<>>) = {}
          BY DEF KeysOf
        <5> QED
          BY <4>1, <4>2, <5>1, KeysAppend
      <4> QED
        BY <4>3, <4>5, <4>6
    <3> QED
      BY <3>1, <3>2
  <2> QED
    BY <2>0, <2>1 DEF GrantsOK, RevokesOK
<1>8. QED
  BY <1>1, <1>3, <1>4, <1>5, <1>6, <1>7 DEF PaymentInv, OrdersInv

LEMMA PaymentInvHolds == PaymentSpec => []PaymentInv
BY PaymentInvInit, PaymentInvNext, PTL DEF PaymentSpec

-----------------------------------------------------------------------------
(* The tables hold rows of their types, for every number of orders and of    *)
(* requests in flight (payment.service.ts, orders.admin.service.ts).         *)
THEOREM PaymentTypesOK == PaymentSpec => []PaymentTypeOK
<1>1. PaymentInv => PaymentTypeOK
  BY DEF PaymentInv, OrdersInv, PaymentTypes
<1>2. QED
  BY <1>1, PaymentInvHolds, PTL

(* Orders use the wallet as its gateway allows: whatever checkouts,          *)
(* notifications, fulfilments and refunds do, they move credits only by      *)
(* transactions of Wallet, so every theorem about WalletSpec holds here      *)
(* (payment.service.ts:540, subscription-fulfillment.service.ts:141,         *)
(* orders.admin.service.ts:349, 548).                                        *)
THEOREM PaymentUsesTheWallet == PaymentSpec => WalletSpec
<1>1. PaymentInit => WalletInit
  BY DEF PaymentInit
<1>2. PaymentInv /\ [PaymentNext]_paymentVars => [WalletNext]_walletVars
  BY PaymentInvNext
<1>3. QED
  BY <1>1, <1>2, PaymentInvHolds, PTL DEF PaymentSpec, WalletSpec

(* An order's credits are in the ledger exactly when the order says so,      *)
(* however notifications, confirmations, retries, closes and crashes race    *)
(* (payment.service.ts:480-556, subscription-fulfillment.service.ts:51-156). *)
THEOREM CreditsAreGrantedOnce == PaymentSpec => []GrantedIffFulfilled
<1>1. PaymentInv => GrantedIffFulfilled
  <2>1. ASSUME PaymentInv, NEW o \in Orders
        PROVE  Granted(o) = IF order[o].fulfilled THEN order[o].credits ELSE 0
    <3>1. ledger \in Seq(LedgerRow) /\ GrantsOK(o)
      BY <2>1 DEF PaymentInv, TypeInv, WalletTypeOK
    <3> QED
      BY <3>1, GrantedIsWeight DEF GrantsOK
  <2> QED
    BY <2>1 DEF GrantedIffFulfilled
<1>2. QED
  BY <1>1, PaymentInvHolds, PTL

(* A refund record says what the ledger has revoked, all or nothing and no   *)
(* more than the order brought (orders.admin.service.ts:239-610).            *)
THEOREM RefundsMatchTheLedger == PaymentSpec => []RefundRecordIsLedger
<1>1. PaymentInv => RefundRecordIsLedger
  <2>1. ASSUME PaymentInv, NEW o \in Orders
        PROVE  /\ Revoked(o) = refund[o].revoked
               /\ refund[o].revoked <= order[o].credits
               /\ refund[o].status = "COMPLETED" => refund[o].revoked = refund[o].toRevoke
               /\ refund[o].status = "CREDITS_PENDING" => refund[o].revoked = 0
    <3>1. /\ ledger \in Seq(LedgerRow) /\ RevokesOK(o) /\ RefundOK(o)
          /\ refund[o] \in RefundRow /\ order[o] \in OrderRow
      BY <2>1, TableTypes DEF PaymentInv, OrdersInv, TypeInv, WalletTypeOK
    <3>2. Revoked(o) = refund[o].revoked
      BY <3>1, GrantedIsWeight DEF RevokesOK
    <3>3. refund[o].revoked <= order[o].credits
      <4>1. /\ refund[o].revoked \in Nat /\ refund[o].toRevoke \in Nat /\ order[o].credits \in Nat
            /\ refund[o].status \in {"NONE", "COMPLETED", "CREDITS_PENDING"}
        BY <3>1 DEF RefundRow, OrderRow
      <4>2. refund[o].status = "NONE" => refund[o].revoked = 0
        BY <3>1 DEF RefundOK, NoRefund
      <4> QED
        BY <3>1, <4>1, <4>2 DEF RefundOK
    <3> QED
      BY <3>1, <3>2, <3>3 DEF RefundOK
  <2> QED
    BY <2>1 DEF RefundRecordIsLedger
<1>2. QED
  BY <1>1, PaymentInvHolds, PTL

(* Revenue is recognised exactly for the settled orders, and for a real      *)
(* channel it is the amount that was paid and the transaction carries its    *)
(* trade number, also for an order a close overwrote                         *)
(* (payment.service.ts:429-434, 498-554).                                    *)
THEOREM RevenueFollowsSettlement == PaymentSpec => []RevenueIsSettlement
<1>1. PaymentInv => RevenueIsSettlement
  <2>1. ASSUME PaymentInv, NEW o \in Orders PROVE OrderOK(o)
    BY <2>1 DEF PaymentInv, OrdersInv
  <2> QED
    BY <2>1 DEF RevenueIsSettlement, OrderOK
<1>2. QED
  BY <1>1, PaymentInvHolds, PTL

KeptStep ==
    /\ \A o \in Orders : refund[o].status # "NONE" =>
          refund'[o].no = refund[o].no /\ refund'[o].toRevoke = refund[o].toRevoke
    /\ \A o, p \in Orders : refund'[o].no = refund'[p].no /\ refund'[o].no # "none" => o = p

(* A refund number is recorded for one order, and a record keeps its number  *)
(* and what it is to revoke (orders.admin.service.ts:305-367).               *)
THEOREM RefundsAreRecordedOnce == PaymentSpec => RefundIsRecordedOnce
<1>1. PaymentInv /\ [PaymentNext]_paymentVars => KeptStep
  <2> SUFFICES ASSUME PaymentInv, [PaymentNext]_paymentVars PROVE KeptStep
    OBVIOUS
  <2>1. OrdersInv /\ StepMeaning /\ NumbersOK'
    BY PaymentInvNext DEF PaymentInv, OrdersInv
  <2>2. \A o \in Orders : Lasting(o)
    BY <2>1, LastingNext
  <2>3. QED
    BY <2>1, <2>2 DEF KeptStep, Lasting, NumbersOK
<1>2. PaymentSpec => [][KeptStep]_paymentVars
  BY <1>1, PaymentInvHolds, PTL DEF PaymentSpec
<1>3. QED
  BY <1>2 DEF KeptStep, RefundIsRecordedOnce
=============================================================================
