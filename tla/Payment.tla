------------------------------ MODULE Payment ------------------------------
(* Orders of one workspace, from checkout to manual refund: the orders,      *)
(* payment_transactions, subscriptions, subscription_fulfillments,           *)
(* revenue_events and manual_refund_records rows, the payment channel, and   *)
(* the wallet (EXTENDS Wallet) that recharges and refunds move.              *)
(*                                                                           *)
(* A request is cut at every await on the channel and between its database   *)
(* transactions; a transaction that holds the order's row lock is one step   *)
(* (WalletTx is the reason for the wallet's part).  A call that throws or    *)
(* returns before it wrote anything is no step.                              *)
EXTENDS Wallet

CONSTANTS
    Orders,                       \* order ids
    Requests,                     \* concurrent HTTP requests of the API
    Offers,                       \* order id -> the <<type, channel>> it may be
    Prices,                       \* what an order may cost, in cents
    CreditsPerCny,                \* payment.creditsPerCny
    PlanCredits,                  \* monthlyCredits of the plan on sale
    RefundNos,                    \* refund numbers of the channel
    MaxFaults                     \* bound on crashes and database errors

Channels == {"sandbox", "alipay", "wechat"}

ASSUME PaymentAssumption ==
    /\ Offers \in [Orders -> SUBSET ({"RECHARGE", "PLAN"} \X Channels)]
    /\ Prices \subseteq Nat \ {0}
    /\ CreditsPerCny \in Nat \ {0}
    /\ PlanCredits \in Nat
    /\ MaxFaults \in Nat

VARIABLES
    order,                        \* order id -> row of orders, NoOrder before it
    txn,                          \* order id -> row of payment_transactions
    subscription,                 \* order id -> status of the subscription it bought
    revenue,                      \* order id -> cents its revenue_events row recognises, 0 without
    refund,                       \* order id -> its manual refund record, or NoRefund
    channel,                      \* order id -> what the channel knows
    request,                      \* request -> where it is
    faults

orderVars == <<order, txn, subscription, revenue, refund>>
paymentVars == <<walletVars, orderVars, channel, request, faults>>

NoOrder == [status |-> "NONE", type |-> "RECHARGE", channel |-> "none",
            amount |-> 0, credits |-> 0, fulfilled |-> FALSE]
NoRefund == [status |-> "NONE", full |-> FALSE, toRevoke |-> 0, revoked |-> 0, no |-> "none"]
Idle == [at |-> "idle"]

(* Floor of amount * rate / 100 for an amount of cents.                      *)
creditsFromCents(cents, rate) == (cents * rate) \div 100

(* The ids and amounts the orders bring to the wallet are among its own.     *)
ASSUME WalletServesOrders ==
    /\ Orders \cup (Orders \X (RefundNos \cup {"credits"})) \subseteq Refs
    /\ \A p \in Prices : 1..creditsFromCents(p, CreditsPerCny) \subseteq Amounts
    /\ 1..PlanCredits \subseteq Amounts

PaymentInit ==
    /\ WalletInit
    /\ order = [o \in Orders |-> NoOrder]
    /\ txn = [o \in Orders |-> [status |-> "NONE", ref |-> "none"]]
    /\ subscription = [o \in Orders |-> "NONE"]
    /\ revenue = [o \in Orders |-> 0]
    /\ refund = [o \in Orders |-> NoRefund]
    /\ channel = [o \in Orders |-> [state |-> "none", paid |-> 0, told |-> FALSE]]
    /\ request = [r \in Requests |-> Idle]
    /\ faults = 0

At(r, step) == request[r].at = step
Goes(r, step) == request' = [request EXCEPT ![r].at = step]
Ends(r) == request' = [request EXCEPT ![r] = Idle]
Starts(r, step, o) == At(r, "idle") /\ request' = [request EXCEPT ![r] = [at |-> step, order |-> o]]
On(r, step, o) == At(r, step) /\ request[r].order = o
Creating(o) == \E r \in Requests : On(r, "create", o) \/ On(r, "answered", o)

-----------------------------------------------------------------------------
(* Checkout.                                                                 *)

(* The order and its transaction are committed before the channel is asked.  *)
Insert(r, o, row) ==
    /\ order[o] = NoOrder
    /\ order' = [order EXCEPT ![o] = row]
    /\ txn' = [txn EXCEPT ![o] = [status |-> "PENDING", ref |-> "none"]]
    /\ Starts(r, "create", o)
    /\ UNCHANGED <<walletVars, subscription, revenue, refund, channel, faults>>

(* The amount is the one after the coupon (Coupon.tla); its credits must be  *)
(* positive.                                                                 *)
createRecharge(r, o) ==
    \E amount \in Prices, ch \in Channels :
        LET credits == creditsFromCents(amount, CreditsPerCny)
        IN  /\ <<"RECHARGE", ch>> \in Offers[o]
            /\ credits > 0
            /\ Insert(r, o, [status |-> "PENDING", type |-> "RECHARGE", channel |-> ch,
                             amount |-> amount, credits |-> credits, fulfilled |-> FALSE])

createPlanOrder(r, o) ==
    \E amount \in Prices, ch \in Channels :
        /\ <<"PLAN", ch>> \in Offers[o]
        /\ Insert(r, o, [status |-> "PENDING", type |-> "PLAN", channel |-> ch,
                         amount |-> amount, credits |-> PlanCredits, fulfilled |-> FALSE])

(* The channel accepts; its answer may be lost on the way.                   *)
ChannelAccepts(r, o) ==
    /\ On(r, "create", o)
    /\ channel' = [channel EXCEPT ![o].state = "open"]
    /\ Goes(r, "answered")
    /\ UNCHANGED <<walletVars, orderVars, faults>>

(* The reference of the answer: the order's id for alipay and wechat, which  *)
(* know their trade only after the payment; a number of its own for sandbox. *)
ReferenceOf(o) == IF order[o].channel = "sandbox" THEN "sandbox" ELSE "placeholder"

WriteReference(r, o) ==
    /\ On(r, "answered", o)
    /\ txn' = [txn EXCEPT ![o].ref = ReferenceOf(o)]
    /\ Ends(r)
    /\ UNCHANGED <<walletVars, order, subscription, revenue, refund, channel, faults>>

(* The customer pays what the channel asks for; wechat reports payer_total,  *)
(* which a voucher of the channel makes smaller.  The link to pay is part of *)
(* the answer of the checkout.                                               *)
Pay(o) ==
    /\ channel[o].state = "open"
    /\ ~Creating(o)
    /\ \E paid \in {order[o].amount} \cup
                   (IF order[o].channel = "wechat" THEN 1..order[o].amount ELSE {}) :
          channel' = [channel EXCEPT ![o] = [state |-> "paid", paid |-> paid, told |-> FALSE]]
    /\ UNCHANGED <<walletVars, orderVars, request, faults>>

-----------------------------------------------------------------------------
(* Settlement: the same transaction for notifications and the sandbox's      *)
(* confirmation, then the fulfilment of a plan in a transaction of its own.  *)

(* rechargeInTx returns early when its key is in the ledger.                 *)
Credit(kind, o) ==
    IF <<kind, o>> \in KeysOf(ledger)
    THEN UNCHANGED walletVars
    ELSE RechargeInTx(kind, o, order[o].credits)

Settled_KeepsReference(t, trade) == [t EXCEPT !.status = "SUCCEEDED"]

(* The real trade number is written only to a PENDING transaction.           *)
Settled(t, trade) ==
    IF ~trade THEN [t EXCEPT !.status = "SUCCEEDED"]
    ELSE IF t.status = "PENDING" THEN [status |-> "SUCCEEDED", ref |-> "trade"]
    ELSE t

markSucceededAndRecharge(o, trade) ==
    LET recharges == order[o].type = "RECHARGE"
    IN  \/ /\ order[o].status = "SUCCEEDED"
           /\ UNCHANGED <<order, txn, revenue, walletVars>>
        \/ /\ order[o].status = "PENDING"
           /\ order' = [order EXCEPT ![o].status = "SUCCEEDED", ![o].fulfilled = recharges]
           /\ txn' = [txn EXCEPT ![o] = Settled(@, trade)]
           /\ revenue' = [revenue EXCEPT ![o] = order[o].amount]
           /\ IF recharges THEN Credit("recharge", o) ELSE UNCHANGED walletVars

(* settleOrder reads the order again and goes on to the fulfilment of a plan *)
(* that is still pending.  A notification is answered with 200 at the end.   *)
settleOrder(r, o, trade) ==
    /\ markSucceededAndRecharge(o, trade)
    /\ IF order'[o].type = "PLAN" /\ ~order'[o].fulfilled
       THEN Starts(r, "fulfil", o) /\ UNCHANGED channel
       ELSE /\ UNCHANGED request
            /\ channel' = IF trade THEN [channel EXCEPT ![o].told = TRUE] ELSE channel
    /\ UNCHANGED <<subscription, refund, faults>>

settleNotification_AnyAmount(r, o) ==
    /\ At(r, "idle")
    /\ channel[o].state = "paid" /\ order[o].channel # "sandbox"
    /\ settleOrder(r, o, TRUE)

settleNotification_ByReference(r, o) ==
    /\ At(r, "idle")
    /\ channel[o].state = "paid" /\ order[o].channel # "sandbox"
    /\ channel[o].paid = order[o].amount
    /\ txn[o].ref # "none"
    /\ settleOrder(r, o, TRUE)

(* The channel repeats a notification until it is answered with 200, and may *)
(* repeat it later.  Another amount than the order's is refused.             *)
settleNotification(r, o) ==
    /\ At(r, "idle")
    /\ channel[o].state = "paid" /\ order[o].channel # "sandbox"
    /\ channel[o].paid = order[o].amount
    /\ settleOrder(r, o, TRUE)

simulateConfirm(r, o) ==
    /\ At(r, "idle")
    /\ order[o].channel = "sandbox"
    /\ settleOrder(r, o, FALSE)

Fulfils_BeforePayment(o) ==
    /\ order[o].status \in {"PENDING", "SUCCEEDED"} /\ order[o].type = "PLAN"
    /\ subscription[o] = "NONE"
    /\ order' = [order EXCEPT ![o].fulfilled = order[o].status = "SUCCEEDED"]
    /\ subscription' = [subscription EXCEPT ![o] = "ACTIVE"]
    /\ IF order[o].credits > 0 THEN Credit("grant", o) ELSE UNCHANGED walletVars
    /\ UNCHANGED <<txn, revenue, refund>>

(* fulfill: under the order's row lock; the plan's credits are those of the  *)
(* order's snapshot.                                                         *)
Fulfils(o) ==
    /\ order[o].status = "SUCCEEDED" /\ order[o].type = "PLAN" /\ ~order[o].fulfilled
    /\ order' = [order EXCEPT ![o].fulfilled = TRUE]
    /\ subscription' = [subscription EXCEPT ![o] = "ACTIVE"]
    /\ IF order[o].credits > 0 THEN Credit("grant", o) ELSE UNCHANGED walletVars
    /\ UNCHANGED <<txn, revenue, refund>>

(* Whatever the fulfilment does, the request ends and the notification is    *)
(* answered.  It throws when the order is no longer SUCCEEDED, and on an     *)
(* error of the database.                                                    *)
Told(o) == channel' = [channel EXCEPT ![o].told = @ \/ channel[o].state = "paid"]

FulfilAfterPayment(r, o) ==
    /\ On(r, "fulfil", o)
    /\ Ends(r)
    /\ Told(o)
    /\ \/ Fulfils(o) /\ UNCHANGED faults
       \/ (order[o].fulfilled \/ order[o].status # "SUCCEEDED") /\ UNCHANGED <<walletVars, orderVars, faults>>
       \/ faults < MaxFaults /\ faults' = faults + 1 /\ UNCHANGED <<walletVars, orderVars>>

retryFulfillment(o) ==
    /\ Fulfils(o)
    /\ UNCHANGED <<channel, request, faults>>

-----------------------------------------------------------------------------
(* Closing an order that is not paid.                                        *)

CloseRead(r, o) ==
    /\ order[o].status = "PENDING"
    /\ Starts(r, "close", o)
    /\ UNCHANGED <<walletVars, orderVars, channel, faults>>

(* A refusal of the channel does not stop the close.                         *)
CloseAtChannel(r, o) ==
    /\ On(r, "close", o)
    /\ Goes(r, "closed")
    /\ \/ channel[o].state = "open" /\ channel' = [channel EXCEPT ![o].state = "closed"]
       \/ UNCHANGED channel
    /\ UNCHANGED <<walletVars, orderVars, faults>>

CloseWrite_OtherName(r, o) ==
    /\ On(r, "closed", o)
    /\ order' = [order EXCEPT ![o].status = "CLOSED"]
    /\ Ends(r)
    /\ UNCHANGED <<walletVars, txn, subscription, revenue, refund, channel, faults>>

(* The last statement of closePayment names the order alone.                 *)
CloseWrite(r, o) ==
    /\ On(r, "closed", o)
    /\ order' = [order EXCEPT ![o].status = "FAILED"]
    /\ Ends(r)
    /\ UNCHANGED <<walletVars, txn, subscription, revenue, refund, channel, faults>>

-----------------------------------------------------------------------------
(* Refunds an administrator made at the channel and records here.            *)

isFullRefund(o, cents) == cents = order[o].amount

(* floor(cents / amount * credits) in floating point: where the quotient is  *)
(* a whole number the product may fall just below it.                        *)
creditsToRevoke(o, cents) ==
    LET product == cents * order[o].credits
        exact == product \div order[o].amount
    IN  IF isFullRefund(o, cents) THEN {order[o].credits}
        ELSE {exact} \cup {c \in {exact - 1} : c >= 0 /\ product % order[o].amount = 0}

(* The checks before the transaction; what they read of the order can not    *)
(* change, what they read of the records can.                                *)
Recordable(o, no) ==
    /\ order[o].status = "SUCCEEDED"
    /\ refund[o] = NoRefund
    /\ \A p \in Orders : refund[p].no # no

RefundRead(r, o) ==
    /\ At(r, "idle")
    /\ \E no \in RefundNos, cents \in 1..order[o].amount :
          /\ Recordable(o, no)
          /\ request' = [request EXCEPT ![r] = [at |-> "refund", order |-> o, no |-> no, cents |-> cents]]
    /\ UNCHANGED <<walletVars, orderVars, channel, faults>>

(* refundCreditsInTx returns early when its key is in the ledger.            *)
Revoke(key, c) ==
    IF c = 0 \/ <<"refund", key>> \in KeysOf(ledger)
    THEN UNCHANGED walletVars
    ELSE RefundCreditsInTx(key, c)

RefundTx_TrustsTheRead(r, o) ==
    /\ On(r, "refund", o)
    /\ order[o].status = "SUCCEEDED"
    /\ Ends(r)
    /\ \E c \in creditsToRevoke(o, request[r].cents) :
          LET enough == wallet.balance >= c
          IN  /\ refund' = [refund EXCEPT ![o] =
                     [status |-> IF enough THEN "COMPLETED" ELSE "CREDITS_PENDING",
                      full |-> isFullRefund(o, request[r].cents), toRevoke |-> c,
                      revoked |-> IF enough THEN c ELSE 0, no |-> request[r].no]]
              /\ IF enough THEN Revoke(<<o, request[r].no>>, c) ELSE UNCHANGED walletVars
    /\ subscription' = [subscription EXCEPT ![o] =
           IF isFullRefund(o, request[r].cents) /\ @ = "ACTIVE" THEN "CANCELED" ELSE @]
    /\ UNCHANGED <<order, txn, revenue, channel, faults>>

(* The transaction checks again under the order's lock; without enough       *)
(* credits the record waits, nothing is revoked in part.  Only a full refund *)
(* cancels a subscription, the one this order has bought.                    *)
RefundTx(r, o) ==
    /\ On(r, "refund", o)
    /\ Recordable(o, request[r].no)
    /\ Ends(r)
    /\ \E c \in creditsToRevoke(o, request[r].cents) :
          LET enough == wallet.balance >= c
          IN  /\ refund' = [refund EXCEPT ![o] =
                     [status |-> IF enough THEN "COMPLETED" ELSE "CREDITS_PENDING",
                      full |-> isFullRefund(o, request[r].cents), toRevoke |-> c,
                      revoked |-> IF enough THEN c ELSE 0, no |-> request[r].no]]
              /\ IF enough THEN Revoke(<<o, request[r].no>>, c) ELSE UNCHANGED walletVars
    /\ subscription' = [subscription EXCEPT ![o] =
           IF isFullRefund(o, request[r].cents) /\ @ = "ACTIVE" THEN "CANCELED" ELSE @]
    /\ UNCHANGED <<order, txn, revenue, channel, faults>>

RefundRefused(r, o) ==
    /\ On(r, "refund", o)
    /\ ~Recordable(o, request[r].no)
    /\ Ends(r)
    /\ UNCHANGED <<walletVars, orderVars, channel, faults>>

(* The retry reads what is left to revoke, then locks the record.            *)
RetryRead(r, o) ==
    /\ At(r, "idle")
    /\ refund[o].status = "CREDITS_PENDING"
    /\ request' = [request EXCEPT ![r] =
           [at |-> "retry", order |-> o, left |-> refund[o].toRevoke - refund[o].revoked]]
    /\ UNCHANGED <<walletVars, orderVars, channel, faults>>

(* A key of its own for every retry: the id is the request's, not the record's. *)
RetryTx_NewKey(r, o) ==
    /\ On(r, "retry", o)
    /\ Ends(r)
    /\ wallet.balance >= request[r].left
    /\ refund[o].status # "NONE"
    /\ Revoke(<<o, "credits", r>>, request[r].left)
    /\ refund' = [refund EXCEPT ![o].status = "COMPLETED", ![o].revoked = refund[o].toRevoke]
    /\ UNCHANGED <<order, txn, subscription, revenue, channel, faults>>

RetryTx(r, o) ==
    /\ On(r, "retry", o)
    /\ Ends(r)
    /\ IF refund[o].status = "CREDITS_PENDING" /\ wallet.balance >= request[r].left
       THEN /\ Revoke(<<o, "credits">>, request[r].left)
            /\ refund' = [refund EXCEPT ![o].status = "COMPLETED", ![o].revoked = refund[o].toRevoke]
       ELSE UNCHANGED <<walletVars, refund>>
    /\ UNCHANGED <<order, txn, subscription, revenue, channel, faults>>

-----------------------------------------------------------------------------
(* The rest of the workspace spends credits and gives some back.             *)
Spend ==
    /\ \E j \in Jobs, c \in Credits : ReserveInTx(j, c) \/ ReleaseInTx(j, "release:fail")
    /\ UNCHANGED <<orderVars, channel, request, faults>>

(* A crash of the API, a lost answer of the channel, an error of the         *)
(* database: the request is gone, what it committed stays.                   *)
Dies(r) ==
    /\ ~At(r, "idle")
    /\ faults < MaxFaults
    /\ faults' = faults + 1
    /\ Ends(r)
    /\ UNCHANGED <<walletVars, orderVars, channel>>

(* The gateway took the order although the answer was lost.                  *)
AnswerLost(r, o) ==
    /\ On(r, "create", o)
    /\ faults < MaxFaults
    /\ faults' = faults + 1
    /\ Ends(r)
    /\ channel' = [channel EXCEPT ![o].state = "open"]
    /\ UNCHANGED <<walletVars, orderVars>>

Checkout(r, o) ==
    \/ createRecharge(r, o) \/ createPlanOrder(r, o)
    \/ ChannelAccepts(r, o) \/ AnswerLost(r, o) \/ WriteReference(r, o)
Settlement(r, o) ==
    \/ settleNotification(r, o) \/ simulateConfirm(r, o) \/ FulfilAfterPayment(r, o)
Closing(r, o) == CloseRead(r, o) \/ CloseAtChannel(r, o) \/ CloseWrite(r, o)
Refunding(r, o) ==
    \/ RefundRead(r, o) \/ RefundTx(r, o) \/ RefundRefused(r, o)
    \/ RetryRead(r, o) \/ RetryTx(r, o)

PaymentNext ==
    \/ \E r \in Requests, o \in Orders :
          Checkout(r, o) \/ Settlement(r, o) \/ Closing(r, o) \/ Refunding(r, o)
    \/ \E o \in Orders : Pay(o) \/ retryFulfillment(o)
    \/ \E r \in Requests : Dies(r)
    \/ Spend

PaymentSpec == PaymentInit /\ [][PaymentNext]_paymentVars

(* The channel repeats an unanswered notification for as long as it takes,   *)
(* an idle worker of the API takes it sooner or later, and a request that    *)
(* runs goes on.                                                             *)
Deliver(o) == ~channel[o].told /\ \E r \in Requests : settleNotification(r, o)
GoesOn(r, o) == FulfilAfterPayment(r, o) \/ WriteReference(r, o) \/ CloseWrite(r, o)
                \/ ChannelAccepts(r, o) \/ CloseAtChannel(r, o)
                \/ RefundTx(r, o) \/ RefundRefused(r, o) \/ RetryTx(r, o)
PaymentFairness ==
    /\ \A o \in Orders : SF_paymentVars(Deliver(o))
    /\ \A r \in Requests, o \in Orders : WF_paymentVars(GoesOn(r, o))

FairPaymentSpec == PaymentSpec /\ PaymentFairness

-----------------------------------------------------------------------------
(* Properties.                                                               *)

OrderRow ==
    [status : {"NONE", "PENDING", "SUCCEEDED", "FAILED"}, type : {"RECHARGE", "PLAN"},
     channel : Channels \cup {"none"}, amount : Nat, credits : Nat, fulfilled : BOOLEAN]
RefundRow ==
    [status : {"NONE", "COMPLETED", "CREDITS_PENDING"}, full : BOOLEAN,
     toRevoke : Nat, revoked : Nat, no : RefundNos \cup {"none"}]

(* The tables hold rows of their types.                                      *)
PaymentTypeOK ==
    /\ order \in [Orders -> OrderRow]
    /\ txn \in [Orders -> [status : {"NONE", "PENDING", "SUCCEEDED"},
                           ref : {"none", "placeholder", "sandbox", "trade"}]]
    /\ subscription \in [Orders -> {"NONE", "ACTIVE", "CANCELED"}]
    /\ revenue \in [Orders -> Nat]
    /\ refund \in [Orders -> RefundRow]
    /\ \A o \in Orders : channel[o].state \in {"none", "open", "paid", "closed"}
    /\ faults \in 0..MaxFaults

Granted(o) ==
    SumTo([i \in 1..Len(ledger) |->
             IF ledger[i].key \in {<<"recharge", o>>, <<"grant", o>>} THEN ledger[i].amount ELSE 0],
          Len(ledger))
RevokedKeys(o) == {<<"refund", <<o, no>>>> : no \in RefundNos \cup {"credits"}}
                  \cup {<<"refund", <<o, "credits", r>>>> : r \in Requests}
Revoked(o) ==
    SumTo([i \in 1..Len(ledger) |->
             IF ledger[i].key \in RevokedKeys(o) THEN -ledger[i].amount ELSE 0],
          Len(ledger))

(* An order's credits are in the ledger exactly when the order says so: a    *)
(* fulfilled order granted all of its credits once, any other order none,    *)
(* whatever notifications, confirmations, retries and closes race            *)
(* (payment.service.ts:480-556, subscription-fulfillment.service.ts:51-156). *)
GrantedIffFulfilled ==
    \A o \in Orders : Granted(o) = IF order[o].fulfilled THEN order[o].credits ELSE 0

(* What left the wallet for an order's refund is what its record says, over  *)
(* first try and retries with their different keys, it is all or nothing,    *)
(* and never more than the order's credits (orders.admin.service.ts:239-610).*)
RefundRecordIsLedger ==
    \A o \in Orders :
        /\ Revoked(o) = refund[o].revoked
        /\ refund[o].revoked <= order[o].credits
        /\ refund[o].status = "COMPLETED" => refund[o].revoked = refund[o].toRevoke
        /\ refund[o].status = "CREDITS_PENDING" => refund[o].revoked = 0

(* A refund number stands for one refund of the channel: it is recorded for  *)
(* one order only, and a record once made keeps what it says was refunded,   *)
(* whoever records a second one meanwhile (orders.admin.service.ts:305-367). *)
RefundIsRecordedOnce ==
    [][/\ \A o \in Orders : refund[o].status # "NONE" =>
              refund'[o].no = refund[o].no /\ refund'[o].toRevoke = refund[o].toRevoke
       /\ \A o, p \in Orders : refund'[o].no = refund'[p].no /\ refund'[o].no # "none" => o = p
      ]_paymentVars

(* Revenue is recognised exactly for the orders that were settled, even when *)
(* a close overwrites the status, and for a real channel it is the amount    *)
(* the customer paid, never an order underpaid, with the trade's number on   *)
(* the transaction, which reconciliation needs                               *)
(* (payment.service.ts:429-434, 498-554).                                    *)
RevenueIsSettlement ==
    \A o \in Orders :
        /\ revenue[o] # 0 <=> txn[o].status = "SUCCEEDED"
        /\ order[o].status = "SUCCEEDED" \/ order[o].fulfilled => revenue[o] # 0
        /\ revenue[o] # 0 /\ order[o].channel # "sandbox" =>
              txn[o].ref = "trade" /\ revenue[o] = channel[o].paid

(* A customer who paid in full is settled, unless the order was closed: lost *)
(* and repeated notifications, crashes and answers that got lost included.   *)
PaidInFull(o) ==
    channel[o].state = "paid" /\ order[o].channel # "sandbox" /\ channel[o].paid = order[o].amount
PaidIsSettled ==
    \A o \in Orders : PaidInFull(o) ~> (revenue[o] # 0 \/ order[o].status = "FAILED")

(* payment.service.ts:643, closePayment "closes orders that are not paid":   *)
(* an order that was paid stays so.                                          *)
PaidStaysPaid ==
    [][\A o \in Orders : order[o].status = "SUCCEEDED" => order'[o].status = "SUCCEEDED"]_paymentVars
=============================================================================
