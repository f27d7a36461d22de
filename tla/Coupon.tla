-------------------------------- MODULE Coupon -------------------------------
(* Orders with a coupon: CouponService.apply inside the transaction in which *)
(* createRecharge and createPlanOrder insert the order.                      *)
(*                                                                           *)
(* One coupon.  A checkout is an order with a new id; what its user asks for *)
(* may be refused for reasons of the coupon or the amount.  A limit of 0 is  *)
(* none.  "nobody" is no checkout.                                           *)
EXTENDS Naturals, FiniteSets

CONSTANTS Checkouts, UserOf, maxRedemptions, perUserLimit

VARIABLES
    orders,         \* committed orders
    redemptions,    \* committed coupon_redemptions, as the orders they are for
    checkout,       \* what each checkout is doing, and the answer at its end
    couponLock      \* the row lock of the coupon

couponVars == <<orders, redemptions, checkout, couponLock>>

CouponInit ==
    /\ orders = {} /\ redemptions = {}
    /\ checkout = [o \in Checkouts |-> "start"]
    /\ couponLock = "nobody"

Continues(o, at) == checkout' = [checkout EXCEPT ![o] = at]
Answers(o, answer) ==
    /\ Continues(o, answer)
    /\ couponLock' = IF couponLock = o THEN "nobody" ELSE couponLock

(* SELECT ... FOR UPDATE, and what the row says: it may not exist, not be    *)
(* enabled or current, or be of another currency.                            *)
LockCoupon(o) ==
    /\ checkout[o] = "start" /\ couponLock = "nobody"
    /\ \/ couponLock' = o /\ Continues(o, "count")
       \/ Continues(o, "refused") /\ UNCHANGED couponLock
    /\ UNCHANGED <<orders, redemptions>>

Below(limit, used) == limit = 0 \/ Cardinality(used) < limit

(* The limits, and the amount that is left to pay.                           *)
CountRedemptions(o) ==
    /\ checkout[o] = "count"
    /\ \/ /\ Below(maxRedemptions, redemptions)
          /\ Below(perUserLimit, {r \in redemptions : UserOf[r] = UserOf[o]})
          /\ Continues(o, "redeem") /\ UNCHANGED couponLock
       \/ Answers(o, "refused")
    /\ UNCHANGED <<orders, redemptions>>

(* The redemption refers to the order (order_id REFERENCES orders, checked   *)
(* at the end of the statement) and is the only one of it; any error is      *)
(* answered with "already redeemed".                                         *)
InsertRedemption(o) ==
    /\ checkout[o] = "redeem"
    /\ IF o \in orders /\ o \notin redemptions
       THEN redemptions' = redemptions \cup {o} /\ Continues(o, "order") /\ UNCHANGED couponLock
       ELSE Answers(o, "already redeemed") /\ UNCHANGED redemptions
    /\ UNCHANGED orders

(* Then the order, with the frozen snapshot, and the commit.                 *)
InsertOrder(o) ==
    /\ checkout[o] = "order"
    /\ orders' = orders \cup {o}
    /\ Answers(o, "created")
    /\ UNCHANGED redemptions

CouponNext ==
    \E o \in Checkouts :
        LockCoupon(o) \/ CountRedemptions(o) \/ InsertRedemption(o) \/ InsertOrder(o)

CouponSpec == CouponInit /\ [][CouponNext]_couponVars

-----------------------------------------------------------------------------
(* coupon.ts:122-133: what catches a repeated redemption is the unique index *)
(* on the order, so an order that is refused as already redeemed has been    *)
(* redeemed.                                                                 *)
AlreadyRedeemedIsTrue ==
    \A o \in Checkouts : checkout[o] = "already redeemed" => o \in redemptions
=============================================================================
