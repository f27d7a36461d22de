----------------------------- MODULE MCPayment -----------------------------
(* TLC instance of Payment: two orders, of which one is a plan.              *)
EXTENDS Payment, TLC

CONSTANTS o1, o2

MCOffers == o1 :> {"PLAN", "RECHARGE"} \X {"wechat"} @@ o2 :> {<<"RECHARGE", "sandbox">>}
MCRefs == {o1, o2} \cup ({o1, o2} \X {"n1", "credits"})
=============================================================================
