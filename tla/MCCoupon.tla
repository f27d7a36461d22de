------------------------------ MODULE MCCoupon -------------------------------
(* Two checkouts of one user and one of another.                             *)
EXTENDS Coupon, TLC

MCUserOf == "o1" :> "u1" @@ "o2" :> "u1" @@ "o3" :> "u2"
=============================================================================
