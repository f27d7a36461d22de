----------------------------- MODULE MCWalletTx -----------------------------
(* TLC instances of WalletTx.                                                *)
EXTENDS WalletTx

OnJob(op, j, c) == [op |-> op, job |-> j, credits |-> c]
Release(op, j, kind) == [op |-> op, job |-> j, kind |-> kind]
OnRef(op, r, c) == [op |-> op, ref |-> r, credits |-> c]

(* Everything that can happen to one job: it costs as much as was reserved,  *)
(* less, or more; its cancellation meets the failed handler (their lock      *)
(* orders differ), and the balance moves under both.                         *)
OneJobCalls ==
    {OnJob("reserve", 1, 2), OnJob("capture", 1, 1), OnJob("reserve", 1, 1), OnJob("capture", 1, 2),
     Release("release", 1, "release:cancel"),
     Release("release in handler", 1, "release:fail")}
        \cup {OnRef(op, r, 1) : op \in {"recharge", "refund"}, r \in Refs}
=============================================================================
