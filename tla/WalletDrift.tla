----------------------------- MODULE WalletDrift -----------------------------
(* A wallet an earlier version left behind.  Its release set                 *)
(* reserved_balance to zero instead of taking one job's remainder            *)
(* (wallet.ts:309): job 1 still holds a credit the wallet row no longer      *)
(* counts, and the calls of today start from there.                          *)
EXTENDS Wallet

LegacyImage(b, r) == [balance |-> b, reserved |-> r]

LegacyInit ==
    /\ wallet = LegacyImage(3, 0)
    /\ reservation = [j \in Jobs |->
          CASE j = 1 -> [status |-> "RESERVED", reserved |-> 1, captured |-> 0, released |-> 0]
            [] j = 2 -> [status |-> "RELEASED", reserved |-> 1, captured |-> 0, released |-> 1]
            [] OTHER -> NoRow]
    /\ ledger = <<
          Row("WELCOME", NoJob, <<"welcome", NoJob>>, 4, LegacyImage(0, 0), LegacyImage(4, 0)),
          Row("GENERATION_RESERVE", 1, <<"reserve", 1>>, -1, LegacyImage(4, 0), LegacyImage(3, 1)),
          Row("GENERATION_RESERVE", 2, <<"reserve", 2>>, -1, LegacyImage(3, 1), LegacyImage(2, 2)),
          Row("GENERATION_RELEASE", 2, <<"release:fail", 2>>, 1, LegacyImage(2, 2), LegacyImage(3, 0))>>

(* A wallet that drifted under an earlier version is not made worse: only    *)
(* the explicit repair changes the drift, and it removes all of it, leaving  *)
(* the balance alone (wallet.ts:667-713).                                    *)
OnlyRepairChangesDrift ==
    [][Drift' # Drift => Drift' = 0 /\ wallet'.balance = wallet.balance]_walletVars
=============================================================================
