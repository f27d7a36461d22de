------------------------------- MODULE Wallet -------------------------------
(* The credit wallet of one workspace: the wallets row, the per-job          *)
(* credit_reservations rows and the wallet_ledger rows, and the transactions *)
(* of WalletGateway (packages/billing/src/wallet.ts) that change them.       *)
(*                                                                           *)
(* Each transaction is one step here; WalletTx.tla takes the same            *)
(* transactions apart into row locks, reads and a commit and shows that they *)
(* behave like these steps.  A call that returns early or throws leaves the  *)
(* three tables as they were, so it is no step.                              *)
EXTENDS Integers, Sequences, FiniteSets, Sums

CONSTANTS
    NumJobs,                      \* generation jobs of the workspace: 1..NumJobs
    Credits,                      \* what a job may cost
    Amounts,                      \* what a recharge, refund or adjustment may name
    Welcome,                      \* balance a new account starts with
    Refs                          \* orders, admin requests and refund records

ASSUME WalletAssumption ==
    /\ NumJobs \in Nat
    /\ Credits \subseteq Nat \ {0}
    /\ Amounts \subseteq Nat \ {0}
    /\ Welcome \in Nat

VARIABLES
    wallet,                       \* [balance, reserved]
    reservation,                  \* job -> its row, NoRow before it is inserted
    ledger                        \* the rows in the order they were committed

walletVars == <<wallet, reservation, ledger>>

Jobs == 1..NumJobs

(* idempotencyKey: the purpose a caller writes in front of the id it is for. *)
JobKeyKinds == {"reserve", "settle", "settle:release",
                "release:cancel", "release:fail", "release:admin"}
ReleaseKinds == {"release:cancel", "release:fail", "release:admin"}
RefKeyKinds == {"recharge", "grant", "refund", "adjust", "reconcile"}
NoJob == 0

NoRow == [status |-> "NONE", reserved |-> 0, captured |-> 0, released |-> 0]

(* What one reservation still holds of wallets.reserved_balance.             *)
Residual(r) == r.reserved - r.captured - r.released

Residuals(res) == [j \in Jobs |-> Residual(res[j])]
Min2(a, b) == IF a <= b THEN a ELSE b

-----------------------------------------------------------------------------
(* The pure calculations.                                                    *)

computeReserve(w, c) ==
    [balance |-> w.balance - c, reserved |-> w.reserved + c]

(* Variants of definitions, named X_<what is wrong>, are the mistakes the    *)
(* properties must catch; nothing else uses them.                            *)
computeCapture_Uncapped(r, actual) ==
    LET left == Residual(r)
    IN  [row |-> [status |-> "CAPTURED", reserved |-> r.reserved,
                  captured |-> r.captured + actual,
                  released |-> r.released + (left - actual)],
         remaining |-> left,
         release |-> left - actual]

computeCapture_KeepsTheRest(r, actual) ==
    LET left == Residual(r)
        take == Min2(actual, left)
    IN  [row |-> [status |-> "CAPTURED", reserved |-> r.reserved,
                  captured |-> r.captured + take, released |-> r.released],
         remaining |-> left,
         release |-> left - take]

computeCapture_GivesAllBack(r, actual) ==
    LET left == Residual(r)
        take == Min2(actual, left)
    IN  [row |-> [status |-> "CAPTURED", reserved |-> r.reserved,
                  captured |-> r.captured + take,
                  released |-> r.released + (left - take)],
         remaining |-> left,
         release |-> left]

computeCapture(r, actual) ==
    LET left == Residual(r)
        take == Min2(actual, left)
    IN  [row |-> [status |-> "CAPTURED", reserved |-> r.reserved,
                  captured |-> r.captured + take,
                  released |-> r.released + (left - take)],
         remaining |-> left,
         release |-> left - take]

computeReleaseForJob_IgnoresCapture(r) ==
    LET left == r.reserved - r.released
    IN  [row |-> [status |-> "RELEASED", reserved |-> r.reserved,
                  captured |-> r.captured, released |-> r.released + left],
         release |-> left]

computeReleaseForJob(r) ==
    [row |-> [status |-> "RELEASED", reserved |-> r.reserved,
              captured |-> r.captured, released |-> r.released + Residual(r)],
     release |-> Residual(r)]

unreserve_WholePool(w, taken, back) ==
    [balance |-> w.balance + back, reserved |-> 0]

(* Leave the reserved pool with `taken`, return `back` of it to the balance. *)
unreserve(w, taken, back) ==
    [balance |-> w.balance + back, reserved |-> w.reserved - taken]

-----------------------------------------------------------------------------
(* The ledger.                                                               *)

Row_Swapped(type, job, key, amount, before, after) ==
    [type |-> type, job |-> job, key |-> key, amount |-> amount,
     before |-> after, after |-> before]

Row(type, job, key, amount, before, after) ==
    [type |-> type, job |-> job, key |-> key, amount |-> amount,
     before |-> before, after |-> after]

KeysOf(log) == {log[i].key : i \in DOMAIN log}

hasLedger(log, key, j) ==
    \E i \in DOMAIN log : log[i].key = key /\ log[i].job = j

(* The CHECK constraints of drizzle/0005 on wallets and the UNIQUE index on  *)
(* wallet_ledger.idempotency_key: a statement that breaks one aborts the     *)
(* transaction.                                                              *)
Commits(w, log) ==
    /\ w.balance >= 0 /\ w.reserved >= 0
    /\ \A i, k \in DOMAIN log : log[i].key = log[k].key => i = k

Write(w, log) ==
    /\ Commits(w, log)
    /\ wallet' = w
    /\ ledger' = log

-----------------------------------------------------------------------------
(* Registration inserts the wallet, and a WELCOME row when there is a gift.  *)

WelcomeLedger ==
    IF Welcome = 0 THEN <<>>
    ELSE << Row("WELCOME", NoJob, <<"welcome", NoJob>>, Welcome,
                [balance |-> 0, reserved |-> 0],
                [balance |-> Welcome, reserved |-> 0]) >>

WalletInit ==
    /\ wallet = [balance |-> Welcome, reserved |-> 0]
    /\ reservation = [j \in Jobs |-> NoRow]
    /\ ledger = WelcomeLedger

(* Returns early when the job has a reservation, throws when balance < c.    *)
ReserveInTx(j, c) ==
    LET w == computeReserve(wallet, c)
    IN  /\ reservation[j] = NoRow
        /\ wallet.balance >= c
        /\ Write(w, Append(ledger,
               Row("GENERATION_RESERVE", j, <<"reserve", j>>, -c, wallet, w)))
        /\ reservation' = [reservation EXCEPT ![j] =
               [status |-> "RESERVED", reserved |-> c, captured |-> 0, released |-> 0]]

CaptureRows_SettleOnly(j, before, after, back) ==
    <<Row("GENERATION_SETTLE", j, <<"settle", j>>, 0, before, after)>>

(* The rows a capture writes: SETTLE always, RELEASE when something is left  *)
(* over; both carry the same before and after image.                         *)
CaptureRows(j, before, after, back) ==
    <<Row("GENERATION_SETTLE", j, <<"settle", j>>, 0, before, after)>>
    \o (IF back = 0 THEN <<>>
        ELSE <<Row("GENERATION_RELEASE", j, <<"settle:release", j>>, back, before, after)>>)

(* Throws without a reservation and on a RELEASED one, returns early on a    *)
(* CAPTURED one and when the key is already in the ledger.                   *)
CaptureInTx(j, actual) ==
    LET c == computeCapture(reservation[j], actual)
        w == unreserve(wallet, c.remaining, c.release)
    IN  /\ reservation[j].status = "RESERVED"
        /\ ~hasLedger(ledger, <<"settle", j>>, j)
        /\ Write(w, ledger \o CaptureRows(j, wallet, w, c.release))
        /\ reservation' = [reservation EXCEPT ![j] = c.row]

(* Returns early without a reservation, on a RELEASED one, and when the key  *)
(* is already in the ledger.  A CAPTURED reservation is not refused: it has  *)
(* nothing left, and its status alone becomes RELEASED.                      *)
ReleaseInTx(j, kind) ==
    LET c == computeReleaseForJob(reservation[j])
        w == unreserve(wallet, c.release, c.release)
    IN  /\ reservation[j].status \in {"RESERVED", "CAPTURED"}
        /\ ~hasLedger(ledger, <<kind, j>>, j)
        /\ reservation' = [reservation EXCEPT ![j] = c.row]
        /\ IF c.release = 0
           THEN UNCHANGED <<wallet, ledger>>
           ELSE Write(w, Append(ledger,
                    Row("GENERATION_RELEASE", j, <<kind, j>>, c.release, wallet, w)))

(* A change of the balance alone.                                            *)
Move(type, key, amount) ==
    LET w == [wallet EXCEPT !.balance = @ + amount]
    IN  /\ Write(w, Append(ledger, Row(type, NoJob, key, amount, wallet, w)))
        /\ UNCHANGED reservation

(* Returns early when the key is in the ledger (the UNIQUE index would abort *)
(* otherwise; here the two look alike).  Recharge by payment or by plan.     *)
RechargeInTx(kind, ref, c) ==
    Move("RECHARGE", <<kind, ref>>, c)

(* Throws NEGATIVE_BALANCE when the balance cannot carry it.                 *)
RefundCreditsInTx(ref, c) ==
    /\ wallet.balance - c >= 0
    /\ Move("REFUND", <<"refund", ref>>, -c)

(* delta of either sign; the key is not looked up first, a repeat aborts.    *)
AdjustBalanceInTx(ref, delta) ==
    /\ delta # 0
    /\ wallet.balance + delta >= 0
    /\ Move("ADMIN_ADJUSTMENT", <<"adjust", ref>>, delta)

(* Explicit repair of a drifted reserved_balance, with its audit row.        *)
RepairReservationInvariant(ref) ==
    LET expected == SumTo(Residuals(reservation), NumJobs)
        w == [wallet EXCEPT !.reserved = expected]
    IN  /\ wallet.reserved # expected
        /\ Write(w, Append(ledger,
               Row("ADMIN_ADJUSTMENT", NoJob, <<"reconcile", ref>>, 0, wallet, w)))
        /\ UNCHANGED reservation

WalletNext ==
    \/ \E j \in Jobs, c \in Credits : ReserveInTx(j, c)
    \/ \E j \in Jobs, c \in Credits \cup {0} : CaptureInTx(j, c)
    \/ \E j \in Jobs, k \in ReleaseKinds : ReleaseInTx(j, k)
    \/ \E k \in {"recharge", "grant"}, r \in Refs, c \in Amounts : RechargeInTx(k, r, c)
    \/ \E r \in Refs, c \in Amounts : RefundCreditsInTx(r, c)
    \/ \E r \in Refs, c \in Amounts : AdjustBalanceInTx(r, c) \/ AdjustBalanceInTx(r, -c)
    \/ \E r \in Refs : RepairReservationInvariant(r)

WalletSpec == WalletInit /\ [][WalletNext]_walletVars

-----------------------------------------------------------------------------
(* Properties.                                                               *)

ReservationRow ==
    [status : {"NONE", "RESERVED", "CAPTURED", "RELEASED"},
     reserved : Nat, captured : Nat, released : Nat]

Image == [balance : Int, reserved : Int]

Key == (JobKeyKinds \X Jobs) \cup (RefKeyKinds \X Refs) \cup {<<"welcome", NoJob>>}

LedgerRow ==
    [type : {"WELCOME", "GENERATION_RESERVE", "GENERATION_SETTLE",
             "GENERATION_RELEASE", "RECHARGE", "REFUND", "ADMIN_ADJUSTMENT"},
     job : Jobs \cup {NoJob}, key : Key, amount : Int,
     before : Image, after : Image]

(* The three tables hold rows of their types.                                *)
WalletTypeOK ==
    /\ wallet \in Image
    /\ reservation \in [Jobs -> ReservationRow]
    /\ ledger \in Seq(LedgerRow)

Drift == wallet.reserved - SumTo(Residuals(reservation), NumJobs)

(* "Invariant B": reserved_balance is what the reservations still hold, so   *)
(* one job's settlement never takes another job's credits (wallet.ts:625).   *)
ReservedIsResiduals == Drift = 0

RowAmounts(log) == [i \in 1..Len(log) |-> log[i].amount]
JobAmounts(log, j) == [i \in 1..Len(log) |-> IF log[i].job = j THEN log[i].amount ELSE 0]

(* The balance is exactly what the ledger's amounts add up to: no call moves *)
(* credits without a row, and no retry moves them twice (wallet.ts:162-175,  *)
(* 272-300, 379-390).                                                        *)
BalanceIsLedgerSum == wallet.balance = SumTo(RowAmounts(ledger), Len(ledger))

(* Over all its rows a job has cost what it captured plus what it still      *)
(* holds: a job is never charged twice, nor credited for more than it held,  *)
(* in whatever order captures and releases reach it (wallet.ts:201-391).     *)
JobPaysWhatItCaptured ==
    \A j \in Jobs :
        SumTo(JobAmounts(ledger, j), Len(ledger))
            = -(reservation[j].captured + Residual(reservation[j]))

(* Credits held for a job can always be given back: no release key has been  *)
(* used up while the reservation is open (the call would return early and    *)
(* strand them), and no CHECK constraint would abort it (wallet.ts:321-391). *)
HeldCreditsCanBeReleased ==
    \A j \in Jobs : reservation[j].status = "RESERVED" =>
        /\ \A k \in ReleaseKinds : ~hasLedger(ledger, <<k, j>>, j)
        /\ Residual(reservation[j]) > 0
        /\ Residual(reservation[j]) <= wallet.reserved

(* A settled or released reservation holds nothing (captured + released =    *)
(* reserved), so whichever call comes second finds nothing to take.          *)
ClosedHoldsNothing ==
    \A j \in Jobs :
        reservation[j].status \in {"CAPTURED", "RELEASED"} => Residual(reservation[j]) = 0

SameChange(a, b) == a.before = b.before /\ a.after = b.after

(* The ledger can be replayed: every row starts from the image the previous  *)
(* row left, or is the RELEASE companion of the SETTLE row it follows and    *)
(* repeats its images; the last row leaves the wallet as it is.              *)
LedgerReplays ==
    /\ \A i \in 2..Len(ledger) :
          \/ ledger[i].before = ledger[i-1].after
          \/ SameChange(ledger[i], ledger[i-1]) /\ ledger[i-1].type = "GENERATION_SETTLE"
    /\ ledger # <<>> => ledger[Len(ledger)].after = wallet

(* Once a reservation is closed, what was captured and what was returned     *)
(* never change again, whatever retries arrive (wallet.ts:226-236, 338-341). *)
ClosedAmountsAreFinal ==
    [][\A j \in Jobs :
          reservation[j].status \in {"CAPTURED", "RELEASED"} =>
              /\ reservation'[j].captured = reservation[j].captured
              /\ reservation'[j].released = reservation[j].released]_walletVars

-----------------------------------------------------------------------------
(* The promise.  Paid in is what the ledger rows of no job add up to.        *)

HoldOf(r) ==
    [state |-> CASE r.status = "NONE" -> "none"
                 [] r.status = "RESERVED" -> "held"
                 [] OTHER -> "closed",
     amount |-> r.reserved,
     paid |-> r.captured]

Account == INSTANCE CreditAccount WITH
    funded <- SumTo(JobAmounts(ledger, NoJob), Len(ledger)),
    available <- wallet.balance,
    hold <- [j \in Jobs |-> HoldOf(reservation[j])]

(* Every transaction is a step of CreditAccount or changes nothing it sees.  *)
ImplementsAccount == Account!AccountSpec
=============================================================================
