--------------------------- MODULE CreditAccount ----------------------------
(* What the credit system promises a workspace, with no rows, keys, retries  *)
(* or locks: funds enter and leave the account; a job may place one hold on  *)
(* available funds; a hold is closed once, and closing it splits the held    *)
(* amount between what the user pays and what comes back.  Wallet.tla (the   *)
(* transactions of packages/billing/src/wallet.ts) implements this module.   *)
EXTENDS Integers, Sums

CONSTANT NumJobs                  \* generation jobs of one workspace: 1..NumJobs

VARIABLES
    funded,                       \* net amount paid in so far
    available,                    \* what a new job may use
    hold                          \* job -> [state, amount, paid]

accountVars == <<funded, available, hold>>

AccountJobs == 1..NumJobs
NoHold == [state |-> "none", amount |-> 0, paid |-> 0]

AccountInit ==
    /\ funded \in Nat
    /\ available = funded
    /\ hold = [j \in AccountJobs |-> NoHold]

(* Recharge, grant, refund revocation, administrative adjustment.            *)
Fund ==
    /\ funded' \in Int
    /\ funded' # funded
    /\ available' = available + (funded' - funded)
    /\ available' >= 0
    /\ UNCHANGED hold

Hold(j) ==
    /\ hold[j].state = "none"
    /\ available' \in 0..(available - 1)
    /\ hold' = [hold EXCEPT ![j] =
                  [state |-> "held", amount |-> available - available', paid |-> 0]]
    /\ UNCHANGED funded

(* The only way out of "held": pay some of it, get the rest back.            *)
Close(j) ==
    /\ hold[j].state = "held"
    /\ available' \in available..(available + hold[j].amount)
    /\ hold' = [hold EXCEPT ![j] =
                  [state |-> "closed", amount |-> hold[j].amount,
                   paid |-> available + hold[j].amount - available']]
    /\ UNCHANGED funded

AccountNext == Fund \/ \E j \in AccountJobs : Hold(j) \/ Close(j)

AccountSpec == AccountInit /\ [][AccountNext]_accountVars
=============================================================================
