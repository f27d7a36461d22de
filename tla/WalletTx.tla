------------------------------ MODULE WalletTx ------------------------------
(* The transactions of Wallet taken apart: row locks taken in the order the  *)
(* code takes them, reads under READ COMMITTED, and a commit that writes the *)
(* values computed from what was read.  Transactions of the API, the worker  *)
(* and the worker's failed handler run concurrently and may be rolled back   *)
(* at any point (lost connection, crash, deadlock victim).                   *)
(*                                                                           *)
(* Gateway calls run inside larger transactions that also update the job's   *)
(* row: the pipeline, API cancel and admin forceFail update the job first,   *)
(* the worker's failed handler releases first and updates the job last.      *)
EXTENDS Wallet

CONSTANTS
    Txs,                          \* database connections with a transaction each
    Calls                         \* the calls they may make, see Call

Free == "free"

Call ==
    [op : {"reserve"}, job : Jobs, credits : Credits]
        \cup [op : {"capture"}, job : Jobs, credits : Credits \cup {0}]
        \cup [op : {"release", "release in handler"}, job : Jobs, kind : ReleaseKinds]
        \cup [op : {"recharge", "refund"}, ref : Refs, credits : Amounts]
        \cup [op : {"adjust"}, ref : Refs, credits : Amounts \cup {-a : a \in Amounts}]

ASSUME TxAssumption ==
    /\ Free \notin Txs
    /\ Calls \subseteq Call

VARIABLES
    tx,                           \* what each transaction does and has seen
    lock                          \* row -> the transaction that locked it

txVars == <<walletVars, tx, lock>>

WalletLock == <<"wallet", NoJob>>
Locks == {WalletLock} \cup ({"reservation", "job"} \X Jobs)

Script_LookupBeforeLock(call) ==
    CASE call.op \in {"reserve", "recharge", "refund"} -> <<"lookup", "wallet", "commit">>
      [] call.op = "adjust" -> <<"wallet", "commit">>
      [] call.op \in {"capture", "release"} ->
            <<"job", "lookup", "reservation", "wallet", "commit">>
      [] call.op = "release in handler" ->
            <<"lookup", "reservation", "wallet", "job", "commit">>

Script_JobAfterRelease(call) ==
    CASE call.op \in {"reserve", "recharge", "refund"} -> <<"wallet", "lookup", "commit">>
      [] call.op = "adjust" -> <<"wallet", "commit">>
      [] call.op = "capture" -> <<"job", "reservation", "lookup", "wallet", "commit">>
      [] call.op \in {"release", "release in handler"} ->
            <<"reservation", "lookup", "wallet", "job", "commit">>

(* The statements of a call, in order.                                       *)
Script(call) ==
    CASE call.op \in {"reserve", "recharge", "refund"} -> <<"wallet", "lookup", "commit">>
      [] call.op = "adjust" -> <<"wallet", "commit">>
      [] call.op \in {"capture", "release"} ->
            <<"job", "reservation", "lookup", "wallet", "commit">>
      [] call.op = "release in handler" ->
            <<"reservation", "lookup", "wallet", "job", "commit">>

IsRelease(call) == call.op \in {"release", "release in handler"}

KeyOf(call) ==
    CASE call.op = "capture" -> <<"settle", call.job>>
      [] IsRelease(call) -> <<call.kind, call.job>>
      [] call.op = "reserve" -> <<"reserve", call.job>>
      [] OTHER -> <<call.op, call.ref>>

Idle == [todo |-> <<>>]
Running(t) == tx[t].todo # <<>>
At(t, statement) == Running(t) /\ Head(tx[t].todo) = statement

TxInit ==
    /\ WalletInit
    /\ tx = [t \in Txs |-> Idle]
    /\ lock = [l \in Locks |-> Free]

LocksWithout(t) == [l \in Locks |-> IF lock[l] = t THEN Free ELSE lock[l]]

(* Commit without a change, or rollback: the tables stay as they are.        *)
End(t) ==
    /\ tx' = [tx EXCEPT ![t] = Idle]
    /\ lock' = LocksWithout(t)
    /\ UNCHANGED walletVars

Begin(t, call) ==
    /\ ~Running(t)
    /\ tx' = [tx EXCEPT ![t] =
          [todo |-> Script(call), call |-> call, writes |-> TRUE,
           wallet |-> wallet, row |-> NoRow]]
    /\ UNCHANGED <<walletVars, lock>>

(* An early return of the gateway: nothing is written, the statements of the *)
(* enclosing transaction still follow.                                       *)
Enclosing(call) ==
    IF call.op = "release in handler" THEN <<"job", "commit">> ELSE <<"commit">>
ReturnEarly(t) ==
    tx' = [tx EXCEPT ![t] = [tx[t] EXCEPT !.todo = Enclosing(tx[t].call), !.writes = FALSE]]

(* Past its next statement, which may have read the wallet or a reservation. *)
Past(s) == [s EXCEPT !.todo = Tail(@)]
ReadWallet(s, w) == [Past(s) EXCEPT !.wallet = w]
ReadRow(s, row) == [Past(s) EXCEPT !.row = row]
Advance(t) == tx' = [tx EXCEPT ![t] = Past(tx[t])]

LockFor(t) ==
    IF At(t, "wallet") THEN WalletLock ELSE <<Head(tx[t].todo), tx[t].call.job>>

Wants(t) == Running(t) /\ Head(tx[t].todo) \in {"wallet", "reservation", "job"}
Waits(t, u) == Wants(t) /\ u # t /\ lock[LockFor(t)] = u
Grant(t) == lock[LockFor(t)] \in {Free, t} /\ lock' = [lock EXCEPT ![LockFor(t)] = t]

LockJob(t) ==
    /\ At(t, "job")
    /\ Grant(t)
    /\ Advance(t)
    /\ UNCHANGED walletVars

(* SELECT ... FOR UPDATE on the job's reservation; no row, nothing to lock.  *)
DoneStatus(call) == IF IsRelease(call) THEN "RELEASED" ELSE "CAPTURED"
OpenStatuses(call) == IF IsRelease(call) THEN {"RESERVED", "CAPTURED"} ELSE {"RESERVED"}

LockReservation(t) ==
    LET call == tx[t].call
        row == reservation[call.job]
    IN  /\ At(t, "reservation")
        /\ UNCHANGED walletVars
        /\ \/ row = NoRow /\ IsRelease(call) /\ ReturnEarly(t) /\ UNCHANGED lock
           \/ row.status = DoneStatus(call) /\ ReturnEarly(t) /\ Grant(t)
           \/ /\ row.status \in OpenStatuses(call)
              /\ Grant(t)
              /\ tx' = [tx EXCEPT ![t] = ReadRow(tx[t], row)]

(* captureInTx throws: no reservation and no ledger row, or a released one.  *)
CaptureThrows(t) ==
    LET row == reservation[tx[t].call.job]
    IN  /\ At(t, "reservation")
        /\ tx[t].call.op = "capture"
        /\ lock[LockFor(t)] \in {Free, t}
        /\ row.status \in {"NONE", "RELEASED"}
        /\ End(t)

LockWallet_ReadsOnly(t) ==
    /\ At(t, "wallet")
    /\ tx' = [tx EXCEPT ![t] = ReadWallet(tx[t], wallet)]
    /\ UNCHANGED <<walletVars, lock>>

(* SELECT ... FOR UPDATE on the wallet row.                                  *)
LockWallet(t) ==
    /\ At(t, "wallet")
    /\ Grant(t)
    /\ tx' = [tx EXCEPT ![t] = ReadWallet(tx[t], wallet)]
    /\ UNCHANGED walletVars

(* The idempotency check, after the lock: the reservation for a reserve, the *)
(* ledger for the others.                                                    *)
AlreadyDone(call) ==
    CASE call.op = "reserve" -> reservation[call.job] # NoRow
      [] call.op \in {"recharge", "refund"} -> KeyOf(call) \in KeysOf(ledger)
      [] OTHER -> hasLedger(ledger, KeyOf(call), call.job)

Lookup(t) ==
    /\ At(t, "lookup")
    /\ IF AlreadyDone(tx[t].call) THEN ReturnEarly(t) ELSE Advance(t)
    /\ UNCHANGED <<walletVars, lock>>

-----------------------------------------------------------------------------
(* What a commit writes, computed from the rows the transaction has read.    *)

Delta(call) == IF call.op = "refund" THEN -call.credits ELSE call.credits

NewRow(s) ==
    CASE s.call.op = "reserve" ->
            [status |-> "RESERVED", reserved |-> s.call.credits, captured |-> 0, released |-> 0]
      [] s.call.op = "capture" -> computeCapture(s.row, s.call.credits).row
      [] OTHER -> computeReleaseForJob(s.row).row

NewWallet(s) ==
    CASE s.call.op = "reserve" -> computeReserve(s.wallet, s.call.credits)
      [] s.call.op = "capture" ->
            LET c == computeCapture(s.row, s.call.credits)
            IN  unreserve(s.wallet, c.remaining, c.release)
      [] IsRelease(s.call) ->
            LET c == computeReleaseForJob(s.row)
            IN  unreserve(s.wallet, c.release, c.release)
      [] OTHER -> [s.wallet EXCEPT !.balance = @ + Delta(s.call)]

NewRows(s) ==
    LET after == NewWallet(s)
    IN  CASE s.call.op = "reserve" ->
                <<Row("GENERATION_RESERVE", s.call.job, KeyOf(s.call), -s.call.credits,
                      s.wallet, after)>>
          [] s.call.op = "capture" ->
                CaptureRows(s.call.job, s.wallet, after,
                            computeCapture(s.row, s.call.credits).release)
          [] IsRelease(s.call) ->
                <<Row("GENERATION_RELEASE", s.call.job, KeyOf(s.call), Residual(s.row),
                      s.wallet, after)>>
          [] OTHER ->
                <<Row(CASE s.call.op = "recharge" -> "RECHARGE"
                        [] s.call.op = "refund" -> "REFUND"
                        [] s.call.op = "adjust" -> "ADMIN_ADJUSTMENT",
                      NoJob, KeyOf(s.call), Delta(s.call), s.wallet, after)>>

(* A release that finds nothing left writes the status alone.                *)
StatusOnly(s) == IsRelease(s.call) /\ Residual(s.row) = 0

(* The gateway's own refusal: not enough balance.                            *)
Refused(s) == NewWallet(s).balance < 0

Commit(t) ==
    LET s == tx[t]
        log == ledger \o NewRows(s)
    IN  /\ At(t, "commit") /\ s.writes
        /\ tx' = [tx EXCEPT ![t] = Idle]
        /\ lock' = LocksWithout(t)
        /\ reservation' = IF "job" \in DOMAIN s.call
                          THEN [reservation EXCEPT ![s.call.job] = NewRow(s)]
                          ELSE reservation
        /\ IF StatusOnly(s)
           THEN UNCHANGED <<wallet, ledger>>
           ELSE ~Refused(s) /\ Write(NewWallet(s), log)

CommitNothing(t) ==
    /\ At(t, "commit")
    /\ ~tx[t].writes
    /\ End(t)

(* A throw, a constraint, a lost connection, a crash, or the victim of the   *)
(* deadlock detector: rolled back.                                           *)
Rollback(t) == Running(t) /\ End(t)

Step(t) ==
    \/ LockJob(t) \/ LockReservation(t) \/ CaptureThrows(t) \/ LockWallet(t)
    \/ Lookup(t) \/ Commit(t) \/ CommitNothing(t)

TxNext ==
    \E t \in Txs :
        \/ \E call \in Calls : Begin(t, call)
        \/ Step(t)
        \/ Rollback(t)

TxSpec == TxInit /\ [][TxNext]_txVars

-----------------------------------------------------------------------------
(* Properties.                                                               *)

TxState ==
    [todo : Seq({"job", "reservation", "lookup", "wallet", "commit"}), call : Call,
     writes : BOOLEAN, wallet : Image, row : ReservationRow]

(* Locks are held by running transactions, and each sees rows of their types. *)
TxTypeOK ==
    /\ WalletTypeOK
    /\ \A t \in Txs : tx[t] = Idle \/ tx[t] \in TxState
    /\ lock \in [Locks -> Txs \cup {Free}]
    /\ \A l \in Locks : lock[l] # Free => Running(lock[l])

(* Whatever the interleaving, the three tables change as if every call ran   *)
(* alone: no lost update, no double effect of two calls with one key         *)
(* (wallet.ts:119-133, 483-499, 546-576).  The specification of Wallet is    *)
(* the property.                                                             *)
TransactionsAreAtomic == WalletSpec

(* A commit is never refused by a constraint that the locked reads did not   *)
(* foresee: an idempotent call that repeats another returns early, it does   *)
(* not run into the UNIQUE index.  adjustBalance, which looks up nothing, is *)
(* the exception (wallet.ts:119-122, 548-551).                               *)
RepeatsReturnEarly ==
    \A t \in Txs :
        At(t, "commit") /\ tx[t].writes /\ tx[t].call.op # "adjust" /\ ~Refused(tx[t])
            /\ ~StatusOnly(tx[t])
        => Commits(NewWallet(tx[t]), ledger \o NewRows(tx[t]))

(* Transactions that all wait for each other, two or more of them: one is    *)
(* the worker's failed handler, which alone locks the job's row last         *)
(* (main.ts:200-231 against pipeline.ts, cancel and forceFail, which lock it *)
(* first).  Whatever ends a job without the handler never deadlocks.         *)
WaitForEachOther(S) == S # {} /\ \A t \in S : \E u \in S : Waits(t, u)
DeadlocksAreOfHandler ==
    \A S \in SUBSET Txs :
        WaitForEachOther(S) => \E t \in S : tx[t].call.op = "release in handler"
=============================================================================
