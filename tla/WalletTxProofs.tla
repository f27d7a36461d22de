--------------------------- MODULE WalletTxProofs ---------------------------
(* Theorems about WalletTx, for any number of connections, calls and jobs:   *)
(* the row locks of the gateway make its transactions atomic.                *)
EXTENDS WalletTx, WalletProofs

-----------------------------------------------------------------------------
(* Which keys the ledger holds.                                              *)

(* A key of a job is in the ledger only when its reservation is that far.    *)
KeysUsed ==
    \A x \in Jobs, k \in JobKeyKinds :
        hasLedger(ledger, <<k, x>>, x) =>
            IF k = "reserve" THEN reservation[x].status # "NONE"
                             ELSE reservation[x].status \in Closed

RowsOwned == \A i \in DOMAIN ledger : Owned(ledger[i])

KeysOK == Commits(wallet, ledger) /\ RowsOwned /\ KeysUsed

LEMMA KeysUsedNext ==
    TypeInv /\ KeysUsed /\ [WalletNext]_walletVars => KeysUsed'
<1>1. SUFFICES ASSUME TypeInv, KeysUsed, [WalletNext]_walletVars,
                      NEW x \in Jobs, NEW k \in JobKeyKinds,
                      hasLedger(ledger', <<k, x>>, x)
               PROVE  IF k = "reserve" THEN reservation'[x].status # "NONE"
                                       ELSE reservation'[x].status \in Closed
  BY DEF KeysUsed, hasLedger
<1>2. hasLedger(ledger, <<k, x>>, x) =>
          IF k = "reserve" THEN reservation[x].status # "NONE"
                           ELSE reservation[x].status \in Closed
  BY <1>1 DEF KeysUsed
<1>3. reservation \in [Jobs -> ReservationRow] /\ x # NoJob
  BY <1>1 DEF TypeInv, WalletTypeOK, Jobs, NoJob
<1>4. CASE UNCHANGED walletVars
  BY <1>1, <1>2, <1>4 DEF walletVars
<1>5. ASSUME NEW amount \in Int, FundsStep(amount)
      PROVE  IF k = "reserve" THEN reservation'[x].status # "NONE"
                              ELSE reservation'[x].status \in Closed
  BY <1>1, <1>2, <1>5 DEF FundsStep, Books
<1>6. ASSUME NEW j \in Jobs, NEW row \in ReservationRow, NEW amount \in Int,
             ReservationStep(j, row, amount)
      PROVE  IF k = "reserve" THEN reservation'[x].status # "NONE"
                              ELSE reservation'[x].status \in Closed
  <2>1. reservation' = [reservation EXCEPT ![j] = row]
    BY <1>6 DEF ReservationStep
  <2>2. CASE x # j
    <3>1. hasLedger(ledger, <<k, x>>, x)
      BY <1>1, <1>6, <2>2 DEF ReservationStep, Books
    <3> QED
      BY <1>2, <1>3, <2>1, <2>2, <3>1
  <2>3. CASE x = j
    <3>1. reservation'[x] = row
      BY <1>3, <2>1, <2>3
    <3>2. CASE Opens(reservation[j], row, amount) /\ Books(ledger, ledger', j, amount, {"reserve"})
      <4>1. hasLedger(ledger, <<k, x>>, x) \/ k = "reserve"
        BY <1>1, <3>2 DEF Books
      <4>2. reservation[x].status = "NONE" /\ row.status = "RESERVED"
        BY <2>3, <3>2 DEF Opens, NoRow
      <4> QED
        BY <1>2, <3>1, <4>1, <4>2 DEF Closed
    <3>3. CASE Closes(reservation[j], row, amount) \/ Relabels(reservation[j], row, amount)
      BY <3>1, <3>3 DEF Closes, Relabels, Closed
    <3> QED
      BY <1>6, <3>2, <3>3 DEF ReservationStep
  <2> QED
    BY <2>2, <2>3
<1>7. QED
  BY <1>1, <1>4, <1>5, <1>6, MeaningStep

LEMMA CommitsNext ==
    Commits(wallet, ledger) /\ [WalletNext]_walletVars => Commits(wallet, ledger)'
<1>1. SUFFICES ASSUME Commits(wallet, ledger), [WalletNext]_walletVars
               PROVE  Commits(wallet', ledger')
  BY DEF Commits
<1>2. CASE UNCHANGED <<wallet, ledger>>
  BY <1>1, <1>2 DEF Commits
<1>3. ASSUME NEW w, NEW log, Write(w, log) PROVE Commits(wallet', ledger')
  BY <1>3 DEF Write
<1>4. ASSUME NEW j, NEW c, ReserveInTx(j, c) \/ CaptureInTx(j, c)
      PROVE  \E w, log : Write(w, log)
  BY <1>4, Zenon DEF ReserveInTx, CaptureInTx
<1>5. ASSUME NEW j, NEW k, ReleaseInTx(j, k)
      PROVE  UNCHANGED <<wallet, ledger>> \/ \E w, log : Write(w, log)
  BY <1>5, Zenon DEF ReleaseInTx
<1>6. ASSUME NEW k, NEW r, NEW c,
             \/ RechargeInTx(k, r, c) \/ RefundCreditsInTx(r, c)
             \/ AdjustBalanceInTx(r, c) \/ AdjustBalanceInTx(r, -c)
             \/ RepairReservationInvariant(r)
      PROVE  \E w, log : Write(w, log)
  BY <1>6, Zenon DEF RechargeInTx, RefundCreditsInTx, AdjustBalanceInTx,
     RepairReservationInvariant, Move
<1>7. UNCHANGED <<wallet, ledger>> \/ \E w, log : Write(w, log)
  BY <1>1, <1>4, <1>5, <1>6, Zenon DEF WalletNext, walletVars
<1>8. QED
  BY <1>2, <1>3, <1>7

LEMMA OwnedAppend ==
    ASSUME NEW log \in Seq(LedgerRow), NEW l \in LedgerRow, Owned(l),
           \A i \in DOMAIN log : Owned(log[i])
    PROVE  \A i \in DOMAIN Append(log, l) : Owned(Append(log, l)[i])
<1> DEFINE m == Append(log, l)
<1>1. /\ DOMAIN log = 1..Len(log) /\ DOMAIN m = 1..(Len(log) + 1) /\ Len(log) \in Nat
      /\ m[Len(log) + 1] = l /\ \A i \in 1..Len(log) : m[i] = log[i]
  OBVIOUS
<1> HIDE DEF m
<1>2. ASSUME NEW i \in DOMAIN m PROVE Owned(m[i])
  <2>1. m[i] = l \/ (i \in DOMAIN log /\ m[i] = log[i])
    BY <1>1
  <2> QED
    BY <2>1
<1>3. QED
  BY <1>2 DEF m

LEMMA OwnedNext ==
    TypeInv /\ RowsOwned /\ [WalletNext]_walletVars => RowsOwned'
<1>1. SUFFICES ASSUME TypeInv, RowsOwned, [WalletNext]_walletVars
               PROVE  \A i \in DOMAIN ledger' : Owned(ledger'[i])
  BY DEF RowsOwned, Owned
<1>2. LedgerGrows /\ ledger \in Seq(LedgerRow) /\ \A i \in DOMAIN ledger : Owned(ledger[i])
  BY <1>1, GrowsStep DEF TypeInv, WalletTypeOK, RowsOwned
<1>3. CASE ledger' = ledger
  BY <1>2, <1>3
<1>4. ASSUME NEW l \in LedgerRow, ledger' = Append(ledger, l), Owned(l)
      PROVE  \A i \in DOMAIN ledger' : Owned(ledger'[i])
  <2>1. \A i \in DOMAIN Append(ledger, l) : Owned(Append(ledger, l)[i])
    BY <1>2, <1>4, OwnedAppend
  <2> QED
    BY <1>4, <2>1
<1>5. ASSUME NEW s \in LedgerRow, NEW l \in LedgerRow, ledger' = Append(Append(ledger, s), l),
             Owned(s), Owned(l)
      PROVE  \A i \in DOMAIN ledger' : Owned(ledger'[i])
  <2>0. Append(ledger, s) \in Seq(LedgerRow)
    BY <1>2
  <2>1. PICK log \in Seq(LedgerRow) : log = Append(ledger, s)
    BY <2>0
  <2>2. \A i \in DOMAIN log : Owned(log[i])
    BY <1>2, <1>5, <2>1, OwnedAppend
  <2>3. \A i \in DOMAIN Append(log, l) : Owned(Append(log, l)[i])
    BY <1>5, <2>2, OwnedAppend
  <2> QED
    BY <1>5, <2>1, <2>3
<1>6. QED
  BY <1>2, <1>3, <1>4, <1>5 DEF LedgerGrows, Explains

LEMMA KeysInit == WalletInit => KeysOK
<1>1. SUFFICES ASSUME WalletInit PROVE KeysOK
  OBVIOUS
<1>2. KeysUsed
  BY <1>1, TotalInit DEF KeysUsed
<1>3. wallet.balance >= 0 /\ wallet.reserved >= 0
  BY <1>1, WalletAssumption DEF WalletInit
<1>4. Commits(wallet, ledger) /\ RowsOwned
  <2>1. CASE Welcome = 0
    <3>1. DOMAIN ledger = {}
      BY <1>1, <2>1 DEF WalletInit, WelcomeLedger
    <3> QED
      BY <1>3, <3>1 DEF Commits, RowsOwned
  <2>2. CASE Welcome # 0
    <3> DEFINE l == Row("WELCOME", NoJob, <<"welcome", NoJob>>, Welcome,
                        [balance |-> 0, reserved |-> 0], [balance |-> Welcome, reserved |-> 0])
    <3>1. ledger = <<l>>
      BY <1>1, <2>2 DEF WalletInit, WelcomeLedger
    <3>2. Owned(l)
      <4>1. l.key = <<"welcome", NoJob>> /\ "welcome" \notin JobKeyKinds
        BY RowFields DEF JobKeyKinds
      <4> QED
        BY <4>1 DEF Owned
    <3> HIDE DEF l
    <3>3. DOMAIN ledger = {1} /\ ledger[1] = l
      BY <3>1
    <3> QED
      BY <1>3, <3>2, <3>3 DEF Commits, RowsOwned
  <2> QED
    BY <2>1, <2>2
<1>5. QED
  BY <1>2, <1>4 DEF KeysOK

LEMMA KeysNext == TypeInv /\ KeysOK /\ [WalletNext]_walletVars => KeysOK'
BY KeysUsedNext, CommitsNext, OwnedNext DEF KeysOK

-----------------------------------------------------------------------------
(* What a transaction has done, read off what it has still to do.            *)

MovePlans == {<<"wallet", "lookup", "commit">>, <<"lookup", "commit">>, <<"commit">>}
AdjustPlans == {<<"wallet", "commit">>, <<"commit">>}
JobPlans ==
    {<<"job", "reservation", "lookup", "wallet", "commit">>,
     <<"reservation", "lookup", "wallet", "commit">>,
     <<"lookup", "wallet", "commit">>, <<"wallet", "commit">>, <<"commit">>}
HandlerPlans ==
    {<<"reservation", "lookup", "wallet", "job", "commit">>,
     <<"lookup", "wallet", "job", "commit">>, <<"wallet", "job", "commit">>,
     <<"job", "commit">>, <<"commit">>}

OnReservation == {"capture", "release", "release in handler"}

(* What may be left to do.                                                   *)
Planned(s) ==
    /\ s.writes =>
          /\ s.call.op \in {"reserve", "recharge", "refund"} => s.todo \in MovePlans
          /\ s.call.op = "adjust" => s.todo \in AdjustPlans
          /\ s.call.op \in {"capture", "release"} => s.todo \in JobPlans
          /\ s.call.op = "release in handler" => s.todo \in HandlerPlans
    /\ ~s.writes =>
          \/ s.todo = <<"commit">>
          \/ s.todo = <<"job", "commit">> /\ s.call.op = "release in handler"

(* The wallet, the reservation has been locked and read; the key has been    *)
(* looked up and not found.                                                  *)
SawWallet(s) ==
    s.writes /\ s.todo \in {<<"commit">>, <<"job", "commit">>, <<"lookup", "commit">>}
SawReservation(s) ==
    /\ s.writes /\ s.call.op \in OnReservation
    /\ s.todo \in {<<"lookup", "wallet", "commit">>, <<"wallet", "commit">>, <<"commit">>,
                   <<"lookup", "wallet", "job", "commit">>, <<"wallet", "job", "commit">>,
                   <<"job", "commit">>}
LookedUp(s) ==
    /\ s.writes /\ s.call.op # "adjust"
    /\ s.todo \in {<<"commit">>, <<"wallet", "commit">>, <<"wallet", "job", "commit">>,
                   <<"job", "commit">>}

(* A connection's transaction.                                               *)
Tx == [todo : Seq({"job", "reservation", "lookup", "wallet", "commit"}), call : Calls,
       writes : BOOLEAN, wallet : Image, row : ReservationRow]

(* What it has locked and read is still what the tables say.                 *)
Fresh(t, s) ==
    /\ SawWallet(s) => lock[WalletLock] = t /\ s.wallet = wallet
    /\ SawReservation(s) =>
          /\ lock[<<"reservation", s.call.job>>] = t
          /\ s.row = reservation[s.call.job] /\ s.row.status \in OpenStatuses(s.call)
    /\ LookedUp(s) => ~AlreadyDone(s.call)

TxOK(t) == tx[t] = Idle \/ (tx[t] \in Tx /\ Planned(tx[t]) /\ Fresh(t, tx[t]))

LocksOK ==
    /\ lock \in [Locks -> Txs \cup {Free}]
    /\ \A l \in Locks : lock[l] # Free => Running(lock[l])

TxInv ==
    /\ tx \in [Txs -> {Idle} \cup Tx]
    /\ \A t \in Txs : TxOK(t)
    /\ LocksOK

(* The calls and what they are about.                                        *)
LEMMA CallFacts ==
    ASSUME NEW c \in Calls
    PROVE  /\ c.op \in {"reserve", "recharge", "refund", "adjust"} \cup OnReservation
           /\ c.op = "reserve" => c.job \in Jobs /\ c.credits \in Credits
           /\ c.op = "capture" => c.job \in Jobs /\ c.credits \in Credits \cup {0}
           /\ c.op \in {"release", "release in handler"} => c.job \in Jobs /\ c.kind \in ReleaseKinds
           /\ c.op \in {"recharge", "refund"} => c.ref \in Refs /\ c.credits \in Amounts
           /\ c.op = "adjust" => c.ref \in Refs /\ (c.credits \in Amounts \/ -c.credits \in Amounts)
           /\ c.op \in {"reserve"} \cup OnReservation => "job" \in DOMAIN c
           /\ c.op \in {"recharge", "refund", "adjust"} => "job" \notin DOMAIN c
<1>1. c \in Call
  BY TxAssumption
<1>2. CASE c \in [op : {"reserve"}, job : Jobs, credits : Credits]
  BY <1>2 DEF OnReservation
<1>3. CASE c \in [op : {"capture"}, job : Jobs, credits : Credits \cup {0}]
  BY <1>3 DEF OnReservation
<1>4. CASE c \in [op : {"release", "release in handler"}, job : Jobs, kind : ReleaseKinds]
  BY <1>4 DEF OnReservation
<1>5. CASE c \in [op : {"recharge", "refund"}, ref : Refs, credits : Amounts]
  BY <1>5 DEF OnReservation
<1>6. CASE c \in [op : {"adjust"}, ref : Refs, credits : Amounts \cup {-a : a \in Amounts}]
  <2>1. /\ c.op = "adjust" /\ c.ref \in Refs /\ "job" \notin DOMAIN c
        /\ c.credits \in Amounts \cup {-a : a \in Amounts}
    BY <1>6
  <2>2. \A a \in Amounts : -(-a) = a
    BY WalletAssumption
  <2> QED
    BY <2>1, <2>2 DEF OnReservation
<1>7. QED
  BY <1>1, <1>2, <1>3, <1>4, <1>5, <1>6 DEF Call

(* The transactions another one does not disturb.                            *)
LEMMA TxAt ==
    ASSUME TxInv, NEW t \in Txs, Running(t)
    PROVE  tx[t] \in Tx /\ Planned(tx[t]) /\ Fresh(t, tx[t])
BY DEF TxInv, TxOK, Running, Idle

LEMMA OpCases ==
    ASSUME NEW s \in Tx
    PROVE  s.call.op \in {"reserve", "recharge", "refund", "adjust", "capture", "release",
                          "release in handler"}
BY CallFacts DEF Tx, OnReservation

(* The next statement of every plan.                                         *)
LEMMA PlanHead ==
    /\ Head(<<"commit">>) = "commit"
    /\ Head(<<"job", "commit">>) = "job"
    /\ Head(<<"lookup", "commit">>) = "lookup"
    /\ Head(<<"wallet", "commit">>) = "wallet"
    /\ Head(<<"wallet", "lookup", "commit">>) = "wallet"
    /\ Head(<<"lookup", "wallet", "commit">>) = "lookup"
    /\ Head(<<"wallet", "job", "commit">>) = "wallet"
    /\ Head(<<"reservation", "lookup", "wallet", "commit">>) = "reservation"
    /\ Head(<<"lookup", "wallet", "job", "commit">>) = "lookup"
    /\ Head(<<"job", "reservation", "lookup", "wallet", "commit">>) = "job"
    /\ Head(<<"reservation", "lookup", "wallet", "job", "commit">>) = "reservation"
OBVIOUS

LEMMA PlanTail ==
    /\ Tail(<<"job", "commit">>) = <<"commit">>
    /\ Tail(<<"lookup", "commit">>) = <<"commit">>
    /\ Tail(<<"wallet", "commit">>) = <<"commit">>
    /\ Tail(<<"wallet", "lookup", "commit">>) = <<"lookup", "commit">>
    /\ Tail(<<"lookup", "wallet", "commit">>) = <<"wallet", "commit">>
    /\ Tail(<<"wallet", "job", "commit">>) = <<"job", "commit">>
    /\ Tail(<<"reservation", "lookup", "wallet", "commit">>) = <<"lookup", "wallet", "commit">>
    /\ Tail(<<"lookup", "wallet", "job", "commit">>) = <<"wallet", "job", "commit">>
    /\ Tail(<<"job", "reservation", "lookup", "wallet", "commit">>)
          = <<"reservation", "lookup", "wallet", "commit">>
    /\ Tail(<<"reservation", "lookup", "wallet", "job", "commit">>)
          = <<"lookup", "wallet", "job", "commit">>
OBVIOUS

(* Every plan is a sequence of statements with something left to do.         *)
Plans == MovePlans \cup AdjustPlans \cup JobPlans \cup HandlerPlans

LEMMA PlansAreStatements ==
    ASSUME NEW p \in Plans
    PROVE  p # <<>> /\ p \in Seq({"job", "reservation", "lookup", "wallet", "commit"})
<1> DEFINE S == {"job", "reservation", "lookup", "wallet", "commit"}
<1>1. <<"commit">> # <<>> /\ <<"commit">> \in Seq(S)
  OBVIOUS
<1>2. <<"job", "commit">> # <<>> /\ <<"job", "commit">> \in Seq(S)
  OBVIOUS
<1>3. <<"lookup", "commit">> # <<>> /\ <<"lookup", "commit">> \in Seq(S)
  OBVIOUS
<1>4. <<"wallet", "commit">> # <<>> /\ <<"wallet", "commit">> \in Seq(S)
  OBVIOUS
<1>5. <<"wallet", "lookup", "commit">> # <<>> /\ <<"wallet", "lookup", "commit">> \in Seq(S)
  OBVIOUS
<1>6. <<"lookup", "wallet", "commit">> # <<>> /\ <<"lookup", "wallet", "commit">> \in Seq(S)
  OBVIOUS
<1>7. <<"wallet", "job", "commit">> # <<>> /\ <<"wallet", "job", "commit">> \in Seq(S)
  OBVIOUS
<1>8. /\ <<"reservation", "lookup", "wallet", "commit">> # <<>>
      /\ <<"reservation", "lookup", "wallet", "commit">> \in Seq(S)
  OBVIOUS
<1>9. /\ <<"lookup", "wallet", "job", "commit">> # <<>>
      /\ <<"lookup", "wallet", "job", "commit">> \in Seq(S)
  OBVIOUS
<1>10. /\ <<"job", "reservation", "lookup", "wallet", "commit">> # <<>>
       /\ <<"job", "reservation", "lookup", "wallet", "commit">> \in Seq(S)
  OBVIOUS
<1>11. /\ <<"reservation", "lookup", "wallet", "job", "commit">> # <<>>
       /\ <<"reservation", "lookup", "wallet", "job", "commit">> \in Seq(S)
  OBVIOUS
<1> HIDE DEF S
<1>12. p # <<>> /\ p \in Seq(S)
  BY <1>1, <1>2, <1>3, <1>4, <1>5, <1>6, <1>7, <1>8, <1>9, <1>10, <1>11, Zenon
     DEF Plans, MovePlans, AdjustPlans, JobPlans, HandlerPlans
<1>13. QED
  BY <1>12 DEF S

(* What a transaction with a given next statement is doing.                  *)
AtJob(s) ==
    \/ s.todo = <<"job", "commit">> /\ s.call.op = "release in handler"
    \/ s.todo = <<"job", "reservation", "lookup", "wallet", "commit">>
       /\ s.call.op \in {"capture", "release"} /\ s.writes
AtReservation(s) ==
    /\ s.writes
    /\ \/ s.todo = <<"reservation", "lookup", "wallet", "commit">>
          /\ s.call.op \in {"capture", "release"}
       \/ s.todo = <<"reservation", "lookup", "wallet", "job", "commit">>
          /\ s.call.op = "release in handler"
AtLookup(s) ==
    /\ s.writes
    /\ \/ s.todo = <<"lookup", "commit">> /\ s.call.op \in {"reserve", "recharge", "refund"}
       \/ s.todo = <<"lookup", "wallet", "commit">> /\ s.call.op \in {"capture", "release"}
       \/ s.todo = <<"lookup", "wallet", "job", "commit">> /\ s.call.op = "release in handler"
AtWallet(s) ==
    /\ s.writes
    /\ \/ s.todo = <<"wallet", "lookup", "commit">> /\ s.call.op \in {"reserve", "recharge", "refund"}
       \/ s.todo = <<"wallet", "commit">> /\ s.call.op \in {"adjust", "capture", "release"}
       \/ s.todo = <<"wallet", "job", "commit">> /\ s.call.op = "release in handler"

LEMMA PlanCases ==
    ASSUME NEW s \in Tx, Planned(s)
    PROVE  \/ Head(s.todo) = "job" /\ AtJob(s)
           \/ Head(s.todo) = "reservation" /\ AtReservation(s)
           \/ Head(s.todo) = "lookup" /\ AtLookup(s)
           \/ Head(s.todo) = "wallet" /\ AtWallet(s)
           \/ Head(s.todo) = "commit" /\ s.todo = <<"commit">>
<1>1. CASE ~s.writes
  BY <1>1, PlanHead, Zenon DEF Planned, AtJob
<1>2. CASE s.writes /\ s.call.op \in {"reserve", "recharge", "refund"}
  BY <1>2, PlanHead, Zenon DEF Planned, MovePlans, AtLookup, AtWallet
<1>3. CASE s.writes /\ s.call.op = "adjust"
  BY <1>3, PlanHead, Zenon DEF Planned, AdjustPlans, AtWallet
<1>4. CASE s.writes /\ s.call.op \in {"capture", "release"}
  BY <1>4, PlanHead, Zenon DEF Planned, JobPlans, AtJob, AtReservation, AtLookup, AtWallet
<1>5. CASE s.writes /\ s.call.op = "release in handler"
  BY <1>5, PlanHead, Zenon DEF Planned, HandlerPlans, AtJob, AtReservation, AtLookup, AtWallet
<1>6. s.writes \in BOOLEAN
  BY DEF Tx
<1>7. QED
  BY <1>1, <1>2, <1>3, <1>4, <1>5, <1>6, OpCases

LEMMA PlanHeads ==
    ASSUME NEW s \in Tx, Planned(s)
    PROVE  /\ Head(s.todo) = "job" => AtJob(s)
           /\ Head(s.todo) = "reservation" => AtReservation(s)
           /\ Head(s.todo) = "lookup" => AtLookup(s)
           /\ Head(s.todo) = "wallet" => AtWallet(s)
           /\ Head(s.todo) = "commit" => s.todo = <<"commit">>
BY PlanCases

LEMMA PlannedRuns == ASSUME NEW s \in Tx, Planned(s) PROVE s.todo # <<>> /\ s # Idle
<1>1. s.todo \in Plans
  <2>1. CASE s.writes
    BY <2>1, OpCases, Zenon DEF Planned, Plans
  <2>2. CASE ~s.writes
    BY <2>2, Zenon DEF Planned, Plans, MovePlans, HandlerPlans
  <2> QED
    BY <2>1, <2>2 DEF Tx
<1>2. s.todo # <<>>
  BY <1>1, PlansAreStatements
<1>3. QED
  BY <1>2 DEF Idle

(* A step that leaves the tables and the locks of others alone.              *)
LEMMA QuietStep ==
    ASSUME TxInv, NEW t \in Txs, NEW s, tx' = [tx EXCEPT ![t] = s],
           s = Idle \/ (s \in Tx /\ Planned(s) /\ Fresh(t, s)'),
           UNCHANGED walletVars,
           lock' \in [Locks -> Txs \cup {Free}],
           \A l \in Locks, u \in Txs : u # t => (lock'[l] = u <=> lock[l] = u),
           s = Idle => \A l \in Locks : lock'[l] # t
    PROVE  TxInv'
<1>1. /\ tx \in [Txs -> {Idle} \cup Tx] /\ LocksOK /\ \A u \in Txs : TxOK(u)
      /\ wallet' = wallet /\ reservation' = reservation /\ ledger' = ledger
  BY DEF TxInv, walletVars
<1>2. tx'[t] = s /\ \A u \in Txs : u # t => tx'[u] = tx[u]
  BY <1>1
<1>3. tx' \in [Txs -> {Idle} \cup Tx]
  BY <1>1
<1>4. ASSUME NEW u \in Txs, u # t, tx[u] \in Tx, Fresh(u, tx[u]) PROVE Fresh(u, tx[u])'
  <2>1. PICK r \in Tx : r = tx[u]
    BY <1>4
  <2>2. SawReservation(r) => <<"reservation", r.call.job>> \in Locks
    BY CallFacts DEF SawReservation, OnReservation, Locks, Tx
  <2>3. WalletLock \in Locks
    BY DEF Locks
  <2>4. tx'[u] = r
    BY <1>2, <1>4, <2>1
  <2>5. SawWallet(r) => lock'[WalletLock] = u /\ r.wallet = wallet'
    BY <1>1, <1>4, <2>1, <2>3 DEF Fresh
  <2>6. SawReservation(r) =>
          /\ lock'[<<"reservation", r.call.job>>] = u
          /\ r.row = reservation'[r.call.job] /\ r.row.status \in OpenStatuses(r.call)
    BY <1>1, <1>4, <2>1, <2>2 DEF Fresh
  <2>7. LookedUp(r) => ~AlreadyDone(r.call)'
    BY <1>1, <1>4, <2>1 DEF Fresh, AlreadyDone, hasLedger, KeysOf
  <2> QED
    BY <2>4, <2>5, <2>6, <2>7 DEF Fresh
<1>5. ASSUME NEW u \in Txs, u # t PROVE TxOK(u)'
  <2>1. tx'[u] = tx[u] /\ TxOK(u)
    BY <1>1, <1>2, <1>5
  <2> QED
    BY <1>4, <1>5, <2>1 DEF TxOK
<1>6. TxOK(t)'
  BY <1>2 DEF TxOK, Fresh
<1>7. LocksOK'
  <2>1. ASSUME NEW l \in Locks, lock'[l] # Free PROVE tx'[lock'[l]].todo # <<>>
    <3>1. PICK u \in Txs : u = lock'[l]
      BY <2>1
    <3>2. CASE u = t
      <4>1. s \in Tx /\ Planned(s)
        BY <2>1, <3>1, <3>2
      <4>2. s.todo # <<>>
        BY <4>1, PlannedRuns
      <4> QED
        BY <1>2, <3>1, <3>2, <4>2
    <3>3. CASE u # t
      <4>1. lock[l] = u
        BY <3>1, <3>3
      <4>2. tx[u].todo # <<>>
        BY <1>1, <4>1, TxAssumption DEF LocksOK, Running
      <4>3. tx'[u] = tx[u]
        BY <1>2, <3>3
      <4> QED
        BY <3>1, <4>2, <4>3
    <3> QED
      BY <3>2, <3>3
  <2>2. \A l \in Locks : lock'[l] # Free => tx'[lock'[l]].todo # <<>>
    BY <2>1
  <2> QED
    BY <2>2, Zenon DEF LocksOK, Running
<1>8. QED
  BY <1>3, <1>5, <1>6, <1>7 DEF TxInv

(* What a transaction has seen at each point of its plan.                    *)
LEMMA SeenAtStart ==
    ASSUME NEW s,
           \/ s.todo \in {<<"wallet", "lookup", "commit">>,
                          <<"job", "reservation", "lookup", "wallet", "commit">>,
                          <<"reservation", "lookup", "wallet", "commit">>,
                          <<"reservation", "lookup", "wallet", "job", "commit">>}
           \/ ~s.writes
           \/ s.todo = <<"wallet", "commit">> /\ s.call.op = "adjust"
    PROVE  ~SawWallet(s) /\ ~SawReservation(s) /\ ~LookedUp(s)
<1>1. CASE ~s.writes
  BY <1>1 DEF SawWallet, SawReservation, LookedUp
<1>2. CASE s.todo = <<"wallet", "commit">> /\ s.call.op = "adjust"
  BY <1>2 DEF SawWallet, SawReservation, LookedUp, OnReservation
<1>3. CASE s.todo = <<"wallet", "lookup", "commit">>
  BY <1>3 DEF SawWallet, SawReservation, LookedUp
<1>4. CASE s.todo = <<"job", "reservation", "lookup", "wallet", "commit">>
  BY <1>4 DEF SawWallet, SawReservation, LookedUp
<1>5. CASE s.todo = <<"reservation", "lookup", "wallet", "commit">>
  BY <1>5 DEF SawWallet, SawReservation, LookedUp
<1>6. CASE s.todo = <<"reservation", "lookup", "wallet", "job", "commit">>
  BY <1>6 DEF SawWallet, SawReservation, LookedUp
<1>7. QED
  BY <1>1, <1>2, <1>3, <1>4, <1>5, <1>6

LEMMA SeenLater ==
    ASSUME NEW s
    PROVE  /\ s.todo = <<"lookup", "commit">> => ~SawReservation(s) /\ ~LookedUp(s)
           /\ s.todo \in {<<"lookup", "wallet", "commit">>, <<"lookup", "wallet", "job", "commit">>}
                => ~SawWallet(s) /\ ~LookedUp(s)
           /\ s.todo \in {<<"wallet", "commit">>, <<"wallet", "job", "commit">>} => ~SawWallet(s)
           /\ s.call.op \notin OnReservation => ~SawReservation(s)
           /\ s.call.op = "adjust" => ~LookedUp(s)
<1>1. s.todo = <<"lookup", "commit">> => ~SawReservation(s) /\ ~LookedUp(s)
  BY DEF SawReservation, LookedUp
<1>2. s.todo = <<"lookup", "wallet", "commit">> => ~SawWallet(s) /\ ~LookedUp(s)
  BY DEF SawWallet, LookedUp
<1>3. s.todo = <<"lookup", "wallet", "job", "commit">> => ~SawWallet(s) /\ ~LookedUp(s)
  BY DEF SawWallet, LookedUp
<1>4. s.todo = <<"wallet", "commit">> => ~SawWallet(s)
  BY DEF SawWallet
<1>5. s.todo = <<"wallet", "job", "commit">> => ~SawWallet(s)
  BY DEF SawWallet
<1>6. QED
  BY <1>1, <1>2, <1>3, <1>4, <1>5 DEF SawReservation, LookedUp

(* The next transaction record after a statement.                            *)
LEMMA PastFacts ==
    ASSUME NEW s \in Tx, s.todo # <<>>, NEW s2, s2 = Past(s)
    PROVE  /\ s2 \in Tx /\ s2.todo = Tail(s.todo) /\ s2.call = s.call /\ s2.writes = s.writes
           /\ s2.wallet = s.wallet /\ s2.row = s.row
<1>1. Tail(s.todo) \in Seq({"job", "reservation", "lookup", "wallet", "commit"})
  BY DEF Tx
<1>2. s2 = [s EXCEPT !.todo = Tail(s.todo)]
  BY DEF Past
<1>3. PICK rest \in Seq({"job", "reservation", "lookup", "wallet", "commit"}) : rest = Tail(s.todo)
  BY <1>1
<1>4. s2 = [s EXCEPT !.todo = rest]
  BY <1>2, <1>3
<1>5. /\ s2 \in Tx /\ s2.todo = rest /\ s2.call = s.call /\ s2.writes = s.writes
      /\ s2.wallet = s.wallet /\ s2.row = s.row
  BY <1>4 DEF Tx
<1>6. QED
  BY <1>3, <1>5

LEMMA PastWallet ==
    ASSUME NEW s \in Tx, s.todo # <<>>, NEW w \in Image,
           NEW s2, s2 = ReadWallet(s, w)
    PROVE  /\ s2 \in Tx /\ s2.todo = Tail(s.todo) /\ s2.call = s.call /\ s2.writes = s.writes
           /\ s2.wallet = w /\ s2.row = s.row
<1>1. PICK p \in Tx :
        /\ p = Past(s) /\ p.todo = Tail(s.todo) /\ p.call = s.call /\ p.writes = s.writes
        /\ p.wallet = s.wallet /\ p.row = s.row
  BY PastFacts
<1>2. s2 = [p EXCEPT !.wallet = w]
  BY <1>1 DEF ReadWallet
<1>3. QED
  BY <1>1, <1>2 DEF Tx

LEMMA PastRow ==
    ASSUME NEW s \in Tx, s.todo # <<>>, NEW r \in ReservationRow,
           NEW s2, s2 = ReadRow(s, r)
    PROVE  /\ s2 \in Tx /\ s2.todo = Tail(s.todo) /\ s2.call = s.call /\ s2.writes = s.writes
           /\ s2.wallet = s.wallet /\ s2.row = r
<1>1. PICK p \in Tx :
        /\ p = Past(s) /\ p.todo = Tail(s.todo) /\ p.call = s.call /\ p.writes = s.writes
        /\ p.wallet = s.wallet /\ p.row = s.row
  BY PastFacts
<1>2. s2 = [p EXCEPT !.row = r]
  BY <1>1 DEF ReadRow
<1>3. QED
  BY <1>1, <1>2 DEF Tx

LEMMA Returns ==
    ASSUME NEW s \in Tx, NEW s2, s2 = [s EXCEPT !.todo = Enclosing(s.call), !.writes = FALSE]
    PROVE  s2 \in Tx /\ Planned(s2) /\ ~SawWallet(s2) /\ ~SawReservation(s2) /\ ~LookedUp(s2)
<1>1. /\ <<"job", "commit">> \in Seq({"job", "reservation", "lookup", "wallet", "commit"})
      /\ <<"commit">> \in Seq({"job", "reservation", "lookup", "wallet", "commit"})
  OBVIOUS
<1>2. Enclosing(s.call) \in Seq({"job", "reservation", "lookup", "wallet", "commit"})
  BY <1>1 DEF Enclosing
<1>3. s2 \in Tx /\ s2.todo = Enclosing(s.call) /\ s2.call = s.call /\ s2.writes = FALSE
  BY <1>2 DEF Tx
<1>4. Planned(s2)
  BY <1>3, Zenon DEF Planned, Enclosing
<1>5. QED
  BY <1>3, <1>4, SeenAtStart

-----------------------------------------------------------------------------
(* The statements that leave the tables alone.                               *)

LEMMA EndStep == ASSUME TxInv, NEW t \in Txs, End(t) PROVE TxInv'
<1>1. lock \in [Locks -> Txs \cup {Free}] /\ t # Free
  BY TxAssumption DEF TxInv, LocksOK
<1>2. lock' = [l \in Locks |-> IF lock[l] = t THEN Free ELSE lock[l]]
  BY DEF End, LocksWithout
<1>3. lock' \in [Locks -> Txs \cup {Free}] /\ \A l \in Locks : lock'[l] # t
  BY <1>1, <1>2
<1>4. \A l \in Locks, u \in Txs : u # t => (lock'[l] = u <=> lock[l] = u)
  BY <1>1, <1>2, TxAssumption
<1>5. tx' = [tx EXCEPT ![t] = Idle] /\ UNCHANGED walletVars
  BY DEF End
<1>6. QED
  BY <1>3, <1>4, <1>5, QuietStep

LEMMA GrantFacts ==
    ASSUME TxInv, NEW t \in Txs, Grant(t), NEW k \in Locks, k = LockFor(t)
    PROVE  /\ lock' \in [Locks -> Txs \cup {Free}]
           /\ \A l \in Locks, u \in Txs : u # t => (lock'[l] = u <=> lock[l] = u)
           /\ lock'[k] = t
           /\ \A l \in Locks : lock[l] = t => lock'[l] = t
<1>1. lock \in [Locks -> Txs \cup {Free}] /\ Free \notin Txs
  BY TxAssumption DEF TxInv, LocksOK
<1>2. lock' = [lock EXCEPT ![k] = t] /\ lock[k] \in {Free, t}
  BY DEF Grant
<1>3. QED
  BY <1>1, <1>2

LEMMA BeginStep ==
    ASSUME TypeInv, TxInv, NEW t \in Txs, NEW c \in Calls, Begin(t, c) PROVE TxInv'
<1>1. /\ wallet \in Image /\ NoRow \in ReservationRow
      /\ lock \in [Locks -> Txs \cup {Free}] /\ LocksOK
      /\ tx \in [Txs -> {Idle} \cup Tx]
  BY DEF TypeInv, WalletTypeOK, TxInv, LocksOK, NoRow, ReservationRow
<1>2. Script(c) \in Plans
  BY CallFacts, Zenon DEF OnReservation, Script, Plans, MovePlans, AdjustPlans, JobPlans, HandlerPlans
<1>3. Script(c) \in Seq({"job", "reservation", "lookup", "wallet", "commit"})
  BY <1>2, PlansAreStatements
<1>4. PICK s \in Tx : s = [todo |-> Script(c), call |-> c, writes |-> TRUE,
                           wallet |-> wallet, row |-> NoRow]
  BY <1>1, <1>3 DEF Tx
<1>5. s.todo = Script(c) /\ s.call = c /\ s.writes = TRUE
  BY <1>4
<1>6. Planned(s)
  BY <1>5, Zenon DEF Planned, Script, MovePlans, AdjustPlans, JobPlans, HandlerPlans
<1>7. ~SawWallet(s) /\ ~SawReservation(s) /\ ~LookedUp(s)
  <2>1. \/ s.todo \in {<<"wallet", "lookup", "commit">>,
                       <<"job", "reservation", "lookup", "wallet", "commit">>,
                       <<"reservation", "lookup", "wallet", "job", "commit">>}
        \/ s.todo = <<"wallet", "commit">> /\ s.call.op = "adjust"
    BY <1>5, CallFacts, Zenon DEF OnReservation, Script
  <2> QED
    BY <2>1, SeenAtStart
<1>8. Fresh(t, s)'
  BY <1>7 DEF Fresh
<1>9. tx' = [tx EXCEPT ![t] = s] /\ lock' = lock /\ UNCHANGED walletVars
  BY <1>4 DEF Begin
<1>10. s # Idle
  BY <1>6, PlannedRuns
<1>11. QED
  BY <1>1, <1>6, <1>8, <1>9, <1>10, QuietStep

LEMMA LockJobStep == ASSUME TxInv, NEW t \in Txs, LockJob(t) PROVE TxInv'
<1>0. Running(t)
  BY DEF LockJob, At
<1>1. PICK s \in Tx : s = tx[t] /\ Planned(s) /\ Fresh(t, s) /\ Head(s.todo) = "job"
  <2>1. Head(tx[t].todo) = "job"
    BY DEF LockJob, At
  <2> QED
    BY <1>0, <2>1, TxAt
<1>2. AtJob(s) /\ s.todo # <<>> /\ s.call \in Calls
  BY <1>1, PlanHeads, PlannedRuns DEF Tx
<1>3. s.call.job \in Jobs
  BY <1>2, CallFacts DEF AtJob, OnReservation
<1>4. PICK k \in Locks : k = LockFor(t)
  <2>1. LockFor(t) = <<"job", s.call.job>>
    BY <1>1, Zenon DEF LockFor, At
  <2> QED
    BY <1>3, <2>1 DEF Locks
<1>5. /\ lock' \in [Locks -> Txs \cup {Free}]
      /\ \A l \in Locks, u \in Txs : u # t => (lock'[l] = u <=> lock[l] = u)
      /\ \A l \in Locks : lock[l] = t => lock'[l] = t
  <2>1. Grant(t)
    BY DEF LockJob
  <2> QED
    BY <1>4, <2>1, GrantFacts
<1>6. PICK s2 \in Tx :
        /\ s2 = Past(s) /\ s2.todo = Tail(s.todo) /\ s2.call = s.call
        /\ s2.writes = s.writes /\ s2.wallet = s.wallet /\ s2.row = s.row
  BY <1>2, PastFacts
<1>7. Planned(s2) /\ Fresh(t, s2)'
  <2>1. CASE s.todo = <<"job", "reservation", "lookup", "wallet", "commit">>
             /\ s.call.op \in {"capture", "release"} /\ s.writes
    <3>1. s2.todo = <<"reservation", "lookup", "wallet", "commit">>
      BY <1>6, <2>1, PlanTail
    <3>2. Planned(s2)
      BY <1>6, <2>1, <3>1, Zenon DEF Planned, JobPlans
    <3>3. ~SawWallet(s2) /\ ~SawReservation(s2) /\ ~LookedUp(s2)
      BY <3>1, SeenAtStart
    <3> QED
      BY <3>2, <3>3 DEF Fresh
  <2>2. CASE s.todo = <<"job", "commit">> /\ s.call.op = "release in handler"
    <3>1. s2.todo = <<"commit">>
      BY <1>6, <2>2, PlanTail
    <3>2. Planned(s2)
      BY <1>6, <2>2, <3>1, Zenon DEF Planned, HandlerPlans
    <3>3. /\ SawWallet(s2) => SawWallet(s)
          /\ SawReservation(s2) => SawReservation(s)
          /\ LookedUp(s2) => LookedUp(s)
      BY <1>6, <2>2, Zenon DEF SawWallet, SawReservation, LookedUp
    <3>4. WalletLock \in Locks /\ <<"reservation", s.call.job>> \in Locks
      BY <1>3 DEF Locks
    <3>5. wallet' = wallet /\ reservation' = reservation /\ ledger' = ledger
      BY DEF LockJob, walletVars
    <3>6. SawWallet(s2) => lock'[WalletLock] = t /\ s2.wallet = wallet'
      BY <1>1, <1>5, <1>6, <3>3, <3>4, <3>5 DEF Fresh
    <3>7. SawReservation(s2) =>
            /\ lock'[<<"reservation", s2.call.job>>] = t
            /\ s2.row = reservation'[s2.call.job] /\ s2.row.status \in OpenStatuses(s2.call)
      BY <1>1, <1>5, <1>6, <3>3, <3>4, <3>5 DEF Fresh
    <3>8. LookedUp(s2) => ~AlreadyDone(s2.call)'
      BY <1>1, <1>6, <3>3, <3>5 DEF Fresh, AlreadyDone, hasLedger, KeysOf
    <3> QED
      BY <3>2, <3>6, <3>7, <3>8 DEF Fresh
  <2> QED
    BY <1>2, <2>1, <2>2 DEF AtJob
<1>8. tx' = [tx EXCEPT ![t] = s2] /\ UNCHANGED walletVars
  BY <1>1, <1>6 DEF LockJob, Advance, TxInv
<1>9. s2 # Idle
  BY <1>7, PlannedRuns
<1>10. QED
  BY <1>5, <1>7, <1>8, <1>9, QuietStep

LEMMA ReturnStep ==
    ASSUME TxInv, NEW t \in Txs, Running(t), ReturnEarly(t), UNCHANGED walletVars,
           lock' \in [Locks -> Txs \cup {Free}],
           \A l \in Locks, u \in Txs : u # t => (lock'[l] = u <=> lock[l] = u)
    PROVE  TxInv'
<1>1. PICK s \in Tx : s = tx[t]
  BY TxAt
<1>2. PICK s2 : s2 = [s EXCEPT !.todo = Enclosing(s.call), !.writes = FALSE]
  OBVIOUS
<1>3. s2 \in Tx /\ Planned(s2) /\ ~SawWallet(s2) /\ ~SawReservation(s2) /\ ~LookedUp(s2)
  BY <1>2, Returns
<1>4. tx' = [tx EXCEPT ![t] = s2]
  BY <1>1, <1>2 DEF ReturnEarly
<1>5. Fresh(t, s2)'
  BY <1>3 DEF Fresh
<1>6. s2 # Idle
  BY <1>3, PlannedRuns
<1>7. QED
  BY <1>3, <1>4, <1>5, <1>6, QuietStep

LEMMA LockReservationStep ==
    ASSUME TypeInv, TxInv, NEW t \in Txs, LockReservation(t) PROVE TxInv'
<1>0. Running(t) /\ UNCHANGED walletVars
  BY DEF LockReservation, At
<1>1. PICK s \in Tx : s = tx[t] /\ Planned(s) /\ Fresh(t, s) /\ Head(s.todo) = "reservation"
  <2>1. Head(tx[t].todo) = "reservation"
    BY DEF LockReservation, At
  <2> QED
    BY <1>0, <2>1, TxAt
<1>2. AtReservation(s) /\ s.todo # <<>> /\ s.call \in Calls
  BY <1>1, PlanHeads, PlannedRuns DEF Tx
<1>3. s.call.job \in Jobs /\ s.call.op \in OnReservation
  BY <1>2, CallFacts DEF AtReservation, OnReservation
<1>4. PICK k \in Locks : k = LockFor(t) /\ k = <<"reservation", s.call.job>>
  <2>1. LockFor(t) = <<"reservation", s.call.job>>
    BY <1>1, Zenon DEF LockFor, At
  <2> QED
    BY <1>3, <2>1 DEF Locks
<1>5. /\ lock \in [Locks -> Txs \cup {Free}]
      /\ reservation \in [Jobs -> ReservationRow]
      /\ wallet' = wallet /\ reservation' = reservation
  BY <1>0 DEF TxInv, LocksOK, TypeInv, WalletTypeOK, walletVars
<1>6. Grant(t) => /\ lock' \in [Locks -> Txs \cup {Free}]
                  /\ \A l \in Locks, u \in Txs : u # t => (lock'[l] = u <=> lock[l] = u)
                  /\ lock'[k] = t
  BY <1>4, GrantFacts
<1>7. CASE ReturnEarly(t) /\ (lock' = lock \/ Grant(t))
  BY <1>0, <1>5, <1>6, <1>7, ReturnStep
<1>8. CASE /\ reservation[s.call.job].status \in OpenStatuses(s.call)
           /\ Grant(t)
           /\ tx' = [tx EXCEPT ![t] = ReadRow(s, reservation[s.call.job])]
  <2>1. PICK r \in ReservationRow : r = reservation[s.call.job]
    BY <1>3, <1>5
  <2>2. PICK s2 : s2 = ReadRow(s, r)
    OBVIOUS
  <2>4. /\ s2 \in Tx /\ s2.todo = Tail(s.todo) /\ s2.call = s.call /\ s2.writes = s.writes
        /\ s2.row = r
    BY <1>2, <2>2, PastRow
  <2>5. s2.writes
    BY <1>2, <2>4 DEF AtReservation
  <2>6. /\ s2.todo \in {<<"lookup", "wallet", "commit">>, <<"lookup", "wallet", "job", "commit">>}
        /\ Planned(s2)
    <3>1. CASE s.todo = <<"reservation", "lookup", "wallet", "commit">>
               /\ s.call.op \in {"capture", "release"}
      <4>1. s2.todo = <<"lookup", "wallet", "commit">>
        BY <2>4, <3>1, PlanTail
      <4> QED
        BY <2>4, <2>5, <3>1, <4>1, Zenon DEF Planned, JobPlans
    <3>2. CASE s.todo = <<"reservation", "lookup", "wallet", "job", "commit">>
               /\ s.call.op = "release in handler"
      <4>1. s2.todo = <<"lookup", "wallet", "job", "commit">>
        BY <2>4, <3>2, PlanTail
      <4> QED
        BY <2>4, <2>5, <3>2, <4>1, Zenon DEF Planned, HandlerPlans
    <3> QED
      BY <1>2, <3>1, <3>2 DEF AtReservation
  <2>7. ~SawWallet(s2) /\ ~LookedUp(s2)
    BY <2>6, SeenLater
  <2>8. lock'[<<"reservation", s2.call.job>>] = t
    BY <1>4, <1>6, <1>8, <2>4
  <2>9. s2.row = reservation'[s2.call.job] /\ s2.row.status \in OpenStatuses(s2.call)
    BY <1>5, <1>8, <2>1, <2>4
  <2>10. Fresh(t, s2)'
    BY <2>7, <2>8, <2>9 DEF Fresh
  <2>11. tx' = [tx EXCEPT ![t] = s2] /\ s2 # Idle
    BY <1>8, <2>1, <2>2, <2>4, <2>6, PlannedRuns
  <2> QED
    BY <1>0, <1>6, <1>8, <2>4, <2>6, <2>10, <2>11, QuietStep
<1>9. QED
  BY <1>1, <1>7, <1>8, Zenon DEF LockReservation

LEMMA LookupStep == ASSUME TxInv, NEW t \in Txs, Lookup(t) PROVE TxInv'
<1>0. /\ Running(t) /\ UNCHANGED walletVars /\ lock' = lock
      /\ wallet' = wallet /\ reservation' = reservation /\ ledger' = ledger
  BY DEF Lookup, At, walletVars
<1>1. PICK s \in Tx : s = tx[t] /\ Planned(s) /\ Fresh(t, s) /\ Head(s.todo) = "lookup"
  <2>1. Head(tx[t].todo) = "lookup"
    BY DEF Lookup, At
  <2> QED
    BY <1>0, <2>1, TxAt
<1>2. AtLookup(s) /\ s.todo # <<>> /\ s.writes
  BY <1>1, PlanHeads, PlannedRuns DEF AtLookup
<1>3. lock' \in [Locks -> Txs \cup {Free}]
  BY <1>0 DEF TxInv, LocksOK
<1>4. CASE ReturnEarly(t)
  BY <1>0, <1>3, <1>4, ReturnStep
<1>5. CASE ~AlreadyDone(s.call) /\ Advance(t)
  <2>1. PICK s2 \in Tx :
          /\ s2 = Past(s) /\ s2.todo = Tail(s.todo) /\ s2.call = s.call
          /\ s2.writes = s.writes /\ s2.wallet = s.wallet /\ s2.row = s.row
    BY <1>2, PastFacts
  <2>2. /\ Planned(s2)
        /\ SawWallet(s2) => SawWallet(s)
        /\ SawReservation(s2) => SawReservation(s)
    <3>1. CASE s.todo = <<"lookup", "commit">> /\ s.call.op \in {"reserve", "recharge", "refund"}
      <4>1. s2.todo = <<"commit">>
        BY <2>1, <3>1, PlanTail
      <4>2. Planned(s2)
        BY <1>2, <2>1, <3>1, <4>1, Zenon DEF Planned, MovePlans
      <4>3. SawWallet(s)
        BY <1>2, <3>1 DEF SawWallet
      <4>4. ~SawReservation(s2)
        BY <2>1, <3>1, SeenLater DEF OnReservation
      <4> QED
        BY <4>2, <4>3, <4>4
    <3>2. CASE s.todo = <<"lookup", "wallet", "commit">> /\ s.call.op \in {"capture", "release"}
      <4>1. s2.todo = <<"wallet", "commit">>
        BY <2>1, <3>2, PlanTail
      <4>2. Planned(s2)
        BY <1>2, <2>1, <3>2, <4>1, Zenon DEF Planned, JobPlans
      <4>3. ~SawWallet(s2)
        BY <4>1, SeenLater
      <4>4. SawReservation(s)
        BY <1>2, <3>2, Zenon DEF SawReservation, OnReservation
      <4> QED
        BY <4>2, <4>3, <4>4
    <3>3. CASE s.todo = <<"lookup", "wallet", "job", "commit">> /\ s.call.op = "release in handler"
      <4>1. s2.todo = <<"wallet", "job", "commit">>
        BY <2>1, <3>3, PlanTail
      <4>2. Planned(s2)
        BY <1>2, <2>1, <3>3, <4>1, Zenon DEF Planned, HandlerPlans
      <4>3. ~SawWallet(s2)
        BY <4>1, SeenLater
      <4>4. SawReservation(s)
        BY <1>2, <3>3, Zenon DEF SawReservation, OnReservation
      <4> QED
        BY <4>2, <4>3, <4>4
    <3> QED
      BY <1>2, <3>1, <3>2, <3>3 DEF AtLookup
  <2>3. ~AlreadyDone(s2.call)'
    BY <1>0, <1>5, <2>1 DEF AlreadyDone, hasLedger, KeysOf
  <2>4. SawWallet(s2) => lock'[WalletLock] = t /\ s2.wallet = wallet'
    BY <1>0, <1>1, <2>1, <2>2 DEF Fresh
  <2>5. SawReservation(s2) =>
            /\ lock'[<<"reservation", s2.call.job>>] = t
            /\ s2.row = reservation'[s2.call.job] /\ s2.row.status \in OpenStatuses(s2.call)
    BY <1>0, <1>1, <2>1, <2>2 DEF Fresh
  <2>6. Fresh(t, s2)'
    BY <2>3, <2>4, <2>5 DEF Fresh
  <2>7. tx' = [tx EXCEPT ![t] = s2] /\ s2 # Idle
    BY <1>1, <1>5, <2>1, <2>2, PlannedRuns DEF Advance
  <2> QED
    BY <1>0, <1>3, <2>2, <2>6, <2>7, QuietStep
<1>6. QED
  BY <1>1, <1>4, <1>5 DEF Lookup

LEMMA LockWalletStep == ASSUME TypeInv, TxInv, NEW t \in Txs, LockWallet(t) PROVE TxInv'
<1>0. /\ Running(t) /\ UNCHANGED walletVars /\ Grant(t)
      /\ wallet' = wallet /\ reservation' = reservation /\ ledger' = ledger
  BY DEF LockWallet, At, walletVars
<1>1. PICK s \in Tx : s = tx[t] /\ Planned(s) /\ Fresh(t, s) /\ Head(s.todo) = "wallet"
  <2>1. Head(tx[t].todo) = "wallet"
    BY DEF LockWallet, At
  <2> QED
    BY <1>0, <2>1, TxAt
<1>2. AtWallet(s) /\ s.todo # <<>> /\ s.writes /\ s.call \in Calls
  BY <1>1, PlanHeads, PlannedRuns DEF AtWallet, Tx
<1>3. WalletLock \in Locks /\ WalletLock = LockFor(t)
  <2>1. LockFor(t) = WalletLock
    BY DEF LockFor, LockWallet
  <2> QED
    BY <2>1 DEF Locks
<1>4. /\ lock' \in [Locks -> Txs \cup {Free}]
      /\ \A l \in Locks, u \in Txs : u # t => (lock'[l] = u <=> lock[l] = u)
      /\ lock'[WalletLock] = t
      /\ \A l \in Locks : lock[l] = t => lock'[l] = t
  BY <1>0, <1>3, GrantFacts
<1>5. PICK w \in Image : w = wallet
  BY DEF TypeInv, WalletTypeOK
<1>6. PICK s2 : s2 = ReadWallet(s, w)
  OBVIOUS
<1>8. /\ s2 \in Tx /\ s2.todo = Tail(s.todo) /\ s2.call = s.call /\ s2.writes = s.writes
      /\ s2.wallet = w /\ s2.row = s.row
  <2>1. s.todo # <<>>
    BY <1>2
  <2> QED
    BY <1>6, <2>1, PastWallet
<1>9. /\ Planned(s2)
      /\ SawReservation(s2) => SawReservation(s)
      /\ LookedUp(s2) => LookedUp(s)
  <2>1. CASE s.todo = <<"wallet", "lookup", "commit">>
             /\ s.call.op \in {"reserve", "recharge", "refund"}
    <3>1. s2.todo = <<"lookup", "commit">>
      BY <1>8, <2>1, PlanTail
    <3>2. Planned(s2)
      BY <1>2, <1>8, <2>1, <3>1, Zenon DEF Planned, MovePlans
    <3> QED
      BY <3>1, <3>2, SeenLater
  <2>2. CASE s.todo = <<"wallet", "commit">> /\ s.call.op = "adjust"
    <3>1. s2.todo = <<"commit">>
      BY <1>8, <2>2, PlanTail
    <3>2. Planned(s2)
      BY <1>2, <1>8, <2>2, <3>1, Zenon DEF Planned, AdjustPlans
    <3>3. ~SawReservation(s2) /\ ~LookedUp(s2)
      BY <1>8, <2>2, SeenLater DEF OnReservation
    <3> QED
      BY <3>2, <3>3
  <2>3. CASE s.todo = <<"wallet", "commit">> /\ s.call.op \in {"capture", "release"}
    <3>1. s2.todo = <<"commit">>
      BY <1>8, <2>3, PlanTail
    <3>2. Planned(s2)
      BY <1>2, <1>8, <2>3, <3>1, Zenon DEF Planned, JobPlans
    <3>3. SawReservation(s) /\ LookedUp(s)
      BY <1>2, <2>3, Zenon DEF SawReservation, LookedUp, OnReservation
    <3> QED
      BY <3>2, <3>3
  <2>4. CASE s.todo = <<"wallet", "job", "commit">> /\ s.call.op = "release in handler"
    <3>1. s2.todo = <<"job", "commit">>
      BY <1>8, <2>4, PlanTail
    <3>2. Planned(s2)
      BY <1>2, <1>8, <2>4, <3>1, Zenon DEF Planned, HandlerPlans
    <3>3. SawReservation(s) /\ LookedUp(s)
      BY <1>2, <2>4, Zenon DEF SawReservation, LookedUp, OnReservation
    <3> QED
      BY <3>2, <3>3
  <2> QED
    BY <1>2, <2>1, <2>2, <2>3, <2>4 DEF AtWallet
<1>10. SawReservation(s2) => <<"reservation", s2.call.job>> \in Locks
  BY <1>2, <1>8, CallFacts DEF SawReservation, OnReservation, Locks
<1>11. SawReservation(s2) =>
            /\ lock'[<<"reservation", s2.call.job>>] = t
            /\ s2.row = reservation'[s2.call.job] /\ s2.row.status \in OpenStatuses(s2.call)
  BY <1>0, <1>1, <1>4, <1>8, <1>9, <1>10 DEF Fresh
<1>12. LookedUp(s2) => ~AlreadyDone(s2.call)'
  BY <1>0, <1>1, <1>8, <1>9 DEF Fresh, AlreadyDone, hasLedger, KeysOf
<1>13. Fresh(t, s2)'
  BY <1>0, <1>4, <1>5, <1>8, <1>11, <1>12 DEF Fresh
<1>14. tx' = [tx EXCEPT ![t] = s2] /\ s2 # Idle
  BY <1>1, <1>5, <1>6, <1>8, <1>9, PlannedRuns DEF LockWallet
<1>15. QED
  BY <1>0, <1>4, <1>8, <1>9, <1>13, <1>14, QuietStep

-----------------------------------------------------------------------------
(* A commit is the whole call, made at once.                                 *)

LEMMA ReadyToCommit ==
    ASSUME TxInv, NEW t \in Txs, At(t, "commit"), tx[t].writes
    PROVE  \E s \in Tx :
              /\ s = tx[t] /\ s.todo = <<"commit">> /\ s.writes
              /\ lock[WalletLock] = t /\ s.wallet = wallet
              /\ s.call.op \in OnReservation =>
                    /\ lock[<<"reservation", s.call.job>>] = t
                    /\ s.row = reservation[s.call.job]
                    /\ s.row.status \in OpenStatuses(s.call)
              /\ s.call.op # "adjust" => ~AlreadyDone(s.call)
<1>1. Running(t) /\ Head(tx[t].todo) = "commit"
  BY DEF At
<1>2. PICK s \in Tx : s = tx[t] /\ Planned(s) /\ Fresh(t, s)
  BY <1>1, TxAt
<1>3. s.todo = <<"commit">> /\ s.writes
  BY <1>1, <1>2, PlanHeads
<1>4. /\ SawWallet(s)
      /\ s.call.op \in OnReservation => SawReservation(s)
      /\ s.call.op # "adjust" => LookedUp(s)
  BY <1>3, Zenon DEF SawWallet, SawReservation, LookedUp
<1>5. QED
  BY <1>2, <1>3, <1>4 DEF Fresh

LEMMA CommitReads ==
    ASSUME TxInv, NEW t \in Txs, Commit(t)
    PROVE  \E s \in Tx :
              /\ s = tx[t] /\ s.todo = <<"commit">> /\ s.writes
              /\ lock[WalletLock] = t /\ s.wallet = wallet
              /\ s.call.op \in OnReservation =>
                    /\ lock[<<"reservation", s.call.job>>] = t
                    /\ s.row = reservation[s.call.job]
                    /\ s.row.status \in OpenStatuses(s.call)
              /\ s.call.op # "adjust" => ~AlreadyDone(s.call)
<1>1. At(t, "commit") /\ tx[t].writes
  BY DEF Commit
<1>2. QED
  BY <1>1, ReadyToCommit

(* What a commit writes for each kind of call.                               *)
LEMMA WritesOfReserve ==
    ASSUME NEW s, s.call.op = "reserve"
    PROVE  /\ NewWallet(s) = computeReserve(s.wallet, s.call.credits)
           /\ NewRow(s) = [status |-> "RESERVED", reserved |-> s.call.credits,
                           captured |-> 0, released |-> 0]
<1>1. NewWallet(s) = computeReserve(s.wallet, s.call.credits)
  BY DEF NewWallet, IsRelease
<1>2. NewRow(s) = [status |-> "RESERVED", reserved |-> s.call.credits,
                   captured |-> 0, released |-> 0]
  BY DEF NewRow
<1>3. QED
  BY <1>1, <1>2

LEMMA WritesOfCapture ==
    ASSUME NEW s, s.call.op = "capture", NEW c, c = computeCapture(s.row, s.call.credits)
    PROVE  /\ NewWallet(s) = unreserve(s.wallet, c.remaining, c.release)
           /\ NewRow(s) = c.row
           /\ NewRows(s) = CaptureRows(s.call.job, s.wallet, NewWallet(s), c.release)
<1>1. NewWallet(s) = unreserve(s.wallet, c.remaining, c.release)
  BY DEF NewWallet, IsRelease
<1>2. NewRow(s) = c.row
  BY DEF NewRow
<1>3. NewRows(s) = CaptureRows(s.call.job, s.wallet, NewWallet(s), c.release)
  BY DEF NewRows, IsRelease
<1>4. QED
  BY <1>1, <1>2, <1>3

LEMMA WritesOfRelease ==
    ASSUME NEW s, IsRelease(s.call), NEW c, c = computeReleaseForJob(s.row)
    PROVE  /\ NewWallet(s) = unreserve(s.wallet, c.release, c.release)
           /\ NewRow(s) = c.row
           /\ NewRows(s) = <<Row("GENERATION_RELEASE", s.call.job, KeyOf(s.call), Residual(s.row),
                                 s.wallet, NewWallet(s))>>
<1>1. NewWallet(s) = unreserve(s.wallet, c.release, c.release)
  BY DEF NewWallet, IsRelease
<1>2. NewRow(s) = c.row
  BY DEF NewRow, IsRelease
<1>3. NewRows(s) = <<Row("GENERATION_RELEASE", s.call.job, KeyOf(s.call), Residual(s.row),
                         s.wallet, NewWallet(s))>>
  BY DEF NewRows, IsRelease
<1>4. QED
  BY <1>1, <1>2, <1>3

LEMMA CommitReserves ==
    ASSUME TypeInv, TxInv, NEW t \in Txs, Commit(t), tx[t].call.op = "reserve"
    PROVE  ReserveInTx(tx[t].call.job, tx[t].call.credits)
<1>1. PICK s \in Tx : s = tx[t] /\ s.wallet = wallet /\ ~AlreadyDone(s.call)
  BY CommitReads
<1>2. PICK j \in Jobs, c \in Credits : j = s.call.job /\ c = s.call.credits
  BY <1>1, CallFacts DEF Tx
<1>3. s.call.op = "reserve" /\ "job" \in DOMAIN s.call
  BY <1>1, CallFacts DEF Tx
<1> DEFINE w == computeReserve(wallet, c)
<1>4. /\ NewWallet(s) = w
      /\ NewRow(s) = [status |-> "RESERVED", reserved |-> c, captured |-> 0, released |-> 0]
  BY <1>1, <1>2, <1>3, WritesOfReserve
<1>5. NewRows(s) = <<Row("GENERATION_RESERVE", j, <<"reserve", j>>, -c, wallet, w)>>
  BY <1>1, <1>2, <1>3, <1>4 DEF NewRows, KeyOf, IsRelease
<1>6. ~StatusOnly(s)
  BY <1>3 DEF StatusOnly, IsRelease
<1>7. reservation[j] = NoRow
  BY <1>1, <1>2, <1>3 DEF AlreadyDone
<1>8. wallet.balance >= c
  <2>1. ~(w.balance < 0)
    BY <1>1, <1>4, <1>6 DEF Commit, Refused
  <2> QED
    BY <2>1, WalletAssumption DEF computeReserve, TypeInv, WalletTypeOK, Image
<1>9. Write(w, ledger \o NewRows(s)) /\ reservation' = [reservation EXCEPT ![j] = NewRow(s)]
  BY <1>1, <1>2, <1>3, <1>4, <1>6 DEF Commit
<1>10. ledger \o NewRows(s)
         = Append(ledger, Row("GENERATION_RESERVE", j, <<"reserve", j>>, -c, wallet, w))
  <2>1. ledger \in Seq(LedgerRow)
    BY DEF TypeInv, WalletTypeOK
  <2> HIDE DEF w
  <2>2. PICK l : l = Row("GENERATION_RESERVE", j, <<"reserve", j>>, -c, wallet, w)
    OBVIOUS
  <2>3. ledger \o <<l>> = Append(ledger, l)
    BY <2>1
  <2> QED
    BY <1>5, <2>2, <2>3
<1>11. ReserveInTx(j, c)
  BY <1>4, <1>7, <1>8, <1>9, <1>10 DEF ReserveInTx
<1>12. QED
  BY <1>1, <1>2, <1>11

LEMMA CommitCaptures ==
    ASSUME TypeInv, TxInv, NEW t \in Txs, Commit(t), tx[t].call.op = "capture"
    PROVE  CaptureInTx(tx[t].call.job, tx[t].call.credits)
<1>1. PICK s \in Tx : /\ s = tx[t] /\ s.wallet = wallet /\ ~AlreadyDone(s.call)
                      /\ s.row = reservation[s.call.job]
                      /\ s.row.status \in OpenStatuses(s.call)
  BY CommitReads DEF OnReservation
<1>2. PICK j \in Jobs, a \in Credits \cup {0} : j = s.call.job /\ a = s.call.credits
  BY <1>1, CallFacts DEF Tx
<1>3. s.call.op = "capture" /\ "job" \in DOMAIN s.call
  BY <1>1, CallFacts DEF Tx, OnReservation
<1>4. PICK c : c = computeCapture(reservation[j], a)
  OBVIOUS
<1>5. /\ computeCapture(s.row, s.call.credits) = c
      /\ NewWallet(s) = unreserve(wallet, c.remaining, c.release)
      /\ NewRow(s) = c.row
  BY <1>1, <1>2, <1>3, <1>4, WritesOfCapture
<1>6. NewRows(s) = CaptureRows(j, wallet, unreserve(wallet, c.remaining, c.release), c.release)
  BY <1>1, <1>2, <1>3, <1>5, WritesOfCapture
<1>7. ~StatusOnly(s)
  BY <1>3 DEF StatusOnly, IsRelease
<1>8. reservation[j].status = "RESERVED" /\ ~hasLedger(ledger, <<"settle", j>>, j)
  BY <1>1, <1>2, <1>3 DEF AlreadyDone, OpenStatuses, IsRelease, KeyOf
<1>9. /\ Write(NewWallet(s), ledger \o NewRows(s))
      /\ reservation' = [reservation EXCEPT ![j] = NewRow(s)]
  BY <1>1, <1>2, <1>3, <1>7 DEF Commit
<1>10. CaptureInTx(j, a)
  BY <1>4, <1>5, <1>6, <1>8, <1>9 DEF CaptureInTx
<1>11. QED
  BY <1>1, <1>2, <1>10

LEMMA CommitReleases ==
    ASSUME TypeInv, TxInv, NEW t \in Txs, Commit(t), IsRelease(tx[t].call)
    PROVE  ReleaseInTx(tx[t].call.job, tx[t].call.kind)
<1>1. PICK s \in Tx : /\ s = tx[t] /\ s.wallet = wallet /\ ~AlreadyDone(s.call)
                      /\ s.row = reservation[s.call.job]
                      /\ s.row.status \in OpenStatuses(s.call)
  BY CommitReads DEF OnReservation, IsRelease
<1>2. PICK j \in Jobs, k \in ReleaseKinds : j = s.call.job /\ k = s.call.kind
  BY <1>1, CallFacts DEF Tx, IsRelease
<1>3. /\ s.call.op \in {"release", "release in handler"} /\ "job" \in DOMAIN s.call
      /\ IsRelease(s.call)
  BY <1>1, CallFacts DEF Tx, OnReservation, IsRelease
<1>4. PICK c : c = computeReleaseForJob(reservation[j])
  OBVIOUS
<1>5. /\ computeReleaseForJob(s.row) = c
      /\ NewWallet(s) = unreserve(wallet, c.release, c.release)
      /\ NewRow(s) = c.row
  BY <1>1, <1>2, <1>3, <1>4, WritesOfRelease
<1>6. c.release = Residual(s.row)
  BY <1>1, <1>2, <1>4 DEF computeReleaseForJob
<1>7. NewRows(s) = <<Row("GENERATION_RELEASE", j, <<k, j>>, c.release, wallet,
                         unreserve(wallet, c.release, c.release))>>
  <2>1. KeyOf(s.call) = <<k, j>>
    BY <1>2, <1>3 DEF KeyOf
  <2> QED
    BY <1>1, <1>2, <1>3, <1>5, <1>6, <2>1, WritesOfRelease
<1>8. StatusOnly(s) <=> c.release = 0
  BY <1>3, <1>6 DEF StatusOnly
<1>9. reservation[j].status \in {"RESERVED", "CAPTURED"} /\ ~hasLedger(ledger, <<k, j>>, j)
  BY <1>1, <1>2, <1>3 DEF AlreadyDone, OpenStatuses, KeyOf
<1>10. /\ reservation' = [reservation EXCEPT ![j] = NewRow(s)]
       /\ IF StatusOnly(s) THEN UNCHANGED <<wallet, ledger>>
                           ELSE Write(NewWallet(s), ledger \o NewRows(s))
  BY <1>1, <1>2, <1>3 DEF Commit
<1>11. PICK l : l = Row("GENERATION_RELEASE", j, <<k, j>>, c.release, wallet,
                        unreserve(wallet, c.release, c.release))
  OBVIOUS
<1>12. ledger \o NewRows(s) = Append(ledger, l)
  <2>1. ledger \in Seq(LedgerRow)
    BY DEF TypeInv, WalletTypeOK
  <2>2. ledger \o <<l>> = Append(ledger, l)
    BY <2>1
  <2> QED
    BY <1>7, <1>11, <2>2
<1>13. ReleaseInTx(j, k)
  BY <1>4, <1>5, <1>8, <1>9, <1>10, <1>11, <1>12 DEF ReleaseInTx
<1>14. QED
  BY <1>1, <1>2, <1>13

LEMMA CommitMoves ==
    ASSUME TypeInv, TxInv, NEW t \in Txs, Commit(t),
           tx[t].call.op \in {"recharge", "refund", "adjust"}
    PROVE  WalletNext
<1>1. PICK s \in Tx : s = tx[t] /\ s.wallet = wallet
  BY CommitReads
<1>2. s.call.op \in {"recharge", "refund", "adjust"} /\ "job" \notin DOMAIN s.call
  BY <1>1, CallFacts DEF Tx
<1>3. PICK r \in Refs, d \in Int :
        /\ r = s.call.ref /\ d = Delta(s.call)
        /\ s.call.op = "recharge" => d \in Amounts
        /\ s.call.op = "refund" => -d \in Amounts
        /\ s.call.op = "adjust" => d # 0 /\ (d \in Amounts \/ -d \in Amounts)
  <2>1. CASE s.call.op = "recharge"
    <3>1. PICK a \in Amounts : a = s.call.credits
      BY <2>1, CallFacts DEF Tx
    <3>2. s.call.ref \in Refs
      BY <2>1, CallFacts DEF Tx
    <3>3. Delta(s.call) = a
      BY <2>1, <3>1 DEF Delta
    <3>4. a \in Int
      BY WalletAssumption
    <3> QED
      BY <2>1, <3>2, <3>3, <3>4
  <2>2. CASE s.call.op = "refund"
    <3>1. PICK a \in Amounts : a = s.call.credits
      BY <2>2, CallFacts DEF Tx
    <3>2. s.call.ref \in Refs
      BY <2>2, CallFacts DEF Tx
    <3>3. Delta(s.call) = -a
      BY <2>2, <3>1 DEF Delta
    <3>4. -(-a) = a /\ -a \in Int
      BY WalletAssumption
    <3> QED
      BY <2>2, <3>2, <3>3, <3>4
  <2>3. CASE s.call.op = "adjust"
    <3>1. s.call.ref \in Refs /\ (s.call.credits \in Amounts \/ -s.call.credits \in Amounts)
      BY <2>3, CallFacts DEF Tx
    <3>2. Delta(s.call) = s.call.credits
      BY <2>3 DEF Delta
    <3>3. s.call \in Calls /\ s.call.credits \in Int
      <4>1. s.call \in [op : {"adjust"}, ref : Refs, credits : Amounts \cup {-a : a \in Amounts}]
        BY <2>3, TxAssumption DEF Tx, Call
      <4> QED
        BY <4>1, WalletAssumption DEF Tx
    <3>4. s.call.credits # 0
      BY <3>1, <3>3, WalletAssumption
    <3> QED
      BY <2>3, <3>1, <3>2, <3>3, <3>4
  <2> QED
    BY <1>2, <2>1, <2>2, <2>3
<1> DEFINE type == CASE s.call.op = "recharge" -> "RECHARGE"
                     [] s.call.op = "refund" -> "REFUND"
                     [] s.call.op = "adjust" -> "ADMIN_ADJUSTMENT"
           key == <<s.call.op, r>>
<1>4. ~IsRelease(s.call) /\ KeyOf(s.call) = key
  BY <1>2, <1>3 DEF IsRelease, KeyOf
<1>5. PICK w : w = [wallet EXCEPT !.balance = @ + d]
  OBVIOUS
<1>6. NewWallet(s) = w
  BY <1>1, <1>2, <1>3, <1>4, <1>5 DEF NewWallet
<1>7. PICK l : l = Row(type, NoJob, key, d, wallet, w)
  OBVIOUS
<1>8. NewRows(s) = <<l>>
  BY <1>1, <1>2, <1>3, <1>4, <1>6, <1>7 DEF NewRows
<1>9. ~StatusOnly(s)
  BY <1>4 DEF StatusOnly
<1>10. ~(w.balance < 0) /\ Write(w, ledger \o <<l>>) /\ reservation' = reservation
  BY <1>1, <1>2, <1>6, <1>8, <1>9 DEF Commit, Refused
<1>11. ledger \o <<l>> = Append(ledger, l)
  BY DEF TypeInv, WalletTypeOK
<1>12. Move(type, key, d)
  BY <1>5, <1>7, <1>10, <1>11 DEF Move
<1>13. wallet.balance + d >= 0
  BY <1>5, <1>10 DEF TypeInv, WalletTypeOK, Image
<1>14. CASE s.call.op = "recharge"
  <2>1. RechargeInTx("recharge", r, d)
    BY <1>12, <1>14 DEF RechargeInTx
  <2> QED
    BY <1>3, <1>14, <2>1 DEF WalletNext
<1>15. CASE s.call.op = "refund"
  <2>1. PICK c \in Amounts : c = -d
    BY <1>3, <1>15
  <2>2. -c = d /\ wallet.balance - c >= 0
    BY <1>13, <2>1 DEF TypeInv, WalletTypeOK, Image
  <2>3. RefundCreditsInTx(r, c)
    BY <1>12, <1>15, <2>2 DEF RefundCreditsInTx
  <2> QED
    BY <2>3 DEF WalletNext
<1>16. CASE s.call.op = "adjust"
  <2>1. AdjustBalanceInTx(r, d)
    BY <1>3, <1>12, <1>13, <1>16 DEF AdjustBalanceInTx
  <2>2. CASE d \in Amounts
    BY <2>1, <2>2 DEF WalletNext
  <2>3. CASE -d \in Amounts
    <3>1. PICK c \in Amounts : c = -d
      BY <2>3
    <3>2. -c = d
      BY <3>1
    <3>3. AdjustBalanceInTx(r, -c)
      BY <2>1, <3>2
    <3> QED
      BY <3>3 DEF WalletNext
  <2> QED
    BY <1>3, <1>16, <2>2, <2>3
<1>17. QED
  BY <1>2, <1>14, <1>15, <1>16

LEMMA CommitIsACall == ASSUME TypeInv, TxInv, NEW t \in Txs, Commit(t) PROVE WalletNext
<1>1. tx[t] \in Tx
  BY CommitReads
<1>2. PICK c \in Calls : c = tx[t].call
  BY <1>1 DEF Tx
<1>3. CASE c.op = "reserve"
  BY <1>2, <1>3, CommitReserves, CallFacts DEF WalletNext
<1>4. CASE c.op = "capture"
  BY <1>2, <1>4, CommitCaptures, CallFacts DEF WalletNext
<1>5. CASE IsRelease(c)
  BY <1>2, <1>5, CommitReleases, CallFacts DEF WalletNext, IsRelease
<1>6. CASE c.op \in {"recharge", "refund", "adjust"}
  BY <1>2, <1>6, CommitMoves
<1>7. QED
  BY <1>3, <1>4, <1>5, <1>6, CallFacts DEF OnReservation, IsRelease

-----------------------------------------------------------------------------
(* A commit leaves alone what the other transactions have locked and read.   *)

LEMMA SameRowSameKeys ==
    ASSUME TypeInv, [WalletNext]_walletVars, NEW x \in Jobs, NEW k \in JobKeyKinds,
           reservation'[x] = reservation[x], hasLedger(ledger', <<k, x>>, x)
    PROVE  hasLedger(ledger, <<k, x>>, x)
<1>1. reservation \in [Jobs -> ReservationRow] /\ x # NoJob
  BY DEF TypeInv, WalletTypeOK, Jobs, NoJob
<1>2. CASE UNCHANGED walletVars
  BY <1>2 DEF walletVars
<1>3. ASSUME NEW amount \in Int, FundsStep(amount) PROVE hasLedger(ledger, <<k, x>>, x)
  BY <1>3 DEF FundsStep, Books
<1>4. ASSUME NEW j \in Jobs, NEW row \in ReservationRow, NEW amount \in Int,
             ReservationStep(j, row, amount)
      PROVE  hasLedger(ledger, <<k, x>>, x)
  <2>1. row.status # reservation[j].status
    BY <1>4 DEF ReservationStep, Opens, Closes, Relabels, Closed, NoRow
  <2>2. reservation'[j] = row
    BY <1>1, <1>4 DEF ReservationStep
  <2>3. x # j
    BY <2>1, <2>2
  <2> QED
    BY <1>4, <2>3 DEF ReservationStep, Books
<1>5. QED
  BY <1>2, <1>3, <1>4, MeaningStep

LEMMA CommitRows ==
    ASSUME TypeInv, TxInv, NEW t \in Txs, Commit(t), NEW x \in Jobs,
           lock[<<"reservation", x>>] # t, reservation[x] # NoRow
    PROVE  reservation'[x] = reservation[x]
<1>1. PICK s \in Tx :
         /\ s = tx[t]
         /\ s.call.op \in OnReservation => lock[<<"reservation", s.call.job>>] = t
         /\ s.call.op # "adjust" => ~AlreadyDone(s.call)
  BY CommitReads
<1>2. reservation \in [Jobs -> ReservationRow]
  BY DEF TypeInv, WalletTypeOK
<1>3. CASE "job" \notin DOMAIN s.call
  BY <1>1, <1>3 DEF Commit
<1>4. CASE "job" \in DOMAIN s.call
  <2>1. s.call.op \in {"reserve"} \cup OnReservation
    BY <1>4, CallFacts DEF Tx
  <2>2. s.call.job \in Jobs
    BY <2>1, CallFacts DEF Tx, OnReservation
  <2>3. reservation' = [reservation EXCEPT ![s.call.job] = NewRow(s)]
    BY <1>1, <1>4 DEF Commit
  <2>4. CASE s.call.op = "reserve"
    <3>1. reservation[s.call.job] = NoRow
      BY <1>1, <2>4 DEF AlreadyDone
    <3> QED
      BY <1>2, <2>2, <2>3, <3>1
  <2>5. CASE s.call.op \in OnReservation
    <3>1. s.call.job # x
      BY <1>1, <2>5
    <3> QED
      BY <1>2, <2>2, <2>3, <3>1
  <2> QED
    BY <2>1, <2>4, <2>5
<1>5. QED
  BY <1>3, <1>4

LEMMA CommitStep == ASSUME TypeInv, TxInv, NEW t \in Txs, Commit(t) PROVE TxInv'
<1>1. /\ tx \in [Txs -> {Idle} \cup Tx] /\ \A u \in Txs : TxOK(u)
      /\ lock \in [Locks -> Txs \cup {Free}]
      /\ \A l \in Locks : lock[l] # Free => Running(lock[l])
      /\ Free \notin Txs
  BY TxAssumption DEF TxInv, LocksOK
<1>2. tx' = [tx EXCEPT ![t] = Idle]
  BY DEF Commit
<1>3. lock' = [l \in Locks |-> IF lock[l] = t THEN Free ELSE lock[l]]
  BY DEF Commit, LocksWithout
<1>4. lock' \in [Locks -> Txs \cup {Free}]
  BY <1>1, <1>3
<1>5. lock[WalletLock] = t
  BY CommitReads
<1>6. WalletNext
  BY CommitIsACall
<1>7. ASSUME NEW u \in Txs, u # t, NEW r \in Tx, Planned(r), Fresh(u, r) PROVE Fresh(u, r)'
  <2>1. ~SawWallet(r)
    BY <1>5, <1>7 DEF Fresh
  <2>2. SawReservation(r) =>
          /\ lock[<<"reservation", r.call.job>>] = u
          /\ r.row = reservation[r.call.job] /\ r.row.status \in OpenStatuses(r.call)
    BY <1>7 DEF Fresh
  <2>3. SawReservation(r) => r.call.job \in Jobs /\ <<"reservation", r.call.job>> \in Locks
    BY CallFacts DEF SawReservation, OnReservation, Locks, Tx
  <2>4. SawReservation(r) => reservation'[r.call.job] = reservation[r.call.job]
    <3> SUFFICES ASSUME SawReservation(r)
                 PROVE  reservation'[r.call.job] = reservation[r.call.job]
      OBVIOUS
    <3>1. reservation[r.call.job] # NoRow
      BY <2>2 DEF OpenStatuses, NoRow
    <3> QED
      BY <1>7, <2>2, <2>3, <3>1, CommitRows
  <2>5. SawReservation(r) =>
          /\ lock'[<<"reservation", r.call.job>>] = u
          /\ r.row = reservation'[r.call.job] /\ r.row.status \in OpenStatuses(r.call)
    BY <1>3, <1>7, <2>2, <2>3, <2>4
  <2>6. ASSUME LookedUp(r) PROVE ~AlreadyDone(r.call)'
    <3>1. r.writes /\ r.todo \in {<<"wallet", "commit">>, <<"wallet", "job", "commit">>}
      BY <2>1, <2>6, Zenon DEF LookedUp, SawWallet
    <3>2. r.call.op # "adjust" /\ ~AlreadyDone(r.call)
      BY <1>7, <2>6 DEF Fresh, LookedUp
    <3>3. Head(r.todo) = "wallet"
      BY <3>1, PlanHead
    <3>4. AtWallet(r)
      BY <1>7, <3>3, PlanHeads
    <3>5. r.call.op \in OnReservation
      <4>1. r.todo # <<"wallet", "lookup", "commit">>
        BY <3>1
      <4> QED
        BY <3>2, <3>4, <4>1, Zenon DEF AtWallet, OnReservation
    <3>6. SawReservation(r)
      BY <3>1, <3>5, Zenon DEF SawReservation
    <3>7. PICK k \in JobKeyKinds, x \in Jobs : KeyOf(r.call) = <<k, x>> /\ x = r.call.job
      <4>1. r.call \in Calls
        BY DEF Tx
      <4>2. CASE r.call.op = "capture"
        <5>1. KeyOf(r.call) = <<"settle", r.call.job>>
          BY <4>2 DEF KeyOf, IsRelease
        <5> QED
          BY <2>3, <3>6, <5>1 DEF JobKeyKinds
      <4>3. CASE r.call.op \in {"release", "release in handler"}
        <5>1. r.call.kind \in ReleaseKinds
          BY <4>1, <4>3, CallFacts
        <5>2. KeyOf(r.call) = <<r.call.kind, r.call.job>>
          BY <4>3 DEF KeyOf, IsRelease
        <5> QED
          BY <2>3, <3>6, <5>1, <5>2 DEF ReleaseKinds, JobKeyKinds
      <4> QED
        BY <3>5, <4>2, <4>3 DEF OnReservation
    <3>8. ~hasLedger(ledger, <<k, x>>, x)
      BY <3>2, <3>5, <3>7 DEF AlreadyDone, OnReservation
    <3>9. ~hasLedger(ledger', <<k, x>>, x)
      BY <1>6, <2>4, <3>6, <3>7, <3>8, SameRowSameKeys
    <3> QED
      BY <3>5, <3>7, <3>9 DEF AlreadyDone, OnReservation
  <2> QED
    BY <2>1, <2>5, <2>6 DEF Fresh
<1>8. ASSUME NEW u \in Txs, u # t PROVE TxOK(u)'
  <2>1. tx'[u] = tx[u] /\ TxOK(u)
    BY <1>1, <1>2, <1>8
  <2>2. CASE tx[u] = Idle
    BY <2>1, <2>2 DEF TxOK
  <2>3. CASE tx[u] # Idle
    <3>1. PICK r \in Tx : r = tx[u] /\ Planned(r) /\ Fresh(u, r)
      BY <2>1, <2>3 DEF TxOK
    <3>2. Fresh(u, r)'
      BY <1>7, <1>8, <3>1
    <3>3. tx'[u] = r
      BY <2>1, <3>1
    <3> QED
      BY <3>1, <3>2, <3>3 DEF TxOK, Fresh
  <2> QED
    BY <2>2, <2>3
<1>9. TxOK(t)'
  BY <1>1, <1>2 DEF TxOK
<1>10. LocksOK'
  <2>1. ASSUME NEW l \in Locks, lock'[l] # Free PROVE tx'[lock'[l]].todo # <<>>
    <3>1. lock[l] # t /\ lock'[l] = lock[l] /\ lock[l] \in Txs
      BY <1>1, <1>3, <2>1
    <3> QED
      BY <1>1, <1>2, <2>1, <3>1 DEF Running
  <2>2. \A l \in Locks : lock'[l] # Free => tx'[lock'[l]].todo # <<>>
    BY <2>1
  <2> QED
    BY <1>4, <2>2, Zenon DEF LocksOK, Running
<1>11. tx' \in [Txs -> {Idle} \cup Tx]
  BY <1>1, <1>2
<1>12. QED
  BY <1>8, <1>9, <1>10, <1>11 DEF TxInv

-----------------------------------------------------------------------------
(* The theorems.                                                             *)

(* Every step is a call made at once or leaves the tables alone.             *)
LEMMA TxStepMeans == TypeInv /\ TxInv /\ [TxNext]_txVars => [WalletNext]_walletVars
<1>1. SUFFICES ASSUME TypeInv, TxInv, [TxNext]_txVars PROVE [WalletNext]_walletVars
  OBVIOUS
<1>2. CASE UNCHANGED txVars
  BY <1>2 DEF txVars
<1>3. ASSUME NEW t \in Txs, Commit(t) PROVE WalletNext
  BY <1>1, <1>3, CommitIsACall
<1>4. ASSUME NEW t \in Txs, NEW call \in Calls, Begin(t, call) PROVE UNCHANGED walletVars
  BY <1>4 DEF Begin
<1>5. ASSUME NEW t \in Txs,
             \/ LockJob(t) \/ LockReservation(t) \/ CaptureThrows(t) \/ LockWallet(t)
             \/ Lookup(t) \/ CommitNothing(t) \/ Rollback(t)
      PROVE  UNCHANGED walletVars
  BY <1>5, Zenon DEF LockJob, LockReservation, CaptureThrows, LockWallet, Lookup, CommitNothing,
     Rollback, End
<1>6. QED
  BY <1>1, <1>2, <1>3, <1>4, <1>5, Zenon DEF TxNext, Step

LEMMA TxInvNext == TypeInv /\ TxInv /\ [TxNext]_txVars => TxInv'
<1>1. SUFFICES ASSUME TypeInv, TxInv, [TxNext]_txVars PROVE TxInv'
  OBVIOUS
<1>2. CASE UNCHANGED txVars
  <2>1. wallet' = wallet /\ reservation' = reservation /\ ledger' = ledger /\ tx' = tx /\ lock' = lock
    BY <1>2 DEF txVars, walletVars
  <2>2. LocksOK'
    <3>1. \A l \in Locks : lock'[l] # Free => tx'[lock'[l]].todo # <<>>
      BY <1>1, <2>1 DEF TxInv, LocksOK, Running
    <3> QED
      BY <1>1, <2>1, <3>1, Zenon DEF TxInv, LocksOK, Running
  <2>3. \A t \in Txs : TxOK(t)'
    BY <1>1, <2>1 DEF TxInv, TxOK, Fresh, AlreadyDone, hasLedger, KeysOf
  <2> QED
    BY <1>1, <2>1, <2>2, <2>3 DEF TxInv
<1>3. ASSUME NEW t \in Txs, NEW call \in Calls, Begin(t, call) PROVE TxInv'
  BY <1>1, <1>3, BeginStep
<1>4. ASSUME NEW t \in Txs, CaptureThrows(t) \/ CommitNothing(t) \/ Rollback(t)
      PROVE  TxInv'
  <2>1. End(t)
    BY <1>4, Zenon DEF CaptureThrows, CommitNothing, Rollback
  <2> QED
    BY <1>1, <2>1, EndStep
<1>5. ASSUME NEW t \in Txs, LockJob(t) PROVE TxInv'
  BY <1>1, <1>5, LockJobStep
<1>6. ASSUME NEW t \in Txs, LockReservation(t) PROVE TxInv'
  BY <1>1, <1>6, LockReservationStep
<1>7. ASSUME NEW t \in Txs, LockWallet(t) PROVE TxInv'
  BY <1>1, <1>7, LockWalletStep
<1>8. ASSUME NEW t \in Txs, Lookup(t) PROVE TxInv'
  BY <1>1, <1>8, LookupStep
<1>9. ASSUME NEW t \in Txs, Commit(t) PROVE TxInv'
  BY <1>1, <1>9, CommitStep
<1>10. QED
  BY <1>1, <1>2, <1>3, <1>4, <1>5, <1>6, <1>7, <1>8, <1>9, Zenon DEF TxNext, Step

LEMMA TxInvInit == TxInit => TxInv
<1>1. SUFFICES ASSUME TxInit PROVE TxInv
  OBVIOUS
<1>2. tx = [t \in Txs |-> Idle] /\ lock = [l \in Locks |-> Free]
  BY <1>1 DEF TxInit
<1>3. QED
  BY <1>2 DEF TxInv, TxOK, LocksOK

(* What holds at every moment of every interleaving.                         *)
TxAll == TypeInv /\ ReservedIsResiduals /\ KeysOK /\ TxInv

LEMMA TxAllHolds == TxSpec => []TxAll
<1>1. TxInit => TxAll
  <2>1. TxInit => WalletInit
    BY DEF TxInit
  <2> QED
    BY <2>1, TypeInit, PoolInit, KeysInit, TxInvInit DEF TxAll
<1>2. TxAll /\ [TxNext]_txVars => TxAll'
  <2>1. TxAll /\ [TxNext]_txVars => [WalletNext]_walletVars
    BY TxStepMeans DEF TxAll
  <2> QED
    BY <2>1, TypeNext, PoolNext, KeysNext, TxInvNext DEF TxAll
<1>3. QED
  BY <1>1, <1>2, PTL DEF TxSpec

(* The row locks make the calls of concurrent transactions atomic: whatever  *)
(* the interleaving, rollbacks and deadlocks, the tables go through a        *)
(* behaviour of Wallet (wallet.ts:119-133, 483-499, 546-576).                *)
THEOREM TransactionsRefineWallet == TxSpec => TransactionsAreAtomic
<1>1. TxInit => WalletInit
  BY DEF TxInit
<1>2. TxAll /\ [TxNext]_txVars => [WalletNext]_walletVars
  BY TxStepMeans DEF TxAll
<1>3. QED
  BY <1>1, <1>2, TxAllHolds, PTL DEF TxSpec, WalletSpec, TransactionsAreAtomic

(* Locks are held by running transactions, which have seen rows of their     *)
(* types (wallet.ts:91-391).                                                 *)
THEOREM TransactionTypes == TxSpec => []TxTypeOK
<1>1. TxAll => TxTypeOK
  <2> SUFFICES ASSUME TxAll PROVE TxTypeOK
    OBVIOUS
  <2>1. WalletTypeOK /\ LocksOK /\ tx \in [Txs -> {Idle} \cup Tx]
    BY DEF TxAll, TypeInv, TxInv
  <2>2. Tx \subseteq TxState
    BY TxAssumption DEF Tx, TxState
  <2> QED
    BY <2>1, <2>2 DEF TxTypeOK, LocksOK
<1>2. QED
  BY <1>1, TxAllHolds, PTL

-----------------------------------------------------------------------------
(* The UNIQUE index is never what stops a repeated call.                     *)

UniqueKeys(log) == \A i, k \in DOMAIN log : log[i].key = log[k].key => i = k

LEMMA RowWithNewKey ==
    ASSUME NEW log \in Seq(LedgerRow), UniqueKeys(log), NEW l, l.key \notin KeysOf(log)
    PROVE  UniqueKeys(log \o <<l>>)
<1> DEFINE m == log \o <<l>>
<1>1. /\ DOMAIN log = 1..Len(log) /\ DOMAIN m = 1..(Len(log) + 1) /\ Len(log) \in Nat
      /\ m[Len(log) + 1] = l /\ \A i \in 1..Len(log) : m[i] = log[i]
  OBVIOUS
<1> HIDE DEF m
<1>2. \A i \in 1..Len(log) : m[i].key # l.key
  BY <1>1 DEF KeysOf
<1>3. ASSUME NEW i \in DOMAIN m, NEW k \in DOMAIN m, m[i].key = m[k].key PROVE i = k
  <2>1. CASE i \in 1..Len(log) /\ k \in 1..Len(log)
    BY <1>1, <1>3, <2>1 DEF UniqueKeys
  <2>2. CASE i = Len(log) + 1 \/ k = Len(log) + 1
    <3>1. ~(i \in 1..Len(log) /\ k = Len(log) + 1) /\ ~(k \in 1..Len(log) /\ i = Len(log) + 1)
      BY <1>1, <1>2, <1>3
    <3> QED
      BY <1>1, <2>2, <3>1
  <2> QED
    BY <1>1, <2>1, <2>2
<1>4. QED
  BY <1>3 DEF UniqueKeys, m

LEMMA RowsWithNewKeys ==
    ASSUME NEW log \in Seq(LedgerRow), UniqueKeys(log), NEW s, NEW l,
           s.key \notin KeysOf(log), l.key \notin KeysOf(log), s.key # l.key
    PROVE  UniqueKeys(log \o (<<s>> \o <<l>>))
<1> DEFINE n == Len(log)
           m == log \o (<<s>> \o <<l>>)
<1>1. /\ DOMAIN log = 1..n /\ DOMAIN m = 1..(n + 2) /\ n \in Nat
      /\ m[n + 1] = s /\ m[n + 2] = l /\ \A i \in 1..n : m[i] = log[i]
  OBVIOUS
<1> HIDE DEF m, n
<1>2. \A i \in 1..n : m[i].key # s.key /\ m[i].key # l.key
  BY <1>1 DEF KeysOf
<1>3. ASSUME NEW i \in DOMAIN m, NEW k \in DOMAIN m, m[i].key = m[k].key PROVE i = k
  <2>1. CASE i \in 1..n /\ k \in 1..n
    BY <1>1, <1>3, <2>1 DEF UniqueKeys
  <2>2. CASE i \in 1..n /\ k \notin 1..n
    <3>1. k = n + 1 \/ k = n + 2
      BY <1>1, <2>2
    <3> QED
      BY <1>1, <1>2, <1>3, <2>2, <3>1
  <2>3. CASE k \in 1..n /\ i \notin 1..n
    <3>1. i = n + 1 \/ i = n + 2
      BY <1>1, <2>3
    <3> QED
      BY <1>1, <1>2, <1>3, <2>3, <3>1
  <2>4. CASE i \notin 1..n /\ k \notin 1..n
    <3>1. (i = n + 1 \/ i = n + 2) /\ (k = n + 1 \/ k = n + 2)
      BY <1>1, <2>4
    <3> QED
      BY <1>1, <1>3, <3>1
  <2> QED
    BY <2>1, <2>2, <2>3, <2>4
<1>4. QED
  BY <1>3 DEF UniqueKeys, m

(* A key of a job that its reservation has no row of is not in the ledger.   *)
LEMMA KeyIsFree ==
    ASSUME RowsOwned, NEW x \in Jobs, NEW k \in JobKeyKinds, ~hasLedger(ledger, <<k, x>>, x)
    PROVE  <<k, x>> \notin KeysOf(ledger)
BY DEF RowsOwned, Owned, hasLedger, KeysOf

LEMMA ReadyKeys ==
    ASSUME TypeInv, KeysOK, TxInv, NEW t \in Txs,
           At(t, "commit"), tx[t].writes, tx[t].call.op # "adjust"
    PROVE  UniqueKeys(ledger \o NewRows(tx[t]))
<1>0. PICK s \in Tx : /\ s = tx[t] /\ s.wallet = wallet
                      /\ s.call.op \in OnReservation =>
                            /\ s.row = reservation[s.call.job]
                            /\ s.row.status \in OpenStatuses(s.call)
                      /\ s.call.op # "adjust" => ~AlreadyDone(s.call)
  BY ReadyToCommit
<1>1. /\ s = tx[t] /\ s.wallet = wallet /\ ~AlreadyDone(s.call) /\ s.call.op # "adjust"
      /\ s.call.op \in OnReservation =>
            s.row = reservation[s.call.job] /\ s.row.status \in OpenStatuses(s.call)
  BY <1>0
<1>2. ledger \in Seq(LedgerRow) /\ UniqueKeys(ledger) /\ RowsOwned /\ KeysUsed
  BY DEF TypeInv, WalletTypeOK, KeysOK, Commits, UniqueKeys
<1>3. s.call \in Calls
  BY DEF Tx
<1>4. CASE s.call.op = "reserve"
  <2>1. PICK j \in Jobs : j = s.call.job
    BY <1>3, <1>4, CallFacts
  <2>2. PICK l : l = Row("GENERATION_RESERVE", j, KeyOf(s.call), -s.call.credits, wallet, NewWallet(s))
    OBVIOUS
  <2>3. NewRows(s) = <<l>>
    BY <1>1, <1>4, <2>1, <2>2 DEF NewRows, IsRelease
  <2>4. l.key = <<"reserve", j>>
    <3>1. l.key = KeyOf(s.call)
      BY <2>2, RowFields
    <3> QED
      BY <1>4, <2>1, <3>1 DEF KeyOf, IsRelease
  <2>5. reservation[j] = NoRow
    BY <1>1, <1>4, <2>1 DEF AlreadyDone
  <2>6. ~hasLedger(ledger, <<"reserve", j>>, j) /\ "reserve" \in JobKeyKinds
    <3>1. "reserve" \in JobKeyKinds
      BY DEF JobKeyKinds
    <3>2. hasLedger(ledger, <<"reserve", j>>, j) => reservation[j].status # "NONE"
      BY <1>2, <3>1 DEF KeysUsed
    <3> QED
      BY <2>5, <3>1, <3>2 DEF NoRow
  <2>7. l.key \notin KeysOf(ledger)
    BY <1>2, <2>4, <2>6, KeyIsFree
  <2> QED
    BY <1>1, <1>2, <2>3, <2>7, RowWithNewKey
<1>5. CASE s.call.op = "capture"
  <2>1. PICK j \in Jobs : j = s.call.job
    BY <1>3, <1>5, CallFacts
  <2>2. PICK c : c = computeCapture(s.row, s.call.credits)
    OBVIOUS
  <2>3. PICK p : p = Row("GENERATION_SETTLE", j, <<"settle", j>>, 0, wallet, NewWallet(s))
    OBVIOUS
  <2>4. PICK l : l = Row("GENERATION_RELEASE", j, <<"settle:release", j>>, c.release, wallet, NewWallet(s))
    OBVIOUS
  <2>5. p.key = <<"settle", j>> /\ l.key = <<"settle:release", j>>
    BY <2>3, <2>4, RowFields
  <2>6. NewRows(s) = <<p>> \o (IF c.release = 0 THEN <<>> ELSE <<l>>)
    <3>1. NewRows(s) = CaptureRows(j, wallet, NewWallet(s), c.release)
      BY <1>1, <1>5, <2>1, <2>2, WritesOfCapture
    <3> QED
      BY <2>3, <2>4, <3>1 DEF CaptureRows
  <2>7. reservation[j].status = "RESERVED" /\ ~hasLedger(ledger, <<"settle", j>>, j)
    <3>1. KeyOf(s.call) = <<"settle", j>> /\ OpenStatuses(s.call) = {"RESERVED"}
      BY <1>5, <2>1 DEF KeyOf, IsRelease, OpenStatuses
    <3>2. hasLedger(ledger, KeyOf(s.call), s.call.job) => AlreadyDone(s.call)
      BY <1>5 DEF AlreadyDone
    <3>3. s.row = reservation[j] /\ s.row.status \in OpenStatuses(s.call)
      BY <1>1, <1>5, <2>1 DEF OnReservation
    <3> QED
      BY <1>1, <2>1, <3>1, <3>2, <3>3
  <2>8. /\ ~hasLedger(ledger, <<"settle:release", j>>, j)
        /\ "settle" \in JobKeyKinds /\ "settle:release" \in JobKeyKinds
    BY <1>2, <2>7 DEF KeysUsed, Closed, JobKeyKinds
  <2>9. p.key \notin KeysOf(ledger) /\ l.key \notin KeysOf(ledger) /\ p.key # l.key
    BY <1>2, <2>5, <2>7, <2>8, KeyIsFree
  <2>10. CASE c.release = 0
    <3>1. NewRows(s) = <<p>>
      <4>1. <<p>> \o <<>> = <<p>>
        OBVIOUS
      <4> QED
        BY <2>6, <2>10, <4>1
    <3> QED
      BY <1>1, <1>2, <2>9, <3>1, RowWithNewKey
  <2>11. CASE c.release # 0
    <3>1. NewRows(s) = <<p>> \o <<l>>
      BY <2>6, <2>11
    <3>2. UniqueKeys(ledger \o (<<p>> \o <<l>>))
      BY <1>2, <2>9, RowsWithNewKeys
    <3> QED
      BY <1>1, <3>1, <3>2
  <2> QED
    BY <2>10, <2>11
<1>6. CASE IsRelease(s.call)
  <2>1. PICK j \in Jobs, k \in ReleaseKinds : j = s.call.job /\ k = s.call.kind
    BY <1>3, <1>6, CallFacts DEF IsRelease
  <2>2. PICK l : l = Row("GENERATION_RELEASE", j, KeyOf(s.call), Residual(s.row), wallet, NewWallet(s))
    OBVIOUS
  <2>3. PICK c : c = computeReleaseForJob(s.row)
    OBVIOUS
  <2>4. NewRows(s) = <<l>>
    BY <1>1, <1>6, <2>1, <2>2, <2>3, WritesOfRelease
  <2>5. l.key = KeyOf(s.call)
    BY <2>2, RowFields
  <2>6. KeyOf(s.call) = <<k, j>>
    BY <1>6, <2>1 DEF KeyOf, IsRelease
  <2>7. ~hasLedger(ledger, <<k, j>>, j)
    BY <1>1, <1>6, <2>1, <2>6 DEF AlreadyDone, IsRelease
  <2>8. k \in JobKeyKinds
    BY DEF ReleaseKinds, JobKeyKinds
  <2>9. l.key \notin KeysOf(ledger)
    BY <1>2, <2>5, <2>6, <2>7, <2>8, KeyIsFree
  <2> QED
    BY <1>1, <1>2, <2>4, <2>9, RowWithNewKey
<1>7. CASE s.call.op \in {"recharge", "refund"}
  <2>1. PICK type : type = CASE s.call.op = "recharge" -> "RECHARGE"
                             [] s.call.op = "refund" -> "REFUND"
                             [] s.call.op = "adjust" -> "ADMIN_ADJUSTMENT"
    OBVIOUS
  <2>2. PICK l : l = Row(type, NoJob, KeyOf(s.call), Delta(s.call), wallet, NewWallet(s))
    OBVIOUS
  <2>3. NewRows(s) = <<l>>
    BY <1>1, <1>7, <2>1, <2>2 DEF NewRows, IsRelease
  <2>4. l.key = KeyOf(s.call)
    BY <2>2, RowFields
  <2>5. KeyOf(s.call) \notin KeysOf(ledger)
    BY <1>1, <1>7 DEF AlreadyDone
  <2> QED
    BY <1>1, <1>2, <2>3, <2>4, <2>5, RowWithNewKey
<1>8. QED
  BY <1>1, <1>3, <1>4, <1>5, <1>6, <1>7, CallFacts DEF OnReservation, IsRelease

LEMMA ReadyBalances ==
    ASSUME TypeInv, ReservedIsResiduals, KeysOK, TxInv, NEW t \in Txs,
           At(t, "commit"), tx[t].writes, tx[t].call.op # "adjust", ~Refused(tx[t])
    PROVE  NewWallet(tx[t]).balance >= 0 /\ NewWallet(tx[t]).reserved >= 0
<1>0. PICK s \in Tx : /\ s = tx[t] /\ s.wallet = wallet
                      /\ s.call.op \in OnReservation =>
                            /\ s.row = reservation[s.call.job]
                            /\ s.row.status \in OpenStatuses(s.call)
  BY ReadyToCommit
<1>1. /\ s = tx[t] /\ s.wallet = wallet /\ s.call.op # "adjust"
      /\ s.call.op \in OnReservation =>
            s.row = reservation[s.call.job] /\ s.row.status \in OpenStatuses(s.call)
  BY <1>0
<1>2. /\ s.call \in Calls /\ wallet \in Image /\ wallet.reserved >= 0
      /\ \A j \in Jobs : reservation[j] \in ReservationRow /\ RowShape(reservation[j])
  BY DEF Tx, TypeInv, WalletTypeOK, RowsOK, KeysOK, Commits
<1>3. wallet.balance \in Int /\ wallet.reserved \in Int
  BY <1>2 DEF Image
<1>4. SUFFICES NewWallet(s).balance \in Int /\ NewWallet(s).reserved \in Int
               /\ NewWallet(s).reserved >= 0
  BY <1>1 DEF Refused
<1>5. CASE s.call.op = "reserve"
  <2>1. PICK c \in Credits : c = s.call.credits
    BY <1>2, <1>5, CallFacts
  <2>2. NewWallet(s) = computeReserve(wallet, c)
    BY <1>1, <1>5, <2>1, WritesOfReserve
  <2> QED
    BY <1>2, <1>3, <2>2, WalletAssumption DEF computeReserve
<1>6. CASE s.call.op = "capture"
  <2>1. PICK j \in Jobs, a \in Credits \cup {0} : j = s.call.job /\ a = s.call.credits
    BY <1>2, <1>6, CallFacts
  <2>2. /\ s.row = reservation[j] /\ s.row \in ReservationRow /\ RowShape(s.row)
        /\ s.row.status = "RESERVED" /\ a \in Nat
    <3>1. s.row = reservation[j] /\ s.row.status \in OpenStatuses(s.call)
      BY <1>1, <1>6, <2>1 DEF OnReservation
    <3>2. OpenStatuses(s.call) = {"RESERVED"}
      BY <1>6 DEF OpenStatuses, IsRelease
    <3>3. a \in Nat
      BY WalletAssumption
    <3> QED
      BY <1>2, <3>1, <3>2, <3>3
  <2>3. PICK c : c = computeCapture(s.row, a)
    OBVIOUS
  <2>4. c.remaining = s.row.reserved /\ c.release \in 0..s.row.reserved /\ s.row.reserved \in Nat
    BY <2>2, <2>3, CaptureFacts DEF ReservationRow
  <2>5. NewWallet(s) = unreserve(wallet, c.remaining, c.release)
    BY <1>1, <1>6, <2>1, <2>3, WritesOfCapture
  <2>6. s.row.reserved <= wallet.reserved
    <3>1. Residual(s.row) <= wallet.reserved
      BY <2>2, ResidualInPool
    <3> QED
      BY <2>2, <2>4, <3>1 DEF RowShape, Residual, ReservationRow
  <2> QED
    BY <1>3, <2>4, <2>5, <2>6 DEF unreserve
<1>7. CASE IsRelease(s.call)
  <2>1. PICK j \in Jobs : j = s.call.job
    BY <1>2, <1>7, CallFacts DEF IsRelease
  <2>2. /\ s.row = reservation[j] /\ s.row \in ReservationRow /\ RowShape(s.row)
        /\ s.row.status \in {"RESERVED", "CAPTURED"}
    BY <1>1, <1>2, <1>7, <2>1 DEF OnReservation, OpenStatuses, IsRelease
  <2>3. PICK c : c = computeReleaseForJob(s.row)
    OBVIOUS
  <2>4. c.release = Residual(s.row) /\ c.release \in Nat
    BY <2>2, <2>3, ReleaseFacts
  <2>5. NewWallet(s) = unreserve(wallet, c.release, c.release)
    BY <1>1, <1>7, <2>3, WritesOfRelease
  <2>6. Residual(s.row) <= wallet.reserved
    BY <2>2, ResidualInPool
  <2> QED
    BY <1>3, <2>4, <2>5, <2>6 DEF unreserve
<1>8. CASE s.call.op \in {"recharge", "refund"}
  <2>1. PICK a \in Amounts : a = s.call.credits
    BY <1>2, <1>8, CallFacts
  <2>2. PICK d \in Int : d = Delta(s.call)
    <3>1. a \in Int /\ -a \in Int
      BY WalletAssumption
    <3> QED
      BY <1>8, <2>1, <3>1 DEF Delta
  <2>3. NewWallet(s) = [wallet EXCEPT !.balance = @ + d]
    BY <1>1, <1>8, <2>2 DEF NewWallet, IsRelease
  <2> QED
    BY <1>2, <1>3, <2>3 DEF Image
<1>9. QED
  BY <1>1, <1>2, <1>5, <1>6, <1>7, <1>8, CallFacts DEF OnReservation, IsRelease

(* What the locked reads allow, the constraints allow: a repeated call       *)
(* returns early and never runs into the UNIQUE index, and no CHECK on the   *)
(* reserved pool aborts a settlement (wallet.ts:119-122, 548-551).           *)
THEOREM RepeatedCallsReturnEarly == TxSpec => []RepeatsReturnEarly
<1>1. TxAll => RepeatsReturnEarly
  BY ReadyKeys, ReadyBalances DEF TxAll, RepeatsReturnEarly, Commits, UniqueKeys
<1>2. QED
  BY <1>1, TxAllHolds, PTL

-----------------------------------------------------------------------------
(* Transactions that wait for each other.                                    *)

(* The order in which every transaction but the handler's takes its locks.   *)
Rank(l) == CASE l[1] = "job" -> 1 [] l[1] = "reservation" -> 2 [] l[1] = "wallet" -> 3

HoldsBelow(t, r) == \A l \in Locks : lock[l] = t => Rank(l) < r

(* A lock still to be taken ranks higher than those that are held.           *)
InOrder(t, s) ==
    s.call.op # "release in handler" =>
        /\ s.todo = <<"job", "reservation", "lookup", "wallet", "commit">> => HoldsBelow(t, 1)
        /\ s.todo = <<"reservation", "lookup", "wallet", "commit">> => HoldsBelow(t, 2)
        /\ s.todo \in {<<"lookup", "wallet", "commit">>, <<"wallet", "commit">>,
                       <<"wallet", "lookup", "commit">>} => HoldsBelow(t, 3)

OrderInv == \A t \in Txs : tx[t] # Idle => InOrder(t, tx[t])

LEMMA RankFacts ==
    /\ Rank(WalletLock) = 3
    /\ \A j \in Jobs : Rank(<<"reservation", j>>) = 2 /\ Rank(<<"job", j>>) = 1
    /\ \A l \in Locks : Rank(l) \in 1..3
BY DEF Rank, WalletLock, Locks

(* A step of one transaction leaves the order of the others alone.           *)
LEMMA OrderStep ==
    ASSUME TxInv, OrderInv, NEW t \in Txs, NEW s, tx' = [tx EXCEPT ![t] = s],
           s = Idle \/ InOrder(t, s)',
           \A l \in Locks, u \in Txs : u # t => (lock'[l] = u <=> lock[l] = u)
    PROVE  OrderInv'
<1>1. ASSUME NEW u \in Txs, tx'[u] # Idle PROVE InOrder(u, tx[u])'
  <2>1. CASE u = t
    <3>1. tx'[u] = s /\ s # Idle
      BY <1>1, <2>1 DEF TxInv
    <3> QED
      BY <2>1, <3>1 DEF InOrder, HoldsBelow
  <2>2. CASE u # t
    <3>1. tx'[u] = tx[u] /\ InOrder(u, tx[u])
      BY <1>1, <2>2 DEF OrderInv, TxInv
    <3>2. \A r : HoldsBelow(u, r) => HoldsBelow(u, r)'
      BY <2>2 DEF HoldsBelow
    <3> QED
      BY <3>1, <3>2 DEF InOrder
  <2> QED
    BY <2>1, <2>2
<1>2. QED
  BY <1>1 DEF OrderInv

LEMMA ShortPlans ==
    ASSUME NEW p, p = <<"commit">> \/ p = <<"lookup", "commit">>
    PROVE  /\ p # <<"job", "reservation", "lookup", "wallet", "commit">>
           /\ p # <<"reservation", "lookup", "wallet", "commit">>
           /\ p \notin {<<"lookup", "wallet", "commit">>, <<"wallet", "commit">>,
                        <<"wallet", "lookup", "commit">>}
OBVIOUS

LEMMA LongPlans ==
    LET J == <<"job", "reservation", "lookup", "wallet", "commit">>
        R == <<"reservation", "lookup", "wallet", "commit">>
        W == {<<"lookup", "wallet", "commit">>, <<"wallet", "commit">>,
              <<"wallet", "lookup", "commit">>}
    IN  J # R /\ J \notin W /\ R \notin W
OBVIOUS

(* Nothing is left to be locked.                                             *)
LEMMA OrderAtEnd ==
    ASSUME NEW t, NEW s,
           s.todo = <<"commit">> \/ s.todo = <<"lookup", "commit">>
              \/ s.call.op = "release in handler"
    PROVE  InOrder(t, s)'
<1>1. CASE s.call.op = "release in handler"
  BY <1>1 DEF InOrder
<1>2. CASE s.todo = <<"commit">> \/ s.todo = <<"lookup", "commit">>
  BY <1>2, ShortPlans, Zenon DEF InOrder
<1>3. QED
  BY <1>1, <1>2

LEMMA OrderAfterReturn ==
    ASSUME TxInv, OrderInv, NEW t \in Txs, Running(t), ReturnEarly(t),
           \A l \in Locks, u \in Txs : u # t => (lock'[l] = u <=> lock[l] = u)
    PROVE  OrderInv'
<1>1. PICK s : s = [tx[t] EXCEPT !.todo = Enclosing(tx[t].call), !.writes = FALSE]
  OBVIOUS
<1>2. s.todo = Enclosing(s.call)
  BY <1>1, TxAt DEF Tx
<1>3. InOrder(t, s)'
  BY <1>2, OrderAtEnd DEF Enclosing
<1>4. QED
  BY <1>1, <1>3, OrderStep DEF ReturnEarly

LEMMA OrderAtBegin ==
    ASSUME TxInv, OrderInv, NEW t \in Txs, NEW c \in Calls, Begin(t, c) PROVE OrderInv'
<1>1. PICK s : s = [todo |-> Script(c), call |-> c, writes |-> TRUE, wallet |-> wallet, row |-> NoRow]
  OBVIOUS
<1>2. tx' = [tx EXCEPT ![t] = s] /\ lock' = lock
  BY <1>1 DEF Begin
<1>3. \A l \in Locks : lock'[l] # t
  <2>1. ~Running(t) /\ LocksOK /\ t # Free
    BY TxAssumption DEF Begin, TxInv
  <2> QED
    BY <1>2, <2>1, Zenon DEF LocksOK
<1>4. InOrder(t, s)'
  BY <1>3 DEF InOrder, HoldsBelow
<1>5. QED
  BY <1>2, <1>4, OrderStep

(* No other lock is taken.                                                   *)
LEMMA GrantAdds ==
    ASSUME TxInv, NEW t \in Txs, Grant(t), NEW k \in Locks, k = LockFor(t)
    PROVE  \A l \in Locks : lock'[l] = t => lock[l] = t \/ l = k
BY DEF Grant, TxInv, LocksOK

LEMMA OrderAtLockJob ==
    ASSUME TxInv, OrderInv, NEW t \in Txs, LockJob(t) PROVE OrderInv'
<1>1. Running(t) /\ Head(tx[t].todo) = "job" /\ Grant(t) /\ Advance(t)
  BY DEF LockJob, At
<1>2. PICK s \in Tx : s = tx[t] /\ Planned(s) /\ Head(s.todo) = "job"
  BY <1>1, TxAt
<1>3. AtJob(s) /\ s.todo # <<>> /\ s.call.job \in Jobs
  BY <1>2, PlanHeads, PlannedRuns, CallFacts DEF AtJob, OnReservation, Tx
<1>4. PICK k \in Locks : k = LockFor(t) /\ k = <<"job", s.call.job>>
  <2>1. LockFor(t) = <<"job", s.call.job>>
    BY <1>1, <1>2, Zenon DEF LockFor, At
  <2> QED
    BY <1>3, <2>1 DEF Locks
<1>5. PICK s2 \in Tx : s2 = Past(s) /\ s2.todo = Tail(s.todo) /\ s2.call = s.call
  BY <1>3, PastFacts
<1>6. InOrder(t, s2)'
  <2>1. CASE s.todo = <<"job", "commit">> /\ s.call.op = "release in handler"
    BY <1>5, <2>1, OrderAtEnd
  <2>2. CASE s.todo = <<"job", "reservation", "lookup", "wallet", "commit">>
             /\ s.call.op \in {"capture", "release"}
    <3>1. HoldsBelow(t, 1)
      BY <1>2, <2>2, PlannedRuns DEF OrderInv, InOrder
    <3>2. HoldsBelow(t, 2)'
      <4>1. Rank(k) = 1
        BY <1>3, <1>4, RankFacts
      <4>2. \A l \in Locks : lock'[l] = t => lock[l] = t \/ l = k
        BY <1>1, <1>4, GrantAdds
      <4> QED
        BY <3>1, <4>1, <4>2, RankFacts DEF HoldsBelow
    <3>3. s2.todo = <<"reservation", "lookup", "wallet", "commit">>
      BY <1>5, <2>2, PlanTail
    <3> QED
      BY <3>2, <3>3, LongPlans, Zenon DEF InOrder
  <2> QED
    BY <1>3, <2>1, <2>2 DEF AtJob
<1>7. tx' = [tx EXCEPT ![t] = s2]
  BY <1>1, <1>2, <1>5 DEF Advance
<1>8. QED
  BY <1>1, <1>4, <1>6, <1>7, GrantFacts, OrderStep

LEMMA OrderAtLockReservation ==
    ASSUME TxInv, OrderInv, NEW t \in Txs, LockReservation(t) PROVE OrderInv'
<1>1. Running(t) /\ Head(tx[t].todo) = "reservation"
  BY DEF LockReservation, At
<1>2. PICK s \in Tx : s = tx[t] /\ Planned(s) /\ Head(s.todo) = "reservation"
  BY <1>1, TxAt
<1>3. AtReservation(s) /\ s.todo # <<>> /\ s.call.job \in Jobs
  BY <1>2, PlanHeads, PlannedRuns, CallFacts DEF AtReservation, OnReservation, Tx
<1>4. PICK k \in Locks : k = LockFor(t) /\ k = <<"reservation", s.call.job>>
  <2>1. LockFor(t) = <<"reservation", s.call.job>>
    BY <1>1, <1>2, Zenon DEF LockFor, At
  <2> QED
    BY <1>3, <2>1 DEF Locks
<1>5. CASE ReturnEarly(t) /\ (lock' = lock \/ Grant(t))
  BY <1>1, <1>4, <1>5, GrantFacts, OrderAfterReturn
<1>6. ASSUME NEW row, Grant(t), tx' = [tx EXCEPT ![t] = ReadRow(tx[t], row)]
      PROVE  OrderInv'
  <2>1. PICK s2 : s2 = ReadRow(s, row)
    OBVIOUS
  <2>2. s2.todo = Tail(s.todo) /\ s2.call = s.call
    BY <1>3, <2>1, PastFacts DEF ReadRow, Tx
  <2>3. InOrder(t, s2)'
    <3>1. CASE s.call.op = "release in handler"
      BY <2>2, <3>1, OrderAtEnd
    <3>2. CASE s.todo = <<"reservation", "lookup", "wallet", "commit">>
               /\ s.call.op \in {"capture", "release"}
      <4>1. HoldsBelow(t, 2)
        BY <1>2, <3>2, PlannedRuns DEF OrderInv, InOrder
      <4>2. Rank(k) = 2
        BY <1>3, <1>4, RankFacts
      <4>3. HoldsBelow(t, 3)'
        <5>1. \A l \in Locks : lock'[l] = t => lock[l] = t \/ l = k
          BY <1>4, <1>6, GrantAdds
        <5> QED
          BY <4>1, <4>2, <5>1, RankFacts DEF HoldsBelow
      <4>4. s2.todo = <<"lookup", "wallet", "commit">>
        BY <2>2, <3>2, PlanTail
      <4> QED
        BY <4>3, <4>4, LongPlans, Zenon DEF InOrder
    <3> QED
      BY <1>3, <3>1, <3>2 DEF AtReservation
  <2> QED
    BY <1>2, <1>4, <1>6, <2>1, <2>3, GrantFacts, OrderStep
<1>7. QED
  BY <1>5, <1>6, Zenon DEF LockReservation

LEMMA OrderAtLockWallet ==
    ASSUME TypeInv, TxInv, OrderInv, NEW t \in Txs, LockWallet(t) PROVE OrderInv'
<1>1. Running(t) /\ Head(tx[t].todo) = "wallet" /\ Grant(t)
  BY DEF LockWallet, At
<1>2. PICK s \in Tx : s = tx[t] /\ Planned(s) /\ Head(s.todo) = "wallet"
  BY <1>1, TxAt
<1>3. AtWallet(s) /\ s.todo # <<>>
  BY <1>2, PlanHeads, PlannedRuns
<1>4. PICK k \in Locks : k = LockFor(t)
  BY <1>1, Zenon DEF LockFor, At, Locks
<1>5. PICK s2 : s2 = ReadWallet(s, wallet)
  OBVIOUS
<1>6. s2.todo = Tail(s.todo) /\ s2.call = s.call
  BY <1>3, <1>5, PastWallet DEF TypeInv, WalletTypeOK
<1>7. InOrder(t, s2)'
  BY <1>3, <1>6, PlanTail, OrderAtEnd DEF AtWallet
<1>8. QED
  BY <1>1, <1>2, <1>4, <1>5, <1>7, GrantFacts, OrderStep DEF LockWallet

LEMMA OrderAtLookup ==
    ASSUME TxInv, OrderInv, NEW t \in Txs, Lookup(t) PROVE OrderInv'
<1>1. Running(t) /\ Head(tx[t].todo) = "lookup" /\ lock' = lock
  BY DEF Lookup, At
<1>2. PICK s \in Tx : s = tx[t] /\ Planned(s) /\ Head(s.todo) = "lookup"
  BY <1>1, TxAt
<1>3. AtLookup(s) /\ s.todo # <<>>
  BY <1>2, PlanHeads, PlannedRuns
<1>4. CASE ReturnEarly(t)
  BY <1>1, <1>4, OrderAfterReturn
<1>5. CASE Advance(t)
  <2>1. PICK s2 \in Tx : s2 = Past(s) /\ s2.todo = Tail(s.todo) /\ s2.call = s.call
    BY <1>3, PastFacts
  <2>2. InOrder(t, s2)'
    <3>1. CASE s.todo = <<"lookup", "commit">> \/ s.call.op = "release in handler"
      BY <2>1, <3>1, PlanTail, OrderAtEnd
    <3>2. CASE s.todo = <<"lookup", "wallet", "commit">>
               /\ s.call.op \in {"capture", "release"}
      <4>1. HoldsBelow(t, 3)'
        BY <1>1, <1>2, <3>2, PlannedRuns DEF OrderInv, InOrder, HoldsBelow
      <4>2. s2.todo = <<"wallet", "commit">>
        BY <2>1, <3>2, PlanTail
      <4> QED
        BY <4>1, <4>2, LongPlans, Zenon DEF InOrder
    <3> QED
      BY <1>3, <3>1, <3>2 DEF AtLookup
  <2> QED
    BY <1>1, <1>2, <1>5, <2>1, <2>2, OrderStep DEF Advance
<1>6. QED
  BY <1>4, <1>5 DEF Lookup

LEMMA OrderNext == TypeInv /\ TxInv /\ OrderInv /\ [TxNext]_txVars => OrderInv'
<1>1. SUFFICES ASSUME TypeInv, TxInv, OrderInv, [TxNext]_txVars PROVE OrderInv'
  OBVIOUS
<1>2. CASE UNCHANGED txVars
  BY <1>1, <1>2 DEF txVars, OrderInv, InOrder, HoldsBelow
<1>3. ASSUME NEW t \in Txs, NEW call \in Calls, Begin(t, call) PROVE OrderInv'
  BY <1>1, <1>3, OrderAtBegin
<1>4. ASSUME NEW t \in Txs,
             CaptureThrows(t) \/ Commit(t) \/ CommitNothing(t) \/ Rollback(t)
      PROVE  OrderInv'
  <2>1. tx' = [tx EXCEPT ![t] = Idle] /\ lock' = LocksWithout(t)
    BY <1>4, Zenon DEF CaptureThrows, Commit, CommitNothing, Rollback, End
  <2>2. \A l \in Locks, u \in Txs : u # t => (lock'[l] = u <=> lock[l] = u)
    BY <1>1, <2>1, TxAssumption DEF LocksWithout, TxInv, LocksOK
  <2> QED
    BY <1>1, <2>1, <2>2, OrderStep
<1>5. ASSUME NEW t \in Txs, LockJob(t) PROVE OrderInv'
  BY <1>1, <1>5, OrderAtLockJob
<1>6. ASSUME NEW t \in Txs, LockReservation(t) PROVE OrderInv'
  BY <1>1, <1>6, OrderAtLockReservation
<1>7. ASSUME NEW t \in Txs, LockWallet(t) PROVE OrderInv'
  BY <1>1, <1>7, OrderAtLockWallet
<1>8. ASSUME NEW t \in Txs, Lookup(t) PROVE OrderInv'
  BY <1>1, <1>8, OrderAtLookup
<1>9. QED
  BY <1>1, <1>2, <1>3, <1>4, <1>5, <1>6, <1>7, <1>8, Zenon DEF TxNext, Step

(* Whoever waits without being the handler waits for a lock that ranks below *)
(* the one its holder, if that waits as well, is waiting for.                *)
LEMMA WaitsUpwards ==
    ASSUME TxInv, OrderInv, NEW t \in Txs, NEW u \in Txs, Waits(t, u), Wants(u),
           tx[u].call.op # "release in handler"
    PROVE  Rank(LockFor(t)) \in 1..3 /\ Rank(LockFor(u)) \in 1..3
           /\ Rank(LockFor(t)) < Rank(LockFor(u))
<1>1. ASSUME NEW w \in Txs, Wants(w) PROVE LockFor(w) \in Locks
  <2>1. PICK s \in Tx : s = tx[w] /\ Planned(s)
    BY <1>1, TxAt DEF Wants
  <2>2. CASE Head(s.todo) = "wallet"
    BY <1>1, <2>1, <2>2 DEF LockFor, At, Wants, Locks
  <2>3. CASE Head(s.todo) \in {"job", "reservation"}
    <3>1. s.call.job \in Jobs
      BY <2>1, <2>3, PlanHeads, CallFacts DEF AtJob, AtReservation, OnReservation, Tx
    <3>2. LockFor(w) = <<Head(s.todo), s.call.job>>
      BY <2>1, <2>3 DEF LockFor, At
    <3>3. <<Head(s.todo), s.call.job>> \in {"reservation", "job"} \X Jobs
      BY <2>3, <3>1
    <3> QED
      BY <3>2, <3>3, Zenon DEF Locks
  <2> QED
    BY <1>1, <2>1, <2>2, <2>3 DEF Wants
<1>2. PICK s \in Tx : s = tx[u] /\ Planned(s) /\ Running(u) /\ InOrder(u, s)
  BY TxAt, PlannedRuns DEF Wants, OrderInv
<1>3. HoldsBelow(u, Rank(LockFor(u)))
  <2>1. CASE Head(s.todo) = "wallet"
    <3>1. LockFor(u) = WalletLock
      BY <1>2, <2>1 DEF LockFor, At
    <3>2. HoldsBelow(u, 3)
      BY <1>2, <2>1, PlanHeads DEF AtWallet, InOrder
    <3> QED
      BY <3>1, <3>2, RankFacts
  <2>2. CASE Head(s.todo) = "reservation"
    <3>1. LockFor(u) = <<"reservation", s.call.job>> /\ s.call.job \in Jobs
      BY <1>2, <2>2, PlanHeads, CallFacts DEF LockFor, At, AtReservation, OnReservation, Tx
    <3>2. HoldsBelow(u, 2)
      BY <1>2, <2>2, PlanHeads DEF AtReservation, InOrder
    <3> QED
      BY <3>1, <3>2, RankFacts
  <2>3. CASE Head(s.todo) = "job"
    <3>1. LockFor(u) = <<"job", s.call.job>> /\ s.call.job \in Jobs
      BY <1>2, <2>3, PlanHeads, CallFacts DEF LockFor, At, AtJob, OnReservation, Tx
    <3>2. HoldsBelow(u, 1)
      BY <1>2, <2>3, PlanHeads DEF AtJob, InOrder
    <3> QED
      BY <3>1, <3>2, RankFacts
  <2> QED
    BY <1>2, <2>1, <2>2, <2>3 DEF Wants
<1>4. LockFor(t) \in Locks /\ LockFor(u) \in Locks /\ lock[LockFor(t)] = u
  BY <1>1 DEF Waits
<1>5. QED
  BY <1>3, <1>4, RankFacts DEF HoldsBelow

(* Whatever ends a job without the worker's failed handler never deadlocks,  *)
(* in however long a cycle of waiting transactions (main.ts:200-231,         *)
(* wallet.ts:209-240, 318-341).                                              *)
THEOREM OnlyTheHandlerDeadlocks == TxSpec => []DeadlocksAreOfHandler
<1>1. TxInit => OrderInv
  BY DEF TxInit, OrderInv
<1>2. TxAll /\ OrderInv /\ [TxNext]_txVars => OrderInv'
  BY OrderNext DEF TxAll
<1>3. TxAll /\ OrderInv => DeadlocksAreOfHandler
  <2>1. SUFFICES ASSUME TxInv, OrderInv, NEW S \in SUBSET Txs, WaitForEachOther(S),
                        \A t \in S : tx[t].call.op # "release in handler"
                 PROVE  FALSE
    BY DEF DeadlocksAreOfHandler, TxAll
  <2>2. \A t \in S : \E u \in S : Waits(t, u) /\ Wants(t) /\ Wants(u)
    BY <2>1 DEF WaitForEachOther, Waits
  <2>3. \A t \in S : \E u \in S :
            /\ Rank(LockFor(t)) \in 1..3 /\ Rank(LockFor(u)) \in 1..3
            /\ Rank(LockFor(t)) < Rank(LockFor(u))
    BY <2>1, <2>2, WaitsUpwards
  <2>4. PICK t1 \in S : TRUE
    BY <2>1 DEF WaitForEachOther
  <2>5. PICK t2 \in S : /\ Rank(LockFor(t1)) \in 1..3 /\ Rank(LockFor(t2)) \in 1..3
                        /\ Rank(LockFor(t1)) < Rank(LockFor(t2))
    BY <2>3, <2>4
  <2>6. PICK t3 \in S : Rank(LockFor(t3)) \in 1..3 /\ Rank(LockFor(t2)) < Rank(LockFor(t3))
    BY <2>3, <2>5
  <2>7. PICK t4 \in S : Rank(LockFor(t4)) \in 1..3 /\ Rank(LockFor(t3)) < Rank(LockFor(t4))
    BY <2>3, <2>6
  <2> QED
    BY <2>5, <2>6, <2>7
<1>4. QED
  BY <1>1, <1>2, <1>3, TxAllHolds, PTL DEF TxSpec

=============================================================================
