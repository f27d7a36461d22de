---------------------------- MODULE WalletProofs ----------------------------
(* Theorems about Wallet for every number of jobs, every set of amounts and  *)
(* references, and histories of every length.                                *)
EXTENDS Wallet, WalletDrift, TLAPS, WellFoundedInduction

-----------------------------------------------------------------------------
(* Facts about SumTo that hold for every function and every length.          *)

(* A set of naturals that is not empty has a least element.                  *)
LEMMA LeastNatural ==
    ASSUME NEW T, T \subseteq Nat, T # {}
    PROVE  \E m \in T : \A k \in T : m <= k
<1>1. PICK m \in T : \A k \in T : ~ (<<k, m>> \in OpToRel(<, Nat))
  BY NatLessThanWellFounded, WFMin
<1>2. ASSUME NEW k \in T PROVE m <= k
  <2>1. ~ (<<k, m>> \in OpToRel(<, Nat))
    BY <1>1
  <2>2. k \in Nat /\ m \in Nat
    OBVIOUS
  <2>3. ~ (k < m)
    BY <2>1, <2>2, Zenon DEF OpToRel
  <2> QED
    BY <2>2, <2>3
<1>3. QED
  BY <1>2

(* Partial sums exist: extend those of the longest prefix that has them.     *)
LEMMA PartialSumExists ==
    ASSUME NEW n \in Nat, NEW f, \A i \in 1..n : f[i] \in Int
    PROVE  \E p \in [0..n -> Int] : IsPartialSum(p, f, n)
<1> DEFINE Has(m) == \E p \in [0..m -> Int] : IsPartialSum(p, f, m)
           T == {m \in 0..n : ~Has(m)}
<1>1. SUFFICES ASSUME T # {} PROVE FALSE
  OBVIOUS
<1>2. PICK m \in T : \A k \in T : m <= k
  <2>1. T \subseteq Nat
    OBVIOUS
  <2> HIDE DEF T
  <2> QED
    BY <1>1, <2>1, LeastNatural
<1>3. CASE m = 0
  <2> DEFINE p == [i \in 0..0 |-> 0]
  <2>1. p \in [0..0 -> Int] /\ IsPartialSum(p, f, 0)
    BY DEF IsPartialSum
  <2> QED
    BY <1>2, <1>3, <2>1
<1>4. CASE m > 0
  <2>1. m - 1 \in 0..n /\ m \in 1..n /\ m-1 \notin T
    BY <1>2, <1>4
  <2>2. PICK p \in [0..(m-1) -> Int] : IsPartialSum(p, f, m-1)
    BY <2>1
  <2> DEFINE q == [i \in 0..m |-> IF i = m THEN p[m-1] + f[m] ELSE p[i]]
  <2>3. q \in [0..m -> Int]
    BY <2>1
  <2>4. IsPartialSum(q, f, m)
    BY <2>1, <2>2 DEF IsPartialSum
  <2> QED
    BY <1>2, <2>3, <2>4
<1>5. QED
  BY <1>2, <1>3, <1>4

(* They are unique: look at the first index where two of them differ.        *)
LEMMA PartialSumUnique ==
    ASSUME NEW n \in Nat, NEW f, NEW p, NEW q,
           IsPartialSum(p, f, n), IsPartialSum(q, f, n)
    PROVE  \A i \in 0..n : p[i] = q[i]
<1> DEFINE T == {i \in 0..n : p[i] # q[i]}
<1>1. SUFFICES ASSUME T # {} PROVE FALSE
  OBVIOUS
<1>2. PICK m \in T : \A k \in T : m <= k
  <2>1. T \subseteq Nat
    OBVIOUS
  <2> HIDE DEF T
  <2> QED
    BY <1>1, <2>1, LeastNatural
<1>3. m # 0 /\ m \in 1..n
  BY <1>2 DEF IsPartialSum
<1>4. m - 1 \in 0..n /\ m - 1 \notin T
  BY <1>2, <1>3
<1>5. p[m-1] = q[m-1]
  BY <1>4
<1>6. QED
  BY <1>2, <1>3, <1>5 DEF IsPartialSum

(* SumTo is the last of the partial sums, whatever way they were found.      *)
THEOREM SumToIsPartialSum ==
    ASSUME NEW n \in Nat, NEW f, \A i \in 1..n : f[i] \in Int,
           NEW p, IsPartialSum(p, f, n)
    PROVE  SumTo(f, n) = p[n]
<1> DEFINE Rec(g) == [i \in 0..n |-> IF i = 0 THEN 0 ELSE g[i-1] + f[i]]
           s == CHOOSE g : g = Rec(g)
<1>1. PICK r \in [0..n -> Int] : IsPartialSum(r, f, n)
  BY PartialSumExists
<1>2. r = Rec(r)
  BY <1>1 DEF IsPartialSum
<1>3. s = Rec(s)
  <2>1. \E g : g = Rec(g)
    BY <1>2
  <2> HIDE DEF Rec
  <2> QED
    BY <2>1
<1>4. IsPartialSum(s, f, n)
  <2> HIDE DEF s
  <2> QED
    BY <1>3 DEF IsPartialSum
<1>5. SumTo(f, n) = s[n]
  BY DEF SumTo
<1>6. s[n] = p[n]
  BY <1>4, PartialSumUnique
<1>7. QED
  BY <1>5, <1>6

(* A sum of integers is an integer.                                          *)
THEOREM SumToInt ==
    ASSUME NEW n \in Nat, NEW f, \A i \in 1..n : f[i] \in Int
    PROVE  SumTo(f, n) \in Int
<1>1. PICK p \in [0..n -> Int] : IsPartialSum(p, f, n)
  BY PartialSumExists
<1>2. QED
  BY <1>1, SumToIsPartialSum

(* Changing one element by d changes the sum by d.                           *)
THEOREM SumToUpdate ==
    ASSUME NEW n \in Nat, NEW f, \A i \in 1..n : f[i] \in Int,
           NEW j \in 1..n, NEW d \in Int,
           NEW g, \A i \in 1..n : g[i] = IF i = j THEN f[i] + d ELSE f[i]
    PROVE  SumTo(g, n) = SumTo(f, n) + d
<1>1. PICK p \in [0..n -> Int] : IsPartialSum(p, f, n)
  BY PartialSumExists
<1> DEFINE q == [i \in 0..n |-> IF i >= j THEN p[i] + d ELSE p[i]]
<1>2. IsPartialSum(q, g, n)
  <2>1. q[0] = 0
    BY <1>1 DEF IsPartialSum
  <2>2. ASSUME NEW i \in 1..n PROVE q[i] = q[i-1] + g[i]
    <3>1. p[i] = p[i-1] + f[i] /\ p[i-1] \in Int /\ p[i] \in Int /\ i - 1 \in 0..n /\ i \in 0..n
      BY <1>1 DEF IsPartialSum
    <3>2. CASE i = j
      BY <3>1, <3>2
    <3>3. CASE i > j
      BY <3>1, <3>3
    <3>4. CASE i < j
      BY <3>1, <3>4
    <3> QED
      BY <3>2, <3>3, <3>4
  <2> HIDE DEF q
  <2> QED
    BY <2>1, <2>2 DEF IsPartialSum
<1>3. \A i \in 1..n : g[i] \in Int
  OBVIOUS
<1>4. SumTo(g, n) = q[n]
  <2> HIDE DEF q
  <2> QED
    BY <1>2, <1>3, SumToIsPartialSum
<1>5. SumTo(f, n) = p[n]
  BY <1>1, SumToIsPartialSum
<1>6. QED
  BY <1>4, <1>5

(* Sums look at nothing but the elements up to n.                            *)
THEOREM SumToSame ==
    ASSUME NEW n \in Nat, NEW f, \A i \in 1..n : f[i] \in Int,
           NEW g, \A i \in 1..n : g[i] = f[i]
    PROVE  SumTo(g, n) = SumTo(f, n)
<1>1. PICK p \in [0..n -> Int] : IsPartialSum(p, f, n)
  BY PartialSumExists
<1>2. IsPartialSum(p, g, n)
  BY <1>1 DEF IsPartialSum
<1>3. \A i \in 1..n : g[i] \in Int
  OBVIOUS
<1>4. QED
  BY <1>1, <1>2, <1>3, SumToIsPartialSum

(* One element more.                                                         *)
THEOREM SumToAppend ==
    ASSUME NEW n \in Nat, NEW f, \A i \in 1..n : f[i] \in Int,
           NEW g, \A i \in 1..n : g[i] = f[i], g[n+1] \in Int
    PROVE  SumTo(g, n+1) = SumTo(f, n) + g[n+1]
<1>1. \A i \in 1..(n+1) : g[i] \in Int
  OBVIOUS
<1>2. PICK p \in [0..(n+1) -> Int] : IsPartialSum(p, g, n+1)
  BY <1>1, PartialSumExists
<1>3. IsPartialSum(p, f, n)
  BY <1>2 DEF IsPartialSum
<1>4. SumTo(f, n) = p[n]
  BY <1>3, SumToIsPartialSum
<1>5. SumTo(g, n+1) = p[n+1]
  BY <1>1, <1>2, SumToIsPartialSum
<1>6. p[n+1] = p[n] + g[n+1]
  BY <1>2 DEF IsPartialSum
<1>7. QED
  BY <1>4, <1>5, <1>6

(* The sum of nothing is zero.                                               *)
THEOREM SumToEmpty == \A f : SumTo(f, 0) = 0
<1>1. SUFFICES ASSUME NEW f PROVE SumTo(f, 0) = 0
  OBVIOUS
<1>2. IsPartialSum([i \in 0..0 |-> 0], f, 0)
  BY DEF IsPartialSum
<1>3. QED
  BY <1>2, SumToIsPartialSum

(* Zeros add up to zero.                                                     *)
THEOREM SumToZero ==
    ASSUME NEW n \in Nat, NEW f, \A i \in 1..n : f[i] = 0
    PROVE  SumTo(f, n) = 0
<1>1. IsPartialSum([i \in 0..n |-> 0], f, n)
  BY DEF IsPartialSum
<1>2. QED
  BY <1>1, SumToIsPartialSum

(* A sum of naturals is at least each of its elements.                       *)
THEOREM SumToBounds ==
    ASSUME NEW n \in Nat, NEW f, \A i \in 1..n : f[i] \in Nat
    PROVE  SumTo(f, n) >= 0 /\ \A j \in 1..n : f[j] <= SumTo(f, n)
<1>1. PICK p \in [0..n -> Int] : IsPartialSum(p, f, n)
  BY PartialSumExists
<1>2. SumTo(f, n) = p[n]
  BY <1>1, SumToIsPartialSum
<1>3. \A i \in 0..n : p[i] >= 0
  <2> DEFINE T == {i \in 0..n : p[i] < 0}
  <2>1. SUFFICES ASSUME T # {} PROVE FALSE
    BY <1>1
  <2>2. PICK m \in T : \A k \in T : m <= k
    <3>1. T \subseteq Nat
      OBVIOUS
    <3> HIDE DEF T
    <3> QED
      BY <2>1, <3>1, LeastNatural
  <2>3. m \in 1..n /\ m - 1 \in 0..n /\ m - 1 \notin T
    BY <1>1, <2>2 DEF IsPartialSum
  <2>4. p[m] = p[m-1] + f[m]
    BY <1>1, <2>3 DEF IsPartialSum
  <2>5. QED
    BY <1>1, <2>2, <2>3, <2>4
<1>4. ASSUME NEW j \in 1..n PROVE f[j] <= p[n]
  <2> DEFINE T == {i \in j..n : p[i] < f[j]}
  <2>1. SUFFICES ASSUME T # {} PROVE FALSE
    BY <1>1
  <2>2. PICK m \in T : \A k \in T : m <= k
    <3>1. T \subseteq Nat
      OBVIOUS
    <3> HIDE DEF T
    <3> QED
      BY <2>1, <3>1, LeastNatural
  <2>3. m \in 1..n /\ p[m] = p[m-1] + f[m] /\ p[m-1] \in Int /\ p[m-1] >= 0
    <3>1. m \in 1..n /\ m - 1 \in 0..n
      BY <2>2
    <3> QED
      BY <1>1, <1>3, <3>1 DEF IsPartialSum
  <2>4. CASE m = j
    BY <2>2, <2>3, <2>4
  <2>5. CASE m > j
    <3>1. m - 1 \in j..n /\ m - 1 \notin T
      BY <2>2, <2>5
    <3> QED
      BY <1>1, <2>2, <2>3, <3>1
  <2>6. QED
    BY <2>2, <2>4, <2>5
<1>5. QED
  BY <1>2, <1>3, <1>4

-----------------------------------------------------------------------------
(* Reservation rows.                                                         *)

(* The shape a row has in each status.  Nothing is half captured: a row that *)
(* is open still holds all of its credits, a row that is closed none.        *)
RowShape(r) ==
    /\ r.status = "NONE" => r = NoRow
    /\ r.status = "RESERVED" => r.captured = 0 /\ r.released = 0 /\ r.reserved > 0
    /\ r.status \in {"CAPTURED", "RELEASED"} => Residual(r) = 0

RowsOK == \A j \in Jobs : RowShape(reservation[j])

-----------------------------------------------------------------------------
(* What the calculations return.                                             *)

(* A capture of an open row keeps its type, closes it, and splits what it    *)
(* held into what is captured and what is released.                          *)
LEMMA CaptureFacts ==
    ASSUME NEW r \in ReservationRow, RowShape(r), r.status = "RESERVED", NEW a \in Nat
    PROVE  LET c == computeCapture(r, a)
           IN  /\ c.row \in ReservationRow
               /\ RowShape(c.row)
               /\ c.row.status = "CAPTURED"
               /\ c.row.reserved = r.reserved
               /\ Residual(c.row) = 0
               /\ c.remaining = r.reserved
               /\ c.release \in 0..r.reserved
               /\ c.row.released = c.release
               /\ c.row.captured = r.reserved - c.release
<1> DEFINE take == Min2(a, r.reserved)
           row == [status |-> "CAPTURED", reserved |-> r.reserved,
                   captured |-> r.captured + take,
                   released |-> r.released + (r.reserved - take)]
<1>1. Residual(r) = r.reserved /\ r.captured = 0 /\ r.released = 0 /\ r.reserved \in Nat
  BY DEF RowShape, ReservationRow, Residual
<1>2. take \in Nat /\ take <= r.reserved
  BY <1>1 DEF Min2
<1>3. computeCapture(r, a) = [row |-> row, remaining |-> r.reserved, release |-> r.reserved - take]
  BY <1>1 DEF computeCapture
<1> HIDE DEF take
<1>4. row \in ReservationRow /\ Residual(row) = 0 /\ RowShape(row)
  BY <1>1, <1>2 DEF ReservationRow, Residual, RowShape
<1>5. QED
  BY <1>1, <1>2, <1>3, <1>4

(* A release of an open row gives everything back; of a captured row nothing. *)
LEMMA ReleaseFacts ==
    ASSUME NEW r \in ReservationRow, RowShape(r), r.status \in {"RESERVED", "CAPTURED"}
    PROVE  LET c == computeReleaseForJob(r)
           IN  /\ c.row \in ReservationRow
               /\ RowShape(c.row)
               /\ c.row.status = "RELEASED"
               /\ c.row.reserved = r.reserved
               /\ c.row.captured = r.captured
               /\ Residual(c.row) = 0
               /\ c.release = Residual(r)
               /\ c.release \in Nat
               /\ r.status = "CAPTURED" => c.row.released = r.released /\ c.release = 0
<1> DEFINE row == [status |-> "RELEASED", reserved |-> r.reserved,
                   captured |-> r.captured, released |-> r.released + Residual(r)]
<1>1. /\ r.reserved \in Nat /\ r.captured \in Nat /\ r.released \in Nat
      /\ Residual(r) \in Nat
      /\ r.status = "CAPTURED" => Residual(r) = 0
  BY DEF RowShape, ReservationRow, Residual
<1>2. row \in ReservationRow /\ Residual(row) = 0 /\ RowShape(row)
  BY <1>1 DEF ReservationRow, Residual, RowShape
<1>3. computeReleaseForJob(r) = [row |-> row, release |-> Residual(r)]
  BY DEF computeReleaseForJob
<1>4. r.status = "CAPTURED" => row.released = r.released
  BY <1>1 DEF ReservationRow
<1> HIDE DEF Residual
<1>5. QED
  BY <1>1, <1>2, <1>3, <1>4

-----------------------------------------------------------------------------
(* Type correctness, with the shape of the rows.                             *)

LEMMA RowTyped ==
    ASSUME NEW type \in {"WELCOME", "GENERATION_RESERVE", "GENERATION_SETTLE",
                         "GENERATION_RELEASE", "RECHARGE", "REFUND", "ADMIN_ADJUSTMENT"},
           NEW j \in Jobs \cup {NoJob}, NEW key \in Key, NEW amount \in Int,
           NEW before \in Image, NEW after \in Image
    PROVE  Row(type, j, key, amount, before, after) \in LedgerRow
BY DEF Row, LedgerRow

TypeInv == WalletTypeOK /\ RowsOK

LEMMA TypeInit == WalletInit => TypeInv
<1> SUFFICES ASSUME WalletInit PROVE TypeInv
  OBVIOUS
<1> USE WalletAssumption
<1>1. wallet \in Image
  BY DEF WalletInit, Image
<1>2. NoRow \in ReservationRow /\ RowShape(NoRow)
  BY DEF NoRow, ReservationRow, RowShape
<1>3. reservation \in [Jobs -> ReservationRow] /\ RowsOK
  BY <1>2 DEF WalletInit, RowsOK
<1>4. ledger \in Seq(LedgerRow)
  <2>1. CASE Welcome = 0
    BY <2>1 DEF WalletInit, WelcomeLedger
  <2>2. CASE Welcome # 0
    <3> DEFINE w == Row("WELCOME", NoJob, <<"welcome", NoJob>>, Welcome,
                        [balance |-> 0, reserved |-> 0], [balance |-> Welcome, reserved |-> 0])
    <3>1. w \in LedgerRow
      <4>1. <<"welcome", NoJob>> \in Key
        BY DEF Key
      <4>2. [balance |-> 0, reserved |-> 0] \in Image /\ [balance |-> Welcome, reserved |-> 0] \in Image
        BY DEF Image
      <4> QED
        BY <4>1, <4>2, RowTyped
    <3>2. ledger = <<w>>
      BY <2>2 DEF WalletInit, WelcomeLedger
    <3> QED
      BY <3>1, <3>2
  <2> QED
    BY <2>1, <2>2
<1>5. QED
  BY <1>1, <1>3, <1>4 DEF TypeInv, WalletTypeOK

LEMMA TypeNext == TypeInv /\ [WalletNext]_walletVars => TypeInv'
<1> SUFFICES ASSUME TypeInv, [WalletNext]_walletVars PROVE TypeInv'
  OBVIOUS
<1> USE WalletAssumption
<1>1. ASSUME NEW j \in Jobs, NEW c \in Credits, ReserveInTx(j, c) PROVE TypeInv'
  <2> DEFINE w == computeReserve(wallet, c)
             row == [status |-> "RESERVED", reserved |-> c, captured |-> 0, released |-> 0]
             l == Row("GENERATION_RESERVE", j, <<"reserve", j>>, -c, wallet, w)
  <2>1. c \in Nat \ {0} /\ wallet \in Image /\ w \in Image
    BY DEF TypeInv, WalletTypeOK, Image, computeReserve
  <2>2. wallet' = w /\ ledger' = Append(ledger, l)
    BY <1>1 DEF ReserveInTx, Write
  <2>3. l \in LedgerRow
    BY <2>1, RowTyped DEF Key, JobKeyKinds
  <2>4. row \in ReservationRow /\ RowShape(row)
    BY <2>1 DEF ReservationRow, RowShape
  <2>5. reservation' = [reservation EXCEPT ![j] = row]
    BY <1>1 DEF ReserveInTx
  <2> HIDE DEF w, row, l
  <2> QED
    BY <2>1, <2>2, <2>3, <2>4, <2>5 DEF TypeInv, WalletTypeOK, RowsOK
<1>2. ASSUME NEW j \in Jobs, NEW a \in Credits \cup {0}, CaptureInTx(j, a) PROVE TypeInv'
  <2> DEFINE c == computeCapture(reservation[j], a)
             w == unreserve(wallet, c.remaining, c.release)
             s == Row("GENERATION_SETTLE", j, <<"settle", j>>, 0, wallet, w)
             l == Row("GENERATION_RELEASE", j, <<"settle:release", j>>, c.release, wallet, w)
  <2>1. a \in Nat /\ reservation[j] \in ReservationRow /\ RowShape(reservation[j])
        /\ reservation[j].status = "RESERVED"
    BY <1>2 DEF TypeInv, WalletTypeOK, RowsOK, CaptureInTx
  <2>2. c.row \in ReservationRow /\ RowShape(c.row) /\ c.release \in Nat /\ c.remaining \in Nat
    BY <2>1, CaptureFacts DEF ReservationRow
  <2>3. wallet \in Image /\ w \in Image
    BY <2>2 DEF TypeInv, WalletTypeOK, Image, unreserve
  <2>4. s \in LedgerRow /\ l \in LedgerRow
    BY <2>2, <2>3, RowTyped DEF Key, JobKeyKinds
  <2>5. CaptureRows(j, wallet, w, c.release) \in Seq(LedgerRow)
    BY <2>4 DEF CaptureRows
  <2>6. wallet' = w /\ ledger' = ledger \o CaptureRows(j, wallet, w, c.release)
        /\ reservation' = [reservation EXCEPT ![j] = c.row]
    BY <1>2 DEF CaptureInTx, Write
  <2> HIDE DEF c, w, s, l
  <2> QED
    BY <2>2, <2>3, <2>5, <2>6 DEF TypeInv, WalletTypeOK, RowsOK
<1>3. ASSUME NEW j \in Jobs, NEW k \in ReleaseKinds, ReleaseInTx(j, k) PROVE TypeInv'
  <2> DEFINE c == computeReleaseForJob(reservation[j])
             w == unreserve(wallet, c.release, c.release)
             l == Row("GENERATION_RELEASE", j, <<k, j>>, c.release, wallet, w)
  <2>1. reservation[j] \in ReservationRow /\ RowShape(reservation[j])
        /\ reservation[j].status \in {"RESERVED", "CAPTURED"}
    BY <1>3 DEF TypeInv, WalletTypeOK, RowsOK, ReleaseInTx
  <2>2. c.row \in ReservationRow /\ RowShape(c.row) /\ c.release \in Nat
    BY <2>1, ReleaseFacts
  <2>3. wallet \in Image /\ w \in Image
    BY <2>2 DEF TypeInv, WalletTypeOK, Image, unreserve
  <2>4. l \in LedgerRow
    BY <2>2, <2>3, RowTyped DEF Key, JobKeyKinds, ReleaseKinds
  <2>5. reservation' = [reservation EXCEPT ![j] = c.row]
        /\ \/ wallet' = wallet /\ ledger' = ledger
           \/ wallet' = w /\ ledger' = Append(ledger, l)
    BY <1>3 DEF ReleaseInTx, Write
  <2> HIDE DEF c, w, l
  <2> QED
    BY <2>2, <2>3, <2>4, <2>5 DEF TypeInv, WalletTypeOK, RowsOK
<1>4. ASSUME NEW type \in {"RECHARGE", "REFUND", "ADMIN_ADJUSTMENT"},
             NEW kind \in RefKeyKinds, NEW r \in Refs, NEW a \in Int, Move(type, <<kind, r>>, a)
      PROVE  TypeInv'
  <2> DEFINE w == [wallet EXCEPT !.balance = @ + a]
             l == Row(type, NoJob, <<kind, r>>, a, wallet, w)
  <2>1. wallet \in Image /\ w \in Image
    BY DEF TypeInv, WalletTypeOK, Image
  <2>2. l \in LedgerRow
    BY <2>1, RowTyped DEF Key
  <2>3. wallet' = w /\ ledger' = Append(ledger, l) /\ reservation' = reservation
    BY <1>4 DEF Move, Write
  <2> HIDE DEF w, l
  <2> QED
    BY <2>1, <2>2, <2>3 DEF TypeInv, WalletTypeOK, RowsOK
<1>5. ASSUME NEW r \in Refs, RepairReservationInvariant(r) PROVE TypeInv'
  <2> DEFINE expected == SumTo(Residuals(reservation), NumJobs)
             w == [wallet EXCEPT !.reserved = expected]
             l == Row("ADMIN_ADJUSTMENT", NoJob, <<"reconcile", r>>, 0, wallet, w)
  <2>0. expected \in Int
    <3>1. \A i \in 1..NumJobs : Residuals(reservation)[i] \in Int
      BY DEF TypeInv, WalletTypeOK, Residuals, Residual, ReservationRow, Jobs
    <3> QED
      BY <3>1, SumToInt
  <2>1. wallet \in Image /\ w \in Image
    BY <2>0 DEF TypeInv, WalletTypeOK, Image
  <2>2. l \in LedgerRow
    <3>1. <<"reconcile", r>> \in Key
      BY DEF Key, RefKeyKinds
    <3> HIDE DEF w
    <3> QED
      BY <2>1, <3>1, RowTyped
  <2>3. wallet' = w /\ ledger' = Append(ledger, l) /\ reservation' = reservation
    BY <1>5 DEF RepairReservationInvariant, Write
  <2> HIDE DEF expected, w, l
  <2> QED
    BY <2>1, <2>2, <2>3 DEF TypeInv, WalletTypeOK, RowsOK
<1>6. CASE UNCHANGED walletVars
  BY <1>6 DEF walletVars, TypeInv, WalletTypeOK, RowsOK
<1>7. ASSUME NEW k \in {"recharge", "grant"}, NEW r \in Refs, NEW c \in Amounts,
             RechargeInTx(k, r, c)
      PROVE  TypeInv'
  BY <1>4, <1>7 DEF RechargeInTx, RefKeyKinds
<1>8. ASSUME NEW r \in Refs, NEW c \in Amounts, RefundCreditsInTx(r, c) PROVE TypeInv'
  <2>1. -c \in Int /\ "refund" \in RefKeyKinds
    BY DEF RefKeyKinds
  <2> QED
    BY <1>4, <1>8, <2>1 DEF RefundCreditsInTx
<1>9. ASSUME NEW r \in Refs, NEW d \in Int, AdjustBalanceInTx(r, d) PROVE TypeInv'
  BY <1>4, <1>9 DEF AdjustBalanceInTx, RefKeyKinds
<1>10. \A c \in Amounts : c \in Int /\ -c \in Int
  OBVIOUS
<1>11. QED
  BY <1>1, <1>2, <1>3, <1>5, <1>6, <1>7, <1>8, <1>9, <1>10 DEF WalletNext

(* The three tables always hold rows of their types, and every reservation   *)
(* row has the shape of its status.                                          *)
THEOREM WalletTypes == WalletSpec => []TypeInv
BY TypeInit, TypeNext, PTL DEF WalletSpec

(* The type invariant the runs check.                                        *)
THEOREM WalletTypesOK == WalletSpec => []WalletTypeOK
<1>1. TypeInv => WalletTypeOK
  BY DEF TypeInv
<1>2. QED
  BY <1>1, WalletTypes, PTL

(* A settled or released reservation holds nothing: its credits are split    *)
(* between what the user paid and what came back (wallet.ts:36-75).          *)
THEOREM ClosedReservationsHoldNothing == WalletSpec => []ClosedHoldsNothing
<1>1. TypeInv => ClosedHoldsNothing
  BY DEF TypeInv, RowsOK, RowShape, ClosedHoldsNothing
<1>2. QED
  BY <1>1, WalletTypes, PTL

-----------------------------------------------------------------------------
(* The reserved pool is the sum of what the open reservations hold.          *)

(* Replacing one reservation moves the sum by the difference of two residuals. *)
LEMMA ResidualsUpdate ==
    ASSUME NEW res \in [Jobs -> ReservationRow], NEW j \in Jobs, NEW row \in ReservationRow
    PROVE  SumTo(Residuals([res EXCEPT ![j] = row]), NumJobs)
               = SumTo(Residuals(res), NumJobs) + (Residual(row) - Residual(res[j]))
<1> DEFINE f == Residuals(res)
           g == Residuals([res EXCEPT ![j] = row])
           d == Residual(row) - Residual(res[j])
<1>1. \A r \in ReservationRow : Residual(r) \in Int
  BY DEF Residual, ReservationRow
<1>2. \A i \in 1..NumJobs : f[i] = Residual(res[i]) /\ f[i] \in Int
  BY <1>1 DEF Residuals, Jobs
<1>3. d \in Int
  BY <1>1
<1>4. \A i \in 1..NumJobs : g[i] = IF i = j THEN f[i] + d ELSE f[i]
  <2> SUFFICES ASSUME NEW i \in 1..NumJobs PROVE g[i] = IF i = j THEN f[i] + d ELSE f[i]
    OBVIOUS
  <2>1. g[i] = Residual([res EXCEPT ![j] = row][i])
    BY DEF Residuals, Jobs
  <2>2. CASE i = j
    <3>1. g[i] = Residual(row) /\ f[i] = Residual(res[j])
      BY <1>2, <2>1, <2>2
    <3>2. Residual(row) \in Int /\ Residual(res[j]) \in Int
      BY <1>1
    <3> HIDE DEF f, g
    <3> QED
      BY <2>2, <3>1, <3>2
  <2>3. CASE i # j
    <3>1. g[i] = Residual(res[i])
      BY <2>1, <2>3 DEF Jobs
    <3> QED
      BY <1>2, <2>3, <3>1
  <2> QED
    BY <2>2, <2>3
<1>5. j \in 1..NumJobs /\ NumJobs \in Nat /\ \A i \in 1..NumJobs : f[i] \in Int
  BY <1>2, WalletAssumption DEF Jobs
<1> HIDE DEF f, g, d
<1>6. SumTo(g, NumJobs) = SumTo(f, NumJobs) + d
  BY <1>3, <1>4, <1>5, SumToUpdate
<1>7. QED
  BY <1>6 DEF f, g, d

(* One action of WalletNext replaces at most one reservation, by a row of    *)
(* its type, and moves the reserved pool by the same number of credits; the  *)
(* repair is the exception.                                                  *)
LEMMA PoolStep ==
    ASSUME TypeInv, [WalletNext]_walletVars
    PROVE  \/ /\ reservation' = reservation
              /\ wallet'.reserved = wallet.reserved
           \/ \E j \in Jobs, row \in ReservationRow :
                 /\ reservation' = [reservation EXCEPT ![j] = row]
                 /\ wallet'.reserved = wallet.reserved + (Residual(row) - Residual(reservation[j]))
           \/ \E r \in Refs : RepairReservationInvariant(r)
<1> USE WalletAssumption
<1>0. wallet \in Image /\ reservation \in [Jobs -> ReservationRow]
  BY DEF TypeInv, WalletTypeOK
<1>1. ASSUME NEW j \in Jobs, NEW c \in Credits, ReserveInTx(j, c)
      PROVE  \E row \in ReservationRow :
                 /\ reservation' = [reservation EXCEPT ![j] = row]
                 /\ wallet'.reserved = wallet.reserved + (Residual(row) - Residual(reservation[j]))
  <2> DEFINE row == [status |-> "RESERVED", reserved |-> c, captured |-> 0, released |-> 0]
  <2>1. row \in ReservationRow /\ Residual(row) = c /\ c \in Nat
    BY DEF ReservationRow, Residual
  <2>2. Residual(reservation[j]) = 0
    BY <1>1 DEF ReserveInTx, NoRow, Residual
  <2>3. wallet'.reserved = wallet.reserved + c /\ reservation' = [reservation EXCEPT ![j] = row]
    BY <1>1 DEF ReserveInTx, Write, computeReserve
  <2> HIDE DEF row
  <2>4. wallet'.reserved = wallet.reserved + (Residual(row) - Residual(reservation[j]))
    BY <1>0, <2>1, <2>2, <2>3 DEF Image
  <2> QED
    BY <2>1, <2>3, <2>4
<1>2. ASSUME NEW j \in Jobs, NEW a \in Credits \cup {0}, CaptureInTx(j, a)
      PROVE  \E row \in ReservationRow :
                 /\ reservation' = [reservation EXCEPT ![j] = row]
                 /\ wallet'.reserved = wallet.reserved + (Residual(row) - Residual(reservation[j]))
  <2> DEFINE c == computeCapture(reservation[j], a)
  <2>1. a \in Nat /\ reservation[j] \in ReservationRow /\ RowShape(reservation[j])
        /\ reservation[j].status = "RESERVED"
    BY <1>0, <1>2 DEF TypeInv, RowsOK, CaptureInTx
  <2>2. c.row \in ReservationRow /\ Residual(c.row) = 0
    BY <2>1, CaptureFacts
  <2>3. c.remaining = Residual(reservation[j]) /\ c.remaining \in Int
    BY <2>1 DEF computeCapture, Residual, ReservationRow
  <2>4. wallet'.reserved = wallet.reserved - c.remaining
        /\ reservation' = [reservation EXCEPT ![j] = c.row]
    BY <1>2 DEF CaptureInTx, Write, unreserve
  <2> HIDE DEF c
  <2>5. wallet'.reserved = wallet.reserved + (Residual(c.row) - Residual(reservation[j]))
    BY <1>0, <2>2, <2>3, <2>4 DEF Image
  <2> QED
    BY <2>2, <2>4, <2>5
<1>3. ASSUME NEW j \in Jobs, NEW k \in ReleaseKinds, ReleaseInTx(j, k)
      PROVE  \E row \in ReservationRow :
                 /\ reservation' = [reservation EXCEPT ![j] = row]
                 /\ wallet'.reserved = wallet.reserved + (Residual(row) - Residual(reservation[j]))
  <2> DEFINE c == computeReleaseForJob(reservation[j])
  <2>1. reservation[j] \in ReservationRow /\ RowShape(reservation[j])
        /\ reservation[j].status \in {"RESERVED", "CAPTURED"}
    BY <1>0, <1>3 DEF TypeInv, RowsOK, ReleaseInTx
  <2>2. c.row \in ReservationRow /\ Residual(c.row) = 0 /\ c.release \in Nat
        /\ c.release = Residual(reservation[j])
    BY <2>1, ReleaseFacts
  <2>3. reservation' = [reservation EXCEPT ![j] = c.row]
        /\ \/ c.release = 0 /\ wallet' = wallet
           \/ wallet'.reserved = wallet.reserved - c.release
    BY <1>3 DEF ReleaseInTx, Write, unreserve
  <2> HIDE DEF c
  <2>4. wallet'.reserved = wallet.reserved + (Residual(c.row) - Residual(reservation[j]))
    BY <1>0, <2>2, <2>3 DEF Image
  <2> QED
    BY <2>2, <2>3, <2>4
<1>4. ASSUME NEW type, NEW key, NEW a, Move(type, key, a)
      PROVE  reservation' = reservation /\ wallet'.reserved = wallet.reserved
  BY <1>0, <1>4 DEF Move, Write, Image
<1>5. QED
  BY <1>1, <1>2, <1>3, <1>4
     DEF WalletNext, walletVars, RechargeInTx, RefundCreditsInTx, AdjustBalanceInTx

LEMMA PoolNext ==
    TypeInv /\ ReservedIsResiduals /\ [WalletNext]_walletVars => ReservedIsResiduals'
<1> SUFFICES ASSUME TypeInv, ReservedIsResiduals, [WalletNext]_walletVars
             PROVE  ReservedIsResiduals'
  OBVIOUS
<1> DEFINE sum == SumTo(Residuals(reservation), NumJobs)
<1>1. wallet.reserved \in Int /\ reservation \in [Jobs -> ReservationRow]
  BY DEF TypeInv, WalletTypeOK, Image
<1>2. \A r \in ReservationRow : Residual(r) \in Int
  BY DEF Residual, ReservationRow
<1>3. sum \in Int
  <2>1. \A i \in 1..NumJobs : Residuals(reservation)[i] \in Int
    BY <1>1, <1>2 DEF Residuals, Jobs
  <2> QED
    BY <2>1, SumToInt, WalletAssumption
<1>4. wallet.reserved = sum
  BY <1>1, <1>3 DEF ReservedIsResiduals, Drift
<1>5. CASE reservation' = reservation /\ wallet'.reserved = wallet.reserved
  BY <1>5 DEF ReservedIsResiduals, Drift, Residuals
<1>6. ASSUME NEW j \in Jobs, NEW row \in ReservationRow,
             reservation' = [reservation EXCEPT ![j] = row],
             wallet'.reserved = wallet.reserved + (Residual(row) - Residual(reservation[j]))
      PROVE  ReservedIsResiduals'
  <2>1. SumTo(Residuals(reservation'), NumJobs)
            = sum + (Residual(row) - Residual(reservation[j]))
    BY <1>1, <1>6, ResidualsUpdate
  <2>2. Residual(row) \in Int /\ Residual(reservation[j]) \in Int
    BY <1>1, <1>2
  <2>3. wallet'.reserved - SumTo(Residuals(reservation'), NumJobs) = 0
    <3> HIDE DEF sum
    <3> QED
      BY <1>3, <1>4, <1>6, <2>1, <2>2
  <2> QED
    BY <2>3 DEF ReservedIsResiduals, Drift, Residuals
<1>7. ASSUME NEW r \in Refs, RepairReservationInvariant(r) PROVE FALSE
  BY <1>4, <1>7 DEF RepairReservationInvariant
<1>8. QED
  BY <1>5, <1>6, <1>7, PoolStep

LEMMA PoolInit == WalletInit => ReservedIsResiduals
<1> SUFFICES ASSUME WalletInit PROVE ReservedIsResiduals
  OBVIOUS
<1>1. \A i \in 1..NumJobs : Residuals(reservation)[i] = 0
  BY DEF WalletInit, Residuals, Residual, NoRow, Jobs
<1>2. SumTo(Residuals(reservation), NumJobs) = 0
  BY <1>1, SumToZero, WalletAssumption
<1>3. QED
  BY <1>2 DEF WalletInit, ReservedIsResiduals, Drift

(* Invariant B of the credits design: reserved_balance is exactly the sum of *)
(* what the reservations still hold, for any number of jobs (wallet.ts:625). *)
THEOREM PoolMatchesReservations == WalletSpec => []ReservedIsResiduals
<1>1. WalletInit => TypeInv /\ ReservedIsResiduals
  BY TypeInit, PoolInit
<1>2. TypeInv /\ ReservedIsResiduals /\ [WalletNext]_walletVars
        => (TypeInv /\ ReservedIsResiduals)'
  BY TypeNext, PoolNext
<1>3. QED
  BY <1>1, <1>2, PTL DEF WalletSpec

-----------------------------------------------------------------------------
(* The ledger explains the balance.                                          *)

(* What a transaction adds to the ledger: nothing, one row, or the pair of a *)
(* capture; the rows carry the wallet's images and the credits it gains, and *)
(* a row with a key of a job is a row of that job.                           *)
Owned(l) == \A k \in JobKeyKinds, x \in Jobs : l.key = <<k, x>> => l.job = x

Explains(l, w, w2) ==
    /\ l \in LedgerRow /\ Owned(l)
    /\ l.before = w /\ l.after = w2
    /\ w2.balance = w.balance + l.amount

LedgerGrows ==
    \/ ledger' = ledger /\ wallet' = wallet
    \/ \E l \in LedgerRow : ledger' = Append(ledger, l) /\ Explains(l, wallet, wallet')
    \/ \E s, l \in LedgerRow :
          /\ ledger' = Append(Append(ledger, s), l)
          /\ Explains(l, wallet, wallet') /\ Owned(s)
          /\ s.type = "GENERATION_SETTLE" /\ s.amount = 0
          /\ s.before = wallet /\ s.after = wallet'

(* What the fields of a row built by Row are.                                *)
LEMMA RowFields ==
    \A type, j, key, amount, before, after :
        LET l == Row(type, j, key, amount, before, after)
        IN  /\ l.type = type /\ l.job = j /\ l.key = key /\ l.amount = amount
            /\ l.before = before /\ l.after = after
BY DEF Row

LEMMA RowOwned ==
    /\ \A type, k, amount, before, after : \A j \in Jobs :
          Owned(Row(type, j, <<k, j>>, amount, before, after))
    /\ \A type, r, amount, before, after : \A k \in RefKeyKinds :
          Owned(Row(type, NoJob, <<k, r>>, amount, before, after))
<1>1. RefKeyKinds \cap JobKeyKinds = {}
  BY DEF RefKeyKinds, JobKeyKinds
<1>2. QED
  BY <1>1 DEF Owned, Row

LEMMA GrowsStep == TypeInv /\ [WalletNext]_walletVars => LedgerGrows
<1> SUFFICES ASSUME TypeInv, [WalletNext]_walletVars PROVE LedgerGrows
  OBVIOUS
<1> USE WalletAssumption
<1>0. wallet \in Image /\ reservation \in [Jobs -> ReservationRow] /\ ledger \in Seq(LedgerRow)
  BY DEF TypeInv, WalletTypeOK
<1>1. ASSUME NEW j \in Jobs, NEW c \in Credits, ReserveInTx(j, c) PROVE LedgerGrows
  <2> DEFINE w == computeReserve(wallet, c)
             l == Row("GENERATION_RESERVE", j, <<"reserve", j>>, -c, wallet, w)
  <2>1. w \in Image /\ w.balance = wallet.balance + (-c)
    BY <1>0 DEF Image, computeReserve
  <2>2. wallet' = w /\ ledger' = Append(ledger, l)
    BY <1>1 DEF ReserveInTx, Write
  <2>3. l \in LedgerRow
    BY <1>0, <2>1, RowTyped DEF Key, JobKeyKinds
  <2>4. Explains(l, wallet, w)
    <3>1. Owned(l)
      BY RowOwned
    <3> HIDE DEF w
    <3> QED
      BY <2>1, <2>3, <3>1, RowFields DEF Explains
  <2> HIDE DEF w, l
  <2> QED
    BY <2>2, <2>3, <2>4 DEF LedgerGrows
<1>2. ASSUME NEW j \in Jobs, NEW a \in Credits \cup {0}, CaptureInTx(j, a) PROVE LedgerGrows
  <2> DEFINE c == computeCapture(reservation[j], a)
             w == unreserve(wallet, c.remaining, c.release)
             s == Row("GENERATION_SETTLE", j, <<"settle", j>>, 0, wallet, w)
             l == Row("GENERATION_RELEASE", j, <<"settle:release", j>>, c.release, wallet, w)
  <2>1. a \in Nat /\ reservation[j] \in ReservationRow /\ RowShape(reservation[j])
        /\ reservation[j].status = "RESERVED"
    BY <1>0, <1>2 DEF TypeInv, RowsOK, CaptureInTx
  <2>2. c.release \in Nat /\ c.remaining \in Nat
    BY <2>1, CaptureFacts DEF ReservationRow
  <2>3. w \in Image /\ w.balance = wallet.balance + c.release
    BY <1>0, <2>2 DEF Image, unreserve
  <2>4. s \in LedgerRow /\ l \in LedgerRow
    BY <1>0, <2>2, <2>3, RowTyped DEF Key, JobKeyKinds
  <2>5. wallet' = w /\ ledger' = ledger \o (<<s>> \o IF c.release = 0 THEN <<>> ELSE <<l>>)
    BY <1>2 DEF CaptureInTx, Write, CaptureRows
  <2> HIDE DEF c
  <2>6. CASE c.release = 0
    <3>1. Explains(s, wallet, w)
      <4>1. Owned(s)
        BY RowOwned
      <4> QED
        BY <1>0, <2>3, <2>4, <2>6, <4>1, RowFields DEF Explains, Image
    <3> HIDE DEF s, w
    <3>2. <<s>> \o <<>> = <<s>> /\ ledger \o <<s>> = Append(ledger, s)
      BY <1>0, <2>4
    <3>3. ledger' = Append(ledger, s)
      BY <2>5, <2>6, <3>2
    <3> QED
      BY <2>4, <2>5, <3>1, <3>3 DEF LedgerGrows
  <2>7. CASE c.release # 0
    <3>0. Owned(l) /\ Owned(s)
      BY RowOwned
    <3>1. Explains(l, wallet, w)
      BY <2>3, <2>4, <3>0, RowFields DEF Explains
    <3>2. s.type = "GENERATION_SETTLE" /\ s.amount = 0 /\ s.before = wallet /\ s.after = w
      BY RowFields
    <3> HIDE DEF s, l, w
    <3>3. ledger \o (<<s>> \o <<l>>) = Append(Append(ledger, s), l)
      BY <1>0, <2>4
    <3>4. ledger' = Append(Append(ledger, s), l)
      BY <2>5, <2>7, <3>3
    <3> QED
      BY <2>4, <2>5, <3>0, <3>1, <3>2, <3>4 DEF LedgerGrows
  <2> QED
    BY <2>6, <2>7
<1>3. ASSUME NEW j \in Jobs, NEW k \in ReleaseKinds, ReleaseInTx(j, k) PROVE LedgerGrows
  <2> DEFINE c == computeReleaseForJob(reservation[j])
             w == unreserve(wallet, c.release, c.release)
             l == Row("GENERATION_RELEASE", j, <<k, j>>, c.release, wallet, w)
  <2>1. reservation[j] \in ReservationRow /\ RowShape(reservation[j])
        /\ reservation[j].status \in {"RESERVED", "CAPTURED"}
    BY <1>0, <1>3 DEF TypeInv, RowsOK, ReleaseInTx
  <2>2. c.release \in Nat
    BY <2>1, ReleaseFacts
  <2>3. w \in Image /\ w.balance = wallet.balance + c.release
    BY <1>0, <2>2 DEF Image, unreserve
  <2>4. l \in LedgerRow
    BY <1>0, <2>2, <2>3, RowTyped DEF Key, JobKeyKinds, ReleaseKinds
  <2>5. Explains(l, wallet, w)
    <3>1. Owned(l)
      BY RowOwned
    <3> HIDE DEF w, c
    <3> QED
      BY <2>3, <2>4, <3>1, RowFields DEF Explains
  <2>6. \/ wallet' = wallet /\ ledger' = ledger
        \/ wallet' = w /\ ledger' = Append(ledger, l)
    BY <1>3 DEF ReleaseInTx, Write
  <2> HIDE DEF c, w, l
  <2> QED
    BY <2>4, <2>5, <2>6 DEF LedgerGrows
<1>4. ASSUME NEW type \in {"RECHARGE", "REFUND", "ADMIN_ADJUSTMENT"},
             NEW kind \in RefKeyKinds, NEW r \in Refs, NEW a \in Int, Move(type, <<kind, r>>, a)
      PROVE  LedgerGrows
  <2> DEFINE w == [wallet EXCEPT !.balance = @ + a]
             l == Row(type, NoJob, <<kind, r>>, a, wallet, w)
  <2>1. w \in Image /\ w.balance = wallet.balance + a
    BY <1>0 DEF Image
  <2>2. l \in LedgerRow
    BY <1>0, <2>1, RowTyped DEF Key
  <2>3. Explains(l, wallet, w)
    <3>1. Owned(l)
      BY RowOwned
    <3> HIDE DEF w
    <3> QED
      BY <2>1, <2>2, <3>1, RowFields DEF Explains
  <2>4. wallet' = w /\ ledger' = Append(ledger, l)
    BY <1>4 DEF Move, Write
  <2> HIDE DEF w, l
  <2> QED
    BY <2>2, <2>3, <2>4 DEF LedgerGrows
<1>5. ASSUME NEW r \in Refs, RepairReservationInvariant(r) PROVE LedgerGrows
  <2> DEFINE expected == SumTo(Residuals(reservation), NumJobs)
             w == [wallet EXCEPT !.reserved = expected]
             l == Row("ADMIN_ADJUSTMENT", NoJob, <<"reconcile", r>>, 0, wallet, w)
  <2>1. expected \in Int
    <3>1. \A i \in 1..NumJobs : Residuals(reservation)[i] \in Int
      BY <1>0 DEF Residuals, Residual, ReservationRow, Jobs
    <3> QED
      BY <3>1, SumToInt
  <2>2. w \in Image /\ w.balance = wallet.balance + 0
    BY <1>0, <2>1 DEF Image
  <2>3. l \in LedgerRow
    <3>1. <<"reconcile", r>> \in Key
      BY DEF Key, RefKeyKinds
    <3>2. w \in Image /\ wallet \in Image
      BY <1>0, <2>2
    <3> HIDE DEF w
    <3> QED
      BY <3>1, <3>2, RowTyped
  <2>4. Explains(l, wallet, w)
    <3>1. Owned(l)
      BY RowOwned DEF RefKeyKinds
    <3> HIDE DEF w
    <3> QED
      BY <2>2, <2>3, <3>1, RowFields DEF Explains
  <2>5. wallet' = w /\ ledger' = Append(ledger, l)
    BY <1>5 DEF RepairReservationInvariant, Write
  <2> HIDE DEF expected, w, l
  <2> QED
    BY <2>3, <2>4, <2>5 DEF LedgerGrows
<1>6. CASE UNCHANGED walletVars
  BY <1>6 DEF walletVars, LedgerGrows
<1>7. ASSUME NEW k \in {"recharge", "grant"}, NEW r \in Refs, NEW c \in Amounts,
             RechargeInTx(k, r, c)
      PROVE  LedgerGrows
  BY <1>4, <1>7 DEF RechargeInTx, RefKeyKinds
<1>8. ASSUME NEW r \in Refs, NEW c \in Amounts, RefundCreditsInTx(r, c) PROVE LedgerGrows
  <2>1. -c \in Int /\ "refund" \in RefKeyKinds
    BY DEF RefKeyKinds
  <2> QED
    BY <1>4, <1>8, <2>1 DEF RefundCreditsInTx
<1>9. ASSUME NEW r \in Refs, NEW d \in Int, AdjustBalanceInTx(r, d) PROVE LedgerGrows
  BY <1>4, <1>9 DEF AdjustBalanceInTx, RefKeyKinds
<1>10. \A c \in Amounts : c \in Int /\ -c \in Int
  OBVIOUS
<1>11. QED
  BY <1>1, <1>2, <1>3, <1>5, <1>6, <1>7, <1>8, <1>9, <1>10 DEF WalletNext

(* One more row adds its amount to the sum.                                  *)
LEMMA AmountsAppend ==
    ASSUME NEW log \in Seq(LedgerRow), NEW l \in LedgerRow
    PROVE  /\ SumTo(RowAmounts(log), Len(log)) \in Int
           /\ SumTo(RowAmounts(Append(log, l)), Len(log) + 1)
                  = SumTo(RowAmounts(log), Len(log)) + l.amount
<1> DEFINE f == RowAmounts(log)
           g == RowAmounts(Append(log, l))
           n == Len(log)
<1>1. n \in Nat /\ Len(Append(log, l)) = n + 1
  OBVIOUS
<1>2. \A i \in 1..n : f[i] = log[i].amount /\ f[i] \in Int
  <2>1. \A r \in LedgerRow : r.amount \in Int
    BY DEF LedgerRow
  <2>2. \A i \in 1..n : log[i] \in LedgerRow
    OBVIOUS
  <2>3. \A i \in 1..n : f[i] = log[i].amount
    BY DEF RowAmounts
  <2> HIDE DEF n
  <2> QED
    BY <2>1, <2>2, <2>3
<1>3. \A i \in 1..n : Append(log, l)[i] = log[i] /\ g[i] = f[i]
  BY <1>1 DEF RowAmounts
<1>4. g[n+1] = l.amount /\ l.amount \in Int
  BY <1>1 DEF RowAmounts, LedgerRow
<1> HIDE DEF f, g, n
<1>5. SumTo(f, n) \in Int /\ SumTo(g, n+1) = SumTo(f, n) + g[n+1]
  <2>1. \A i \in 1..n : f[i] \in Int
    BY <1>2
  <2>2. \A i \in 1..n : g[i] = f[i]
    BY <1>3
  <2>3. g[n+1] \in Int
    BY <1>4
  <2> QED
    BY <1>1, <2>1, <2>2, <2>3, SumToAppend, SumToInt
<1>6. QED
  BY <1>4, <1>5 DEF f, g, n

LEMMA BalanceNext ==
    TypeInv /\ BalanceIsLedgerSum /\ [WalletNext]_walletVars => BalanceIsLedgerSum'
<1> SUFFICES ASSUME TypeInv, BalanceIsLedgerSum, [WalletNext]_walletVars
             PROVE  BalanceIsLedgerSum'
  OBVIOUS
<1> DEFINE Total(log) == SumTo(RowAmounts(log), Len(log))
<1>1. wallet.balance = Total(ledger) /\ ledger \in Seq(LedgerRow)
  BY DEF BalanceIsLedgerSum, TypeInv, WalletTypeOK
<1>2. ASSUME NEW log \in Seq(LedgerRow), NEW l \in LedgerRow
      PROVE  /\ Append(log, l) \in Seq(LedgerRow)
             /\ Total(log) \in Int
             /\ Total(Append(log, l)) = Total(log) + l.amount
  <2>1. Len(Append(log, l)) = Len(log) + 1
    OBVIOUS
  <2> QED
    BY <2>1, AmountsAppend
<1> HIDE DEF Total
<1>3. wallet'.balance = Total(ledger')
  <2>1. CASE ledger' = ledger /\ wallet' = wallet
    BY <1>1, <2>1
  <2>2. ASSUME NEW l \in LedgerRow, ledger' = Append(ledger, l), Explains(l, wallet, wallet')
        PROVE  wallet'.balance = Total(ledger')
    BY <1>1, <1>2, <2>2 DEF Explains
  <2>3. ASSUME NEW s \in LedgerRow, NEW l \in LedgerRow,
               ledger' = Append(Append(ledger, s), l),
               Explains(l, wallet, wallet'), s.amount = 0
        PROVE  wallet'.balance = Total(ledger')
    <3>1. Append(ledger, s) \in Seq(LedgerRow) /\ Total(ledger) \in Int
          /\ Total(Append(ledger, s)) = Total(ledger)
      BY <1>1, <1>2, <2>3
    <3>2. Total(Append(Append(ledger, s), l)) = Total(Append(ledger, s)) + l.amount
      BY <1>2, <3>1
    <3> QED
      BY <1>1, <2>3, <3>1, <3>2 DEF Explains
  <2> QED
    BY <2>1, <2>2, <2>3, GrowsStep DEF LedgerGrows
<1>4. QED
  BY <1>3 DEF BalanceIsLedgerSum, Total

LEMMA BalanceInit == WalletInit => BalanceIsLedgerSum
<1> SUFFICES ASSUME WalletInit PROVE BalanceIsLedgerSum
  OBVIOUS
<1>1. CASE Welcome = 0
  BY <1>1, SumToEmpty DEF WalletInit, WelcomeLedger, BalanceIsLedgerSum
<1>2. CASE Welcome # 0
  <2>1. Welcome \in Int
    BY WalletAssumption
  <2>2. Len(ledger) = 1 /\ RowAmounts(ledger)[1] = Welcome
    BY <1>2 DEF WalletInit, WelcomeLedger, RowAmounts, Row
  <2> DEFINE g == RowAmounts(ledger)
  <2>3. g[0+1] = Welcome
    BY <2>2
  <2> HIDE DEF g
  <2>4. SumTo(g, 0+1) = SumTo(g, 0) + g[0+1]
    <3>1. \A i \in 1..0 : g[i] \in Int
      OBVIOUS
    <3> QED
      BY <2>1, <2>3, <3>1, SumToAppend
  <2>5. SumTo(g, 1) = Welcome
    BY <2>1, <2>3, <2>4, SumToEmpty
  <2> QED
    BY <2>2, <2>5 DEF g, WalletInit, BalanceIsLedgerSum
<1>3. QED
  BY <1>1, <1>2

(* The balance is what the ledger rows add up to: no transaction moves       *)
(* credits without writing the row that says so, however long the history.   *)
THEOREM LedgerExplainsBalance == WalletSpec => []BalanceIsLedgerSum
<1>1. WalletInit => TypeInv /\ BalanceIsLedgerSum
  BY TypeInit, BalanceInit
<1>2. TypeInv /\ BalanceIsLedgerSum /\ [WalletNext]_walletVars
        => (TypeInv /\ BalanceIsLedgerSum)'
  BY TypeNext, BalanceNext
<1>3. QED
  BY <1>1, <1>2, PTL DEF WalletSpec

-----------------------------------------------------------------------------
(* The ledger can be replayed.                                               *)

LEMMA ReplaysInit == WalletInit => LedgerReplays
<1> SUFFICES ASSUME WalletInit PROVE LedgerReplays
  OBVIOUS
<1>1. CASE Welcome = 0
  BY <1>1 DEF WalletInit, WelcomeLedger, LedgerReplays
<1>2. CASE Welcome # 0
  BY <1>2, RowFields DEF WalletInit, WelcomeLedger, LedgerReplays
<1>3. QED
  BY <1>1, <1>2

LEMMA ReplaysNext ==
    TypeInv /\ LedgerReplays /\ [WalletNext]_walletVars => LedgerReplays'
<1> SUFFICES ASSUME TypeInv, LedgerReplays, [WalletNext]_walletVars PROVE LedgerReplays'
  OBVIOUS
<1>1. ledger \in Seq(LedgerRow) /\ Len(ledger) \in Nat
  BY DEF TypeInv, WalletTypeOK
<1> DEFINE Linked(log) == \A i \in 2..Len(log) :
               \/ log[i].before = log[i-1].after
               \/ SameChange(log[i], log[i-1]) /\ log[i-1].type = "GENERATION_SETTLE"
           Ends(log, w) == log # <<>> => log[Len(log)].after = w
<1>2. Linked(ledger) /\ Ends(ledger, wallet)
  BY DEF LedgerReplays
<1>3. ASSUME NEW log \in Seq(LedgerRow), NEW w, Linked(log), Ends(log, w),
             NEW l \in LedgerRow,
             \/ l.before = w
             \/ /\ log # <<>> /\ SameChange(l, log[Len(log)])
                /\ log[Len(log)].type = "GENERATION_SETTLE"
      PROVE  Append(log, l) \in Seq(LedgerRow) /\ Append(log, l) # <<>>
             /\ Linked(Append(log, l)) /\ Ends(Append(log, l), l.after)
             /\ Append(log, l)[Len(Append(log, l))] = l
  <2> DEFINE m == Append(log, l)
  <2>1. /\ m \in Seq(LedgerRow) /\ m # <<>> /\ Len(log) \in Nat
        /\ Len(m) = Len(log) + 1 /\ m[Len(m)] = l
        /\ \A i \in 1..Len(log) : m[i] = log[i]
    OBVIOUS
  <2>2. log = <<>> <=> Len(log) = 0
    OBVIOUS
  <2> HIDE DEF m
  <2>3. ASSUME NEW i \in 2..Len(m)
        PROVE  \/ m[i].before = m[i-1].after
               \/ SameChange(m[i], m[i-1]) /\ m[i-1].type = "GENERATION_SETTLE"
    <3>1. CASE i \in 2..Len(log)
      BY <1>3, <2>1, <3>1
    <3>2. CASE i = Len(log) + 1
      <4>1. Len(log) # 0 /\ m[i] = l /\ m[i-1] = log[Len(log)]
        BY <2>1, <3>2
      <4> QED
        BY <1>3, <2>2, <4>1
    <3> QED
      BY <2>1, <3>1, <3>2
  <2> QED
    BY <2>1, <2>3 DEF m
<1> HIDE DEF Linked, Ends
<1>4. Linked(ledger') /\ Ends(ledger', wallet')
  <2>1. CASE ledger' = ledger /\ wallet' = wallet
    BY <1>2, <2>1
  <2>2. ASSUME NEW l \in LedgerRow, ledger' = Append(ledger, l), Explains(l, wallet, wallet')
        PROVE  Linked(ledger') /\ Ends(ledger', wallet')
    BY <1>1, <1>2, <1>3, <2>2 DEF Explains
  <2>3. ASSUME NEW s \in LedgerRow, NEW l \in LedgerRow,
               ledger' = Append(Append(ledger, s), l), Explains(l, wallet, wallet'),
               s.type = "GENERATION_SETTLE", s.before = wallet, s.after = wallet'
        PROVE  Linked(ledger') /\ Ends(ledger', wallet')
    <3> DEFINE m == Append(ledger, s)
    <3>1. m \in Seq(LedgerRow) /\ m # <<>> /\ Linked(m) /\ Ends(m, wallet') /\ m[Len(m)] = s
      BY <1>1, <1>2, <1>3, <2>3
    <3>2. l.after = wallet' /\ SameChange(l, m[Len(m)]) /\ m[Len(m)].type = "GENERATION_SETTLE"
      BY <2>3, <3>1 DEF Explains, SameChange
    <3> HIDE DEF m
    <3>3. Linked(Append(m, l)) /\ Ends(Append(m, l), wallet')
      BY <1>3, <3>1, <3>2
    <3> QED
      BY <2>3, <3>3 DEF m
  <2> QED
    BY <2>1, <2>2, <2>3, GrowsStep DEF LedgerGrows
<1>5. QED
  BY <1>4 DEF LedgerReplays, Linked, Ends, SameChange

(* Replaying the ledger leads to the wallet: each row starts where the last  *)
(* one ended, but for the two rows a capture writes with the same images.    *)
THEOREM LedgerCanBeReplayed == WalletSpec => []LedgerReplays
<1>1. WalletInit => TypeInv /\ LedgerReplays
  BY TypeInit, ReplaysInit
<1>2. TypeInv /\ LedgerReplays /\ [WalletNext]_walletVars => (TypeInv /\ LedgerReplays)'
  BY TypeNext, ReplaysNext
<1>3. QED
  BY <1>1, <1>2, PTL DEF WalletSpec

-----------------------------------------------------------------------------
(* Settlement is final.                                                      *)

FinalStep ==
    \A j \in Jobs :
        reservation[j].status \in {"CAPTURED", "RELEASED"} =>
            /\ reservation'[j].captured = reservation[j].captured
            /\ reservation'[j].released = reservation[j].released

LEMMA FinalNext == TypeInv /\ [WalletNext]_walletVars => FinalStep
<1> SUFFICES ASSUME TypeInv, [WalletNext]_walletVars PROVE FinalStep
  OBVIOUS
<1>0. reservation \in [Jobs -> ReservationRow] /\ RowsOK
  BY DEF TypeInv, WalletTypeOK
<1>1. ASSUME NEW j \in Jobs, NEW c, ReserveInTx(j, c) PROVE FinalStep
  BY <1>0, <1>1 DEF ReserveInTx, NoRow, FinalStep
<1>2. ASSUME NEW j \in Jobs, NEW a, CaptureInTx(j, a) PROVE FinalStep
  BY <1>0, <1>2 DEF CaptureInTx, FinalStep
<1>3. ASSUME NEW j \in Jobs, NEW k, ReleaseInTx(j, k) PROVE FinalStep
  <2> DEFINE c == computeReleaseForJob(reservation[j])
  <2>1. RowShape(reservation[j]) /\ reservation[j] \in ReservationRow
        /\ reservation[j].status \in {"RESERVED", "CAPTURED"}
    BY <1>0, <1>3 DEF RowsOK, ReleaseInTx
  <2>2. c.row.captured = reservation[j].captured
        /\ (reservation[j].status = "CAPTURED" => c.row.released = reservation[j].released)
    BY <2>1, ReleaseFacts
  <2>3. reservation' = [reservation EXCEPT ![j] = c.row]
    BY <1>3 DEF ReleaseInTx
  <2> HIDE DEF c
  <2> QED
    BY <1>0, <2>1, <2>2, <2>3 DEF FinalStep
<1>4. CASE UNCHANGED reservation
  BY <1>4 DEF FinalStep
<1>5. QED
  BY <1>1, <1>2, <1>3, <1>4
     DEF WalletNext, walletVars, RechargeInTx, RefundCreditsInTx, AdjustBalanceInTx, Move,
         RepairReservationInvariant

(* What a closed reservation captured and returned never changes: a late     *)
(* capture, release, cancellation or administrative failure of the same job  *)
(* takes nothing more and gives nothing more back.                           *)
THEOREM SettlementIsFinal == WalletSpec => ClosedAmountsAreFinal
<1>1. TypeInv /\ [WalletNext]_walletVars => [FinalStep]_walletVars
  BY FinalNext
<1>2. WalletSpec => [][FinalStep]_walletVars
  BY <1>1, TypeInit, TypeNext, PTL DEF WalletSpec
<1>3. QED
  BY <1>2 DEF FinalStep, ClosedAmountsAreFinal

-----------------------------------------------------------------------------
(* What each transaction means for the books of the jobs.                    *)

(* Net credits the rows of owner o have moved; o is a job, or NoJob for the  *)
(* rows that fund the account.                                               *)
Owners == Jobs \cup {NoJob}
Total(log, o) == SumTo(JobAmounts(log, o), Len(log))

(* A total of integers.                                                      *)
LEMMA TotalInt ==
    ASSUME NEW log \in Seq(LedgerRow), NEW o
    PROVE  Total(log, o) \in Int
<1> DEFINE f == JobAmounts(log, o)
           n == Len(log)
<1>1. \A r \in LedgerRow : r.amount \in Int
  BY DEF LedgerRow
<1>2. \A i \in 1..n : log[i] \in LedgerRow
  OBVIOUS
<1>3. \A i \in 1..n : f[i] = IF log[i].job = o THEN log[i].amount ELSE 0
  BY DEF JobAmounts
<1>4. n \in Nat
  OBVIOUS
<1> HIDE DEF f, n
<1>5. \A i \in 1..n : f[i] \in Int
  BY <1>1, <1>2, <1>3
<1>6. QED
  BY <1>4, <1>5, SumToInt DEF Total, f, n

(* One more row adds its amount to the total of its owner, and to no other.  *)
LEMMA TotalAppend ==
    ASSUME NEW log \in Seq(LedgerRow), NEW l \in LedgerRow, NEW o
    PROVE  Total(Append(log, l), o) = Total(log, o) + (IF l.job = o THEN l.amount ELSE 0)
<1> DEFINE f == JobAmounts(log, o)
           g == JobAmounts(Append(log, l), o)
           n == Len(log)
<1>1. n \in Nat /\ Len(Append(log, l)) = n + 1
  OBVIOUS
<1>2. \A r \in LedgerRow : r.amount \in Int
  BY DEF LedgerRow
<1>3. \A i \in 1..n : f[i] \in Int
  <2>1. \A i \in 1..n : log[i] \in LedgerRow
    OBVIOUS
  <2>2. \A i \in 1..n : f[i] = IF log[i].job = o THEN log[i].amount ELSE 0
    BY DEF JobAmounts
  <2> HIDE DEF f, n
  <2> QED
    BY <1>2, <2>1, <2>2
<1>4. \A i \in 1..n : g[i] = f[i]
  BY <1>1 DEF JobAmounts
<1>5. g[n+1] = IF l.job = o THEN l.amount ELSE 0
  BY <1>1 DEF JobAmounts
<1>6. g[n+1] \in Int
  BY <1>2, <1>5
<1> HIDE DEF f, g, n
<1>7. SumTo(g, n+1) = SumTo(f, n) + g[n+1]
  BY <1>1, <1>3, <1>4, <1>6, SumToAppend
<1>8. QED
  BY <1>1, <1>5, <1>7 DEF Total, f, g, n

(* A row with another key, or of another job, leaves the answer of the       *)
(* idempotency look-up as it was.                                            *)
LEMMA HasLedgerAppend ==
    ASSUME NEW log \in Seq(LedgerRow), NEW l \in LedgerRow, NEW key, NEW j
    PROVE  hasLedger(Append(log, l), key, j)
               <=> (hasLedger(log, key, j) \/ (l.key = key /\ l.job = j))
<1> DEFINE m == Append(log, l)
<1>1. /\ DOMAIN log = 1..Len(log) /\ DOMAIN m = 1..(Len(log) + 1) /\ Len(log) \in Nat
      /\ m[Len(log) + 1] = l /\ \A i \in 1..Len(log) : m[i] = log[i]
  OBVIOUS
<1> HIDE DEF m
<1>2. hasLedger(m, key, j) <=> (hasLedger(log, key, j) \/ (l.key = key /\ l.job = j))
  BY <1>1 DEF hasLedger
<1>3. QED
  BY <1>2 DEF m

(* The ledger moves `amount` on the account of owner o, with rows of o that  *)
(* carry keys of the given kinds.                                            *)
Books(log, log2, o, amount, kinds) ==
    /\ log2 \in Seq(LedgerRow)
    /\ \A x \in Owners :
          Total(log2, x) = Total(log, x) + (IF x = o THEN amount ELSE 0)
    /\ \A k \in JobKeyKinds, x \in Jobs :
          hasLedger(log2, <<k, x>>, x) => hasLedger(log, <<k, x>>, x) \/ (x = o /\ k \in kinds)

(* One row is an entry of its owner.                                         *)
LEMMA BooksOne ==
    ASSUME NEW log \in Seq(LedgerRow), NEW l \in LedgerRow, NEW o, NEW kinds,
           l.job = o,
           \A k \in JobKeyKinds, x \in Jobs : l.job = x /\ l.key = <<k, x>> => k \in kinds
    PROVE  Books(log, Append(log, l), o, l.amount, kinds)
<1>1. Append(log, l) \in Seq(LedgerRow)
  OBVIOUS
<1>2. ASSUME NEW x \in Owners
      PROVE  Total(Append(log, l), x) = Total(log, x) + (IF x = o THEN l.amount ELSE 0)
  BY TotalAppend
<1>3. ASSUME NEW k \in JobKeyKinds, NEW x \in Jobs, hasLedger(Append(log, l), <<k, x>>, x)
      PROVE  hasLedger(log, <<k, x>>, x) \/ (x = o /\ k \in kinds)
  BY <1>3, HasLedgerAppend
<1>4. QED
  BY <1>1, <1>2, <1>3 DEF Books

(* Two entries of one owner after another.                                   *)
LEMMA BooksTwo ==
    ASSUME NEW log \in Seq(LedgerRow), NEW log1, NEW log2, NEW o, NEW kinds,
           NEW a \in Int, NEW b \in Int,
           Books(log, log1, o, a, kinds), Books(log1, log2, o, b, kinds)
    PROVE  Books(log, log2, o, a + b, kinds)
<1>1. ASSUME NEW x \in Owners
      PROVE  Total(log2, x) = Total(log, x) + (IF x = o THEN a + b ELSE 0)
  <2>1. Total(log, x) \in Int
    BY TotalInt
  <2>2. Total(log1, x) = Total(log, x) + (IF x = o THEN a ELSE 0)
        /\ Total(log2, x) = Total(log1, x) + (IF x = o THEN b ELSE 0)
    BY DEF Books
  <2> QED
    BY <2>1, <2>2
<1>2. QED
  BY <1>1 DEF Books

Closed == {"CAPTURED", "RELEASED"}

(* The three things that can happen to a reservation, and what they book.    *)
Opens(r, r2, amount) ==
    /\ r = NoRow
    /\ r2.status = "RESERVED" /\ r2.captured = 0 /\ r2.released = 0
    /\ r2.reserved = -amount /\ amount < 0

Closes(r, r2, amount) ==
    /\ r.status = "RESERVED" /\ r2.status \in Closed
    /\ r2.reserved = r.reserved /\ r2.captured = r.reserved - amount
    /\ amount \in 0..r.reserved

Relabels(r, r2, amount) ==
    /\ r.status = "CAPTURED" /\ r2.status = "RELEASED"
    /\ r2.reserved = r.reserved /\ r2.captured = r.captured
    /\ amount = 0

ReservationStep(j, row, amount) ==
    /\ reservation' = [reservation EXCEPT ![j] = row]
    /\ wallet'.balance = wallet.balance + amount
    /\ \/ /\ Opens(reservation[j], row, amount)
          /\ wallet'.balance >= 0
          /\ Books(ledger, ledger', j, amount, {"reserve"})
       \/ /\ Closes(reservation[j], row, amount)
          /\ Books(ledger, ledger', j, amount, JobKeyKinds)
       \/ /\ Relabels(reservation[j], row, amount)
          /\ ledger' = ledger

FundsStep(amount) ==
    /\ reservation' = reservation
    /\ wallet'.balance = wallet.balance + amount
    /\ wallet'.balance >= 0
    /\ Books(ledger, ledger', NoJob, amount, {})

(* Every step of WalletNext is one of these.                                 *)
LEMMA MeaningStep ==
    ASSUME TypeInv, [WalletNext]_walletVars
    PROVE  \/ UNCHANGED walletVars
           \/ \E j \in Jobs, row \in ReservationRow, amount \in Int :
                 ReservationStep(j, row, amount)
           \/ \E amount \in Int : FundsStep(amount)
<1> USE WalletAssumption
<1>0. wallet \in Image /\ reservation \in [Jobs -> ReservationRow] /\ ledger \in Seq(LedgerRow)
  BY DEF TypeInv, WalletTypeOK
<1>1. ASSUME NEW j \in Jobs, NEW c \in Credits, ReserveInTx(j, c)
      PROVE  \E row \in ReservationRow, amount \in Int : ReservationStep(j, row, amount)
  <2> DEFINE w == computeReserve(wallet, c)
             row == [status |-> "RESERVED", reserved |-> c, captured |-> 0, released |-> 0]
             l == Row("GENERATION_RESERVE", j, <<"reserve", j>>, -c, wallet, w)
  <2>1. w \in Image /\ w.balance = wallet.balance + (-c) /\ c \in Nat \ {0}
    BY <1>0 DEF Image, computeReserve
  <2>2. wallet' = w /\ ledger' = Append(ledger, l) /\ w.balance >= 0
    BY <1>1 DEF ReserveInTx, Write, Commits
  <2>3. reservation[j] = NoRow /\ reservation' = [reservation EXCEPT ![j] = row]
    BY <1>1 DEF ReserveInTx
  <2>4. l \in LedgerRow /\ l.job = j /\ l.key = <<"reserve", j>> /\ l.amount = -c
    BY <1>0, <2>1, RowTyped, RowFields DEF Key, JobKeyKinds
  <2>5. row \in ReservationRow /\ Opens(reservation[j], row, -c) /\ -c \in Int
    BY <2>1, <2>3 DEF ReservationRow, Opens
  <2> HIDE DEF w, row, l
  <2>6. Books(ledger, ledger', j, l.amount, {"reserve"})
    <3>1. \A k \in JobKeyKinds, x \in Jobs : l.job = x /\ l.key = <<k, x>> => k \in {"reserve"}
      BY <2>4
    <3> QED
      BY <1>0, <2>2, <2>4, <3>1, BooksOne
  <2>7. ReservationStep(j, row, -c)
    BY <2>1, <2>2, <2>3, <2>4, <2>5, <2>6 DEF ReservationStep
  <2> QED
    BY <2>5, <2>7
<1>2. ASSUME NEW j \in Jobs, NEW a \in Credits \cup {0}, CaptureInTx(j, a)
      PROVE  \E row \in ReservationRow, amount \in Int : ReservationStep(j, row, amount)
  <2> DEFINE c == computeCapture(reservation[j], a)
             w == unreserve(wallet, c.remaining, c.release)
             s == Row("GENERATION_SETTLE", j, <<"settle", j>>, 0, wallet, w)
             l == Row("GENERATION_RELEASE", j, <<"settle:release", j>>, c.release, wallet, w)
  <2>1. a \in Nat /\ reservation[j] \in ReservationRow /\ RowShape(reservation[j])
        /\ reservation[j].status = "RESERVED"
    BY <1>0, <1>2 DEF TypeInv, RowsOK, CaptureInTx
  <2>2. /\ c.row \in ReservationRow /\ c.release \in 0..reservation[j].reserved
        /\ c.row.status = "CAPTURED" /\ c.row.reserved = reservation[j].reserved
        /\ c.row.captured = reservation[j].reserved - c.release
        /\ c.release \in Int /\ c.remaining \in Int
    BY <2>1, CaptureFacts DEF ReservationRow
  <2>3. w \in Image /\ w.balance = wallet.balance + c.release
    BY <1>0, <2>2 DEF Image, unreserve
  <2>4. s \in LedgerRow /\ l \in LedgerRow
    BY <1>0, <2>2, <2>3, RowTyped DEF Key, JobKeyKinds
  <2>5. wallet' = w /\ ledger' = ledger \o (<<s>> \o IF c.release = 0 THEN <<>> ELSE <<l>>)
        /\ reservation' = [reservation EXCEPT ![j] = c.row]
    BY <1>2 DEF CaptureInTx, Write, CaptureRows
  <2>6. Closes(reservation[j], c.row, c.release)
    BY <2>1, <2>2 DEF Closes, Closed
  <2>7. s.job = j /\ s.key = <<"settle", j>> /\ s.amount = 0
        /\ l.job = j /\ l.key = <<"settle:release", j>> /\ l.amount = c.release
    BY RowFields
  <2> HIDE DEF c, w, s, l
  <2>8. Books(ledger, Append(ledger, s), j, 0, JobKeyKinds)
    <3>1. \A k \in JobKeyKinds, x \in Jobs : s.job = x /\ s.key = <<k, x>> => k \in JobKeyKinds
      OBVIOUS
    <3> QED
      BY <1>0, <2>4, <2>7, <3>1, BooksOne
  <2>9. Books(ledger, ledger', j, c.release, JobKeyKinds)
    <3>1. CASE c.release = 0
      <4>1. <<s>> \o <<>> = <<s>> /\ ledger \o <<s>> = Append(ledger, s)
        BY <1>0, <2>4
      <4> QED
        BY <2>5, <2>8, <3>1, <4>1
    <3>2. CASE c.release # 0
      <4> DEFINE m == Append(ledger, s)
      <4>1. ledger \o (<<s>> \o <<l>>) = Append(m, l) /\ m \in Seq(LedgerRow)
        BY <1>0, <2>4
      <4>2. ledger' = Append(m, l)
        BY <2>5, <3>2, <4>1
      <4>3. \A k \in JobKeyKinds, x \in Jobs : l.job = x /\ l.key = <<k, x>> => k \in JobKeyKinds
        OBVIOUS
      <4> HIDE DEF m
      <4>4. Books(m, Append(m, l), j, c.release, JobKeyKinds)
        BY <2>4, <2>7, <4>1, <4>3, BooksOne
      <4>5. Books(ledger, m, j, 0, JobKeyKinds)
        BY <2>8 DEF m
      <4>6. Books(ledger, Append(m, l), j, 0 + c.release, JobKeyKinds)
        BY <1>0, <2>2, <4>4, <4>5, BooksTwo
      <4>7. 0 + c.release = c.release
        BY <2>2
      <4> QED
        BY <4>2, <4>6, <4>7
    <3> QED
      BY <3>1, <3>2
  <2>10. ReservationStep(j, c.row, c.release)
    BY <2>3, <2>5, <2>6, <2>9 DEF ReservationStep
  <2> QED
    BY <2>2, <2>10
<1>3. ASSUME NEW j \in Jobs, NEW k \in ReleaseKinds, ReleaseInTx(j, k)
      PROVE  \E row \in ReservationRow, amount \in Int : ReservationStep(j, row, amount)
  <2> DEFINE c == computeReleaseForJob(reservation[j])
             w == unreserve(wallet, c.release, c.release)
             l == Row("GENERATION_RELEASE", j, <<k, j>>, c.release, wallet, w)
  <2>1. reservation[j] \in ReservationRow /\ RowShape(reservation[j])
        /\ reservation[j].status \in {"RESERVED", "CAPTURED"}
    BY <1>0, <1>3 DEF TypeInv, RowsOK, ReleaseInTx
  <2>2. /\ c.row \in ReservationRow /\ c.release \in Nat /\ c.release = Residual(reservation[j])
        /\ c.row.status = "RELEASED" /\ c.row.reserved = reservation[j].reserved
        /\ c.row.captured = reservation[j].captured
        /\ reservation[j].status = "CAPTURED" => c.release = 0
    BY <2>1, ReleaseFacts
  <2>3. reservation' = [reservation EXCEPT ![j] = c.row]
        /\ IF c.release = 0 THEN wallet' = wallet /\ ledger' = ledger
                            ELSE wallet' = w /\ ledger' = Append(ledger, l)
    BY <1>3 DEF ReleaseInTx, Write
  <2>4. w \in Image /\ w.balance = wallet.balance + c.release
    BY <1>0, <2>2 DEF Image, unreserve
  <2>5. l \in LedgerRow /\ l.job = j /\ l.amount = c.release
    BY <1>0, <2>2, <2>4, RowTyped, RowFields DEF Key, JobKeyKinds, ReleaseKinds
  <2>6. CASE reservation[j].status = "CAPTURED"
    <3>1. Relabels(reservation[j], c.row, 0)
      BY <2>2, <2>6 DEF Relabels
    <3>2. wallet'.balance = wallet.balance + 0
      BY <1>0, <2>2, <2>3, <2>6 DEF Image
    <3> HIDE DEF c
    <3>3. ReservationStep(j, c.row, 0)
      BY <2>2, <2>3, <2>6, <3>1, <3>2 DEF ReservationStep
    <3> QED
      BY <2>2, <3>3
  <2>7. CASE reservation[j].status = "RESERVED"
    <3>1. c.release = reservation[j].reserved /\ c.release # 0 /\ reservation[j].captured = 0
          /\ reservation[j].reserved \in Nat
      BY <2>1, <2>2, <2>7 DEF RowShape, Residual, ReservationRow
    <3>2. Closes(reservation[j], c.row, c.release)
      <4> HIDE DEF c
      <4> QED
        BY <2>2, <2>7, <3>1 DEF Closes, Closed
    <3> HIDE DEF c, w, l
    <3>3. \A kk \in JobKeyKinds, x \in Jobs : l.job = x /\ l.key = <<kk, x>> => kk \in JobKeyKinds
      OBVIOUS
    <3>4. Books(ledger, ledger', j, c.release, JobKeyKinds)
      <4>1. Books(ledger, Append(ledger, l), j, l.amount, JobKeyKinds)
        BY <1>0, <2>5, <3>3, BooksOne
      <4> QED
        BY <2>3, <2>5, <3>1, <4>1
    <3>5. ReservationStep(j, c.row, c.release)
      BY <2>3, <2>4, <3>1, <3>2, <3>4 DEF ReservationStep
    <3> QED
      BY <2>2, <3>5
  <2> QED
    BY <2>1, <2>6, <2>7
<1>4. ASSUME NEW type \in {"RECHARGE", "REFUND", "ADMIN_ADJUSTMENT"},
             NEW kind \in RefKeyKinds, NEW r \in Refs, NEW a \in Int, Move(type, <<kind, r>>, a)
      PROVE  \E amount \in Int : FundsStep(amount)
  <2> DEFINE w == [wallet EXCEPT !.balance = @ + a]
             l == Row(type, NoJob, <<kind, r>>, a, wallet, w)
  <2>1. w \in Image /\ w.balance = wallet.balance + a
    BY <1>0 DEF Image
  <2>2. l \in LedgerRow /\ l.job = NoJob /\ l.amount = a
    <3>1. <<kind, r>> \in Key
      BY DEF Key
    <3> HIDE DEF w
    <3>2. l \in LedgerRow
      BY <1>0, <2>1, <3>1, RowTyped
    <3>3. l.job = NoJob /\ l.amount = a
      BY RowFields
    <3> QED
      BY <3>2, <3>3
  <2>3. wallet' = w /\ ledger' = Append(ledger, l) /\ w.balance >= 0 /\ reservation' = reservation
    BY <1>4 DEF Move, Write, Commits
  <2> HIDE DEF w, l
  <2>4. \A k \in JobKeyKinds, x \in Jobs : ~(l.job = x)
    BY <2>2 DEF Jobs, NoJob
  <2>5. Books(ledger, ledger', NoJob, a, {})
    BY <1>0, <2>2, <2>3, <2>4, BooksOne
  <2>6. FundsStep(a)
    BY <2>1, <2>3, <2>5 DEF FundsStep
  <2> QED
    BY <2>6
<1>5. ASSUME NEW r \in Refs, RepairReservationInvariant(r)
      PROVE  \E amount \in Int : FundsStep(amount)
  <2> DEFINE expected == SumTo(Residuals(reservation), NumJobs)
             w == [wallet EXCEPT !.reserved = expected]
             l == Row("ADMIN_ADJUSTMENT", NoJob, <<"reconcile", r>>, 0, wallet, w)
  <2>1. expected \in Int
    <3>1. \A i \in 1..NumJobs : Residuals(reservation)[i] \in Int
      BY <1>0 DEF Residuals, Residual, ReservationRow, Jobs
    <3> QED
      BY <3>1, SumToInt
  <2>2. w \in Image /\ wallet \in Image /\ w.balance = wallet.balance + 0
    BY <1>0, <2>1 DEF Image
  <2>3. l \in LedgerRow /\ l.job = NoJob /\ l.amount = 0
    <3>1. <<"reconcile", r>> \in Key
      BY DEF Key, RefKeyKinds
    <3> HIDE DEF w
    <3> QED
      BY <2>2, <3>1, RowTyped, RowFields
  <2>4. wallet' = w /\ ledger' = Append(ledger, l) /\ w.balance >= 0 /\ reservation' = reservation
    BY <1>5 DEF RepairReservationInvariant, Write, Commits
  <2> HIDE DEF expected, w, l
  <2>5. \A k \in JobKeyKinds, x \in Jobs : ~(l.job = x)
    BY <2>3 DEF Jobs, NoJob
  <2>6. Books(ledger, ledger', NoJob, 0, {})
    BY <1>0, <2>3, <2>4, <2>5, BooksOne
  <2>7. FundsStep(0)
    BY <2>2, <2>4, <2>6 DEF FundsStep
  <2> QED
    BY <2>7
<1>6. ASSUME NEW k \in {"recharge", "grant"}, NEW r \in Refs, NEW c \in Amounts,
             RechargeInTx(k, r, c)
      PROVE  \E amount \in Int : FundsStep(amount)
  BY <1>4, <1>6 DEF RechargeInTx, RefKeyKinds
<1>7. ASSUME NEW r \in Refs, NEW c \in Amounts, RefundCreditsInTx(r, c)
      PROVE  \E amount \in Int : FundsStep(amount)
  <2>1. -c \in Int /\ "refund" \in RefKeyKinds
    BY DEF RefKeyKinds
  <2> QED
    BY <1>4, <1>7, <2>1 DEF RefundCreditsInTx
<1>8. ASSUME NEW r \in Refs, NEW d \in Int, AdjustBalanceInTx(r, d)
      PROVE  \E amount \in Int : FundsStep(amount)
  BY <1>4, <1>8 DEF AdjustBalanceInTx, RefKeyKinds
<1>9. \A c \in Amounts : c \in Int /\ -c \in Int
  OBVIOUS
<1>10. QED
  BY <1>1, <1>2, <1>3, <1>5, <1>6, <1>7, <1>8, <1>9 DEF WalletNext

(* At the start nothing but the WELCOME row is in the ledger, and no job     *)
(* owns it.                                                                  *)
LEMMA TotalInit ==
    ASSUME WalletInit
    PROVE  /\ \A j \in Jobs : Total(ledger, j) = 0
           /\ Total(ledger, NoJob) = Welcome
           /\ \A j \in Jobs : \A key : ~hasLedger(ledger, key, j)
<1>1. \A j \in Jobs : j # NoJob
  BY DEF Jobs, NoJob
<1>2. CASE Welcome = 0
  <2>1. ledger = <<>> /\ Len(ledger) = 0
    BY <1>2 DEF WalletInit, WelcomeLedger
  <2>2. \A o : Total(ledger, o) = 0
    BY <2>1, SumToEmpty DEF Total
  <2>3. \A j \in Jobs : \A key : ~hasLedger(ledger, key, j)
    BY <2>1 DEF hasLedger
  <2> QED
    BY <1>2, <2>2, <2>3
<1>3. CASE Welcome # 0
  <2>0. PICK l : /\ ledger = <<l>> /\ l.job = NoJob /\ l.amount = Welcome
    BY <1>3, RowFields DEF WalletInit, WelcomeLedger
  <2>1. Len(ledger) = 1 /\ DOMAIN ledger = {1} /\ ledger[1].job = NoJob /\ ledger[1].amount = Welcome
    BY <2>0
  <2>2. ASSUME NEW o PROVE Total(ledger, o) = IF o = NoJob THEN Welcome ELSE 0
    <3> DEFINE f == JobAmounts(ledger, o)
    <3>1. f[0+1] = IF o = NoJob THEN Welcome ELSE 0
      BY <2>1 DEF JobAmounts
    <3>2. f[0+1] \in Int
      BY <3>1, WalletAssumption
    <3> HIDE DEF f
    <3>3. \A i \in 1..0 : f[i] \in Int
      OBVIOUS
    <3>4. SumTo(f, 0+1) = SumTo(f, 0) + f[0+1]
      BY <3>2, <3>3, SumToAppend
    <3>5. SumTo(f, 1) = f[0+1]
      BY <3>2, <3>4, SumToEmpty
    <3> QED
      BY <2>1, <3>1, <3>5 DEF f, Total
  <2>3. \A j \in Jobs : \A key : ~hasLedger(ledger, key, j)
    BY <1>1, <2>1 DEF hasLedger
  <2> QED
    BY <1>1, <2>2, <2>3
<1>4. QED
  BY <1>2, <1>3

(* What the ledger says of one job agrees with its reservation.              *)
JobPaid(t, r) == t = -(r.captured + Residual(r))

(* Each thing that can happen to a reservation keeps them in agreement.      *)
LEMMA JobPaidStep ==
    ASSUME NEW r \in ReservationRow, NEW r2 \in ReservationRow, RowShape(r), RowShape(r2),
           NEW t \in Int, NEW amount \in Int, JobPaid(t, r),
           Opens(r, r2, amount) \/ Closes(r, r2, amount) \/ Relabels(r, r2, amount)
    PROVE  JobPaid(t + amount, r2)
BY DEF ReservationRow, RowShape, JobPaid, Residual, Opens, Closes, Closed, Relabels, NoRow

LEMMA JobPaysNext ==
    TypeInv /\ JobPaysWhatItCaptured /\ [WalletNext]_walletVars => JobPaysWhatItCaptured'
<1>1. SUFFICES ASSUME TypeInv, JobPaysWhatItCaptured, [WalletNext]_walletVars,
                      NEW x \in Jobs
               PROVE  JobPaid(Total(ledger', x), reservation'[x])
  BY DEF JobPaysWhatItCaptured, JobPaid, Total, JobAmounts, Residual
<1>2. JobPaid(Total(ledger, x), reservation[x])
  BY <1>1 DEF JobPaysWhatItCaptured, JobPaid, Total
<1>3. /\ reservation \in [Jobs -> ReservationRow] /\ \A j \in Jobs : RowShape(reservation[j])
      /\ reservation' \in [Jobs -> ReservationRow] /\ \A j \in Jobs : RowShape(reservation'[j])
  BY <1>1, TypeNext DEF TypeInv, WalletTypeOK, RowsOK
<1>4. Total(ledger, x) \in Int
  <2>1. reservation[x] \in ReservationRow
    BY <1>3
  <2> QED
    BY <1>2, <2>1 DEF JobPaid, Residual, ReservationRow
<1>5. x \in Owners /\ x # NoJob
  BY DEF Owners, Jobs, NoJob
<1>6. CASE UNCHANGED walletVars
  BY <1>2, <1>6 DEF walletVars
<1>7. ASSUME NEW amount \in Int, FundsStep(amount)
      PROVE  JobPaid(Total(ledger', x), reservation'[x])
  <2>1. Total(ledger', x) = Total(ledger, x) + 0
    BY <1>5, <1>7 DEF FundsStep, Books
  <2>2. reservation' = reservation
    BY <1>7 DEF FundsStep
  <2> QED
    BY <1>2, <1>4, <2>1, <2>2
<1>8. ASSUME NEW j \in Jobs, NEW row \in ReservationRow, NEW amount \in Int,
             ReservationStep(j, row, amount)
      PROVE  JobPaid(Total(ledger', x), reservation'[x])
  <2>1. Total(ledger', x) = Total(ledger, x) + (IF x = j THEN amount ELSE 0)
    <3>1. CASE ledger' = ledger /\ amount = 0
      BY <1>4, <3>1
    <3>2. ASSUME NEW kinds, Books(ledger, ledger', j, amount, kinds)
          PROVE  Total(ledger', x) = Total(ledger, x) + (IF x = j THEN amount ELSE 0)
      BY <1>5, <3>2 DEF Books
    <3> QED
      BY <1>8, <3>1, <3>2 DEF ReservationStep, Relabels
  <2>2. reservation' = [reservation EXCEPT ![j] = row]
    BY <1>8 DEF ReservationStep
  <2>3. CASE x = j
    <3>1. reservation'[x] = row
      BY <1>3, <2>2, <2>3
    <3>2. Opens(reservation[x], row, amount) \/ Closes(reservation[x], row, amount)
          \/ Relabels(reservation[x], row, amount)
      BY <1>8, <2>3 DEF ReservationStep
    <3>3. RowShape(row) /\ RowShape(reservation[x]) /\ reservation[x] \in ReservationRow
      BY <1>3, <3>1
    <3>4. JobPaid(Total(ledger, x) + amount, row)
      BY <1>2, <1>4, <3>2, <3>3, JobPaidStep
    <3> QED
      BY <2>1, <2>3, <3>1, <3>4
  <2>4. CASE x # j
    <3>1. reservation'[x] = reservation[x]
      BY <1>3, <2>2, <2>4
    <3> QED
      BY <1>2, <1>4, <2>1, <2>4, <3>1
  <2> QED
    BY <2>3, <2>4
<1>9. QED
  BY <1>1, <1>6, <1>7, <1>8, MeaningStep

LEMMA JobPaysInit == WalletInit => JobPaysWhatItCaptured
<1>1. SUFFICES ASSUME WalletInit, NEW j \in Jobs
               PROVE  Total(ledger, j) = -(reservation[j].captured + Residual(reservation[j]))
  BY DEF JobPaysWhatItCaptured, Total
<1>2. reservation[j] = NoRow
  BY <1>1 DEF WalletInit
<1>3. QED
  BY <1>1, <1>2, TotalInit DEF NoRow, Residual

(* Over all its ledger rows a job has cost what it captured plus what it     *)
(* still holds, in whatever order captures, releases and their retries came. *)
THEOREM JobsPayWhatTheyCaptured == WalletSpec => []JobPaysWhatItCaptured
<1>1. WalletInit => TypeInv /\ JobPaysWhatItCaptured
  BY TypeInit, JobPaysInit
<1>2. TypeInv /\ JobPaysWhatItCaptured /\ [WalletNext]_walletVars
        => (TypeInv /\ JobPaysWhatItCaptured)'
  BY TypeNext, JobPaysNext
<1>3. QED
  BY <1>1, <1>2, PTL DEF WalletSpec

-----------------------------------------------------------------------------
(* Held credits can be given back.                                           *)

(* A release key of a job is used up only by closing its reservation.        *)
ReleaseKeysFree ==
    \A j \in Jobs, k \in ReleaseKinds :
        hasLedger(ledger, <<k, j>>, j) => reservation[j].status \in Closed

LEMMA KeysFreeNext ==
    TypeInv /\ ReleaseKeysFree /\ [WalletNext]_walletVars => ReleaseKeysFree'
<1>1. SUFFICES ASSUME TypeInv, ReleaseKeysFree, [WalletNext]_walletVars,
                      NEW x \in Jobs, NEW k \in ReleaseKinds,
                      hasLedger(ledger', <<k, x>>, x)
               PROVE  reservation'[x].status \in Closed
  BY DEF ReleaseKeysFree, hasLedger
<1>2. hasLedger(ledger, <<k, x>>, x) => reservation[x].status \in Closed
  BY <1>1 DEF ReleaseKeysFree
<1>3. reservation \in [Jobs -> ReservationRow]
  BY <1>1 DEF TypeInv, WalletTypeOK
<1>4. k \in JobKeyKinds /\ k # "reserve" /\ x # NoJob
  BY DEF ReleaseKinds, JobKeyKinds, Jobs, NoJob
<1>5. CASE UNCHANGED walletVars
  BY <1>1, <1>2, <1>5 DEF walletVars
<1>6. ASSUME NEW amount \in Int, FundsStep(amount) PROVE reservation'[x].status \in Closed
  BY <1>1, <1>2, <1>4, <1>6 DEF FundsStep, Books
<1>7. ASSUME NEW j \in Jobs, NEW row \in ReservationRow, NEW amount \in Int,
             ReservationStep(j, row, amount)
      PROVE  reservation'[x].status \in Closed
  <2>1. reservation' = [reservation EXCEPT ![j] = row]
    BY <1>7 DEF ReservationStep
  <2>2. CASE x # j
    <3>1. hasLedger(ledger, <<k, x>>, x)
      BY <1>1, <1>4, <1>7, <2>2 DEF ReservationStep, Books
    <3> QED
      BY <1>2, <1>3, <2>1, <2>2, <3>1
  <2>3. CASE x = j
    <3>1. reservation'[x] = row
      BY <1>3, <2>1, <2>3
    <3>2. CASE Opens(reservation[j], row, amount) /\ Books(ledger, ledger', j, amount, {"reserve"})
      <4>1. hasLedger(ledger, <<k, x>>, x)
        BY <1>1, <1>4, <3>2 DEF Books
      <4>2. reservation[x].status = "NONE"
        BY <2>3, <3>2 DEF Opens, NoRow
      <4> QED
        BY <1>2, <4>1, <4>2 DEF Closed
    <3>3. CASE Closes(reservation[j], row, amount) \/ Relabels(reservation[j], row, amount)
      BY <3>1, <3>3 DEF Closes, Relabels, Closed
    <3> QED
      BY <1>7, <3>2, <3>3 DEF ReservationStep
  <2> QED
    BY <2>2, <2>3
<1>8. QED
  BY <1>1, <1>5, <1>6, <1>7, MeaningStep

LEMMA KeysFreeInit == WalletInit => ReleaseKeysFree
BY TotalInit DEF ReleaseKeysFree

(* What one reservation holds is part of the reserved pool.                  *)
LEMMA ResidualInPool ==
    ASSUME TypeInv, ReservedIsResiduals, NEW j \in Jobs
    PROVE  Residual(reservation[j]) <= wallet.reserved
<1> DEFINE f == Residuals(reservation)
<1>1. \A i \in Jobs : reservation[i] \in ReservationRow /\ RowShape(reservation[i])
  BY DEF TypeInv, WalletTypeOK, RowsOK
<1>2. \A r \in ReservationRow : RowShape(r) => Residual(r) \in Nat
  BY DEF ReservationRow, RowShape, Residual, NoRow
<1>3. \A i \in 1..NumJobs : f[i] \in Nat /\ f[i] = Residual(reservation[i])
  BY <1>1, <1>2 DEF Residuals, Jobs
<1>4. wallet.reserved \in Int /\ j \in 1..NumJobs /\ NumJobs \in Nat
  BY WalletAssumption DEF TypeInv, WalletTypeOK, Image, Jobs
<1> HIDE DEF f
<1>5. f[j] <= SumTo(f, NumJobs) /\ SumTo(f, NumJobs) \in Int
  BY <1>3, <1>4, SumToBounds, SumToInt
<1>6. wallet.reserved = SumTo(f, NumJobs)
  BY <1>4, <1>5 DEF ReservedIsResiduals, Drift, f
<1>7. QED
  BY <1>3, <1>4, <1>5, <1>6

(* Credits held for a job can be given back at any time: no release key is   *)
(* used up while the reservation is open, and taking its credits out of the  *)
(* pool breaks no CHECK constraint (wallet.ts:321-391).                      *)
THEOREM HeldCreditsAreReleasable == WalletSpec => []HeldCreditsCanBeReleased
<1>1. WalletInit => TypeInv /\ ReservedIsResiduals /\ ReleaseKeysFree
  BY TypeInit, PoolInit, KeysFreeInit
<1>2. TypeInv /\ ReservedIsResiduals /\ ReleaseKeysFree /\ [WalletNext]_walletVars
        => (TypeInv /\ ReservedIsResiduals /\ ReleaseKeysFree)'
  BY TypeNext, PoolNext, KeysFreeNext
<1>3. TypeInv /\ ReservedIsResiduals /\ ReleaseKeysFree => HeldCreditsCanBeReleased
  <2>1. SUFFICES ASSUME TypeInv, ReservedIsResiduals, ReleaseKeysFree,
                        NEW j \in Jobs, reservation[j].status = "RESERVED"
                 PROVE  /\ \A k \in ReleaseKinds : ~hasLedger(ledger, <<k, j>>, j)
                        /\ Residual(reservation[j]) > 0
                        /\ Residual(reservation[j]) <= wallet.reserved
    BY DEF HeldCreditsCanBeReleased
  <2>2. reservation[j] \in ReservationRow /\ RowShape(reservation[j])
    BY <2>1 DEF TypeInv, WalletTypeOK, RowsOK
  <2>3. Residual(reservation[j]) > 0
    BY <2>1, <2>2 DEF ReservationRow, RowShape, Residual
  <2>4. \A k \in ReleaseKinds : ~hasLedger(ledger, <<k, j>>, j)
    BY <2>1 DEF ReleaseKeysFree, Closed
  <2> QED
    BY <2>1, <2>3, <2>4, ResidualInPool
<1>4. QED
  BY <1>1, <1>2, <1>3, PTL DEF WalletSpec

-----------------------------------------------------------------------------
(* A drifted wallet.                                                         *)

DriftStep == Drift' # Drift => Drift' = 0 /\ wallet'.balance = wallet.balance

LEMMA DriftNext == TypeInv /\ [WalletNext]_walletVars => DriftStep
<1>1. SUFFICES ASSUME TypeInv, [WalletNext]_walletVars PROVE DriftStep
  OBVIOUS
<1> DEFINE sum == SumTo(Residuals(reservation), NumJobs)
<1>2. wallet \in Image /\ wallet.reserved \in Int /\ reservation \in [Jobs -> ReservationRow]
  BY <1>1 DEF TypeInv, WalletTypeOK, Image
<1>3. \A r \in ReservationRow : Residual(r) \in Int
  BY DEF Residual, ReservationRow
<1>4. sum \in Int
  <2>1. \A i \in 1..NumJobs : Residuals(reservation)[i] \in Int
    BY <1>2, <1>3 DEF Residuals, Jobs
  <2> QED
    BY <2>1, SumToInt, WalletAssumption
<1>5. CASE reservation' = reservation /\ wallet'.reserved = wallet.reserved
  BY <1>5 DEF DriftStep, Drift, Residuals
<1>6. ASSUME NEW j \in Jobs, NEW row \in ReservationRow,
             reservation' = [reservation EXCEPT ![j] = row],
             wallet'.reserved = wallet.reserved + (Residual(row) - Residual(reservation[j]))
      PROVE  DriftStep
  <2>1. SumTo(Residuals(reservation'), NumJobs)
            = sum + (Residual(row) - Residual(reservation[j]))
    BY <1>2, <1>6, ResidualsUpdate
  <2>2. Residual(row) \in Int /\ Residual(reservation[j]) \in Int
    BY <1>2, <1>3
  <2>3. wallet'.reserved - SumTo(Residuals(reservation'), NumJobs) = wallet.reserved - sum
    <3> HIDE DEF sum
    <3> QED
      BY <1>2, <1>4, <1>6, <2>1, <2>2
  <2>4. Drift' = Drift
    BY <2>3 DEF Drift, Residuals
  <2> QED
    BY <2>4 DEF DriftStep
<1>7. ASSUME NEW r \in Refs, RepairReservationInvariant(r) PROVE DriftStep
  <2>1. reservation' = reservation /\ wallet' = [wallet EXCEPT !.reserved = sum]
    BY <1>7 DEF RepairReservationInvariant, Write
  <2> HIDE DEF sum
  <2>2. wallet'.reserved = sum /\ wallet'.balance = wallet.balance
    BY <1>2, <2>1 DEF Image
  <2>3. SumTo(Residuals(reservation'), NumJobs) = sum
    BY <2>1 DEF sum
  <2>4. wallet'.reserved - SumTo(Residuals(reservation'), NumJobs) = 0
    BY <1>4, <2>2, <2>3
  <2> QED
    BY <2>2, <2>4 DEF DriftStep, Drift, Residuals
<1>8. QED
  BY <1>1, <1>5, <1>6, <1>7, PoolStep

(* From any typed wallet, drifted or not, only the repair changes the drift, *)
(* and it removes all of it without touching the balance (wallet.ts:667-713). *)
THEOREM RepairAloneChangesDrift ==
    TypeInv /\ [][WalletNext]_walletVars => OnlyRepairChangesDrift
<1>1. TypeInv /\ [WalletNext]_walletVars => [DriftStep]_walletVars
  BY DriftNext
<1>2. TypeInv /\ [][WalletNext]_walletVars => [][DriftStep]_walletVars
  BY <1>1, TypeNext, PTL
<1>3. QED
  BY <1>2 DEF DriftStep, OnlyRepairChangesDrift

-----------------------------------------------------------------------------
(* The transactions implement CreditAccount.                                 *)

AHold == [j \in Jobs |-> HoldOf(reservation[j])]

LEMMA HoldOfFields ==
    ASSUME NEW r \in ReservationRow
    PROVE  /\ r.status = "NONE" => HoldOf(r) = [state |-> "none", amount |-> r.reserved, paid |-> r.captured]
           /\ r.status = "RESERVED" => HoldOf(r) = [state |-> "held", amount |-> r.reserved, paid |-> r.captured]
           /\ r.status \in Closed => HoldOf(r) = [state |-> "closed", amount |-> r.reserved, paid |-> r.captured]
BY DEF HoldOf, ReservationRow, Closed

LEMMA AccountInitMaps == WalletInit => Account!AccountInit
<1>1. SUFFICES ASSUME WalletInit PROVE Account!AccountInit
  OBVIOUS
<1>2. Total(ledger, NoJob) = Welcome /\ Welcome \in Nat
  BY <1>1, TotalInit, WalletAssumption
<1>3. wallet.balance = Welcome
  BY <1>1 DEF WalletInit
<1>4. HoldOf(NoRow) = Account!NoHold
  BY DEF HoldOf, NoRow, Account!NoHold
<1>5. AHold = [j \in Jobs |-> Account!NoHold]
  BY <1>1, <1>4 DEF WalletInit, AHold
<1>6. QED
  BY <1>2, <1>3, <1>5 DEF Account!AccountInit, Account!AccountJobs, Jobs, AHold, Total

LEMMA AccountStepMaps ==
    TypeInv /\ TypeInv' /\ [WalletNext]_walletVars => [Account!AccountNext]_(Account!accountVars)
<1>1. SUFFICES ASSUME TypeInv, TypeInv', [WalletNext]_walletVars
               PROVE  [Account!AccountNext]_(Account!accountVars)
  OBVIOUS
<1> DEFINE F == Total(ledger, NoJob)
           A == wallet.balance
           H == AHold
<1>2. /\ wallet \in Image /\ A \in Int /\ ledger \in Seq(LedgerRow)
      /\ reservation \in [Jobs -> ReservationRow] /\ reservation' \in [Jobs -> ReservationRow]
      /\ \A j \in Jobs : RowShape(reservation[j])
  BY <1>1 DEF TypeInv, WalletTypeOK, RowsOK, Image
<1>3. \A j \in Jobs : j # NoJob
  BY DEF Jobs, NoJob
<1>4. CASE UNCHANGED walletVars
  BY <1>4 DEF walletVars, Account!accountVars
<1>5. ASSUME NEW amount \in Int, FundsStep(amount)
      PROVE  [Account!AccountNext]_(Account!accountVars)
  <2>1. F \in Int /\ NoJob \in Owners
    BY <1>2, TotalInt DEF Owners
  <2>2. /\ Total(ledger', NoJob) = F + amount
        /\ wallet'.balance = A + amount /\ wallet'.balance >= 0
        /\ reservation' = reservation
    BY <1>5, <2>1 DEF FundsStep, Books
  <2>3. F' = F + amount /\ A' = A + amount /\ A' >= 0 /\ H' = H
    BY <2>2 DEF Total, JobAmounts, AHold
  <2> HIDE DEF F, A, H
  <2>4. CASE amount = 0
    <3>1. F' = F /\ A' = A /\ H' = H
      BY <1>2, <2>1, <2>3, <2>4
    <3> QED
      BY <3>1 DEF F, A, H, Total, AHold, Account!accountVars
  <2>5. CASE amount # 0
    <3>1. F' \in Int /\ F' # F /\ A' = A + (F' - F) /\ A' >= 0 /\ H' = H
      BY <1>2, <2>1, <2>3, <2>5
    <3>2. Account!Fund
      BY <3>1 DEF F, A, H, Total, AHold, Account!Fund
    <3> QED
      BY <3>2 DEF Account!AccountNext
  <2> QED
    BY <2>4, <2>5
<1>6. ASSUME NEW j \in Jobs, NEW row \in ReservationRow, NEW amount \in Int,
             ReservationStep(j, row, amount)
      PROVE  [Account!AccountNext]_(Account!accountVars)
  <2>1. F \in Int /\ NoJob \in Owners /\ j # NoJob
    BY <1>2, <1>3, TotalInt DEF Owners
  <2>2. reservation' = [reservation EXCEPT ![j] = row] /\ A' = A + amount
        /\ reservation[j] \in ReservationRow /\ RowShape(reservation[j])
    BY <1>2, <1>6 DEF ReservationStep
  <2>3. F' = F
    <3>1. CASE ledger' = ledger
      BY <3>1 DEF Total
    <3>2. ASSUME NEW kinds, Books(ledger, ledger', j, amount, kinds) PROVE F' = F
      <4>1. Total(ledger', NoJob) = F + 0
        BY <2>1, <3>2 DEF Books
      <4>2. F' = F + 0
        BY <4>1 DEF Total, JobAmounts
      <4> HIDE DEF F
      <4> QED
        BY <2>1, <4>2
    <3> QED
      BY <1>6, <3>1, <3>2 DEF ReservationStep
  <2>4. H' = [H EXCEPT ![j] = HoldOf(row)]
    BY <1>2, <2>2 DEF AHold
  <2>5. H[j] = HoldOf(reservation[j])
    BY DEF AHold
  <2>6. j \in Account!AccountJobs
    BY DEF Account!AccountJobs, Jobs
  <2> HIDE DEF F, A, H
  <2>7. CASE Opens(reservation[j], row, amount) /\ wallet'.balance >= 0
    <3>1. HoldOf(row) = [state |-> "held", amount |-> -amount, paid |-> 0]
      BY <2>7, HoldOfFields DEF Opens
    <3>2. H[j].state = "none"
      BY <2>2, <2>5, <2>7, HoldOfFields DEF Opens, NoRow
    <3>3. A' \in 0..(A - 1) /\ A - A' = -amount
      <4>1. A' >= 0
        BY <2>7 DEF A
      <4>2. amount < 0
        BY <2>7 DEF Opens
      <4> QED
        BY <1>2, <2>2, <4>1, <4>2
    <3>4. H' = [H EXCEPT ![j] = [state |-> "held", amount |-> A - A', paid |-> 0]]
      BY <2>4, <3>1, <3>3
    <3>5. Account!Hold(j)
      BY <2>3, <3>2, <3>3, <3>4 DEF F, A, H, Total, AHold, Account!Hold
    <3> QED
      BY <2>6, <3>5 DEF Account!AccountNext
  <2>8. CASE Closes(reservation[j], row, amount)
    <3>1. HoldOf(row) = [state |-> "closed", amount |-> reservation[j].reserved,
                         paid |-> reservation[j].reserved - amount]
      BY <2>8, HoldOfFields DEF Closes
    <3>2. H[j].state = "held" /\ H[j].amount = reservation[j].reserved
          /\ reservation[j].reserved \in Nat
      BY <2>2, <2>5, <2>8, HoldOfFields DEF Closes, ReservationRow
    <3>3. amount \in 0..H[j].amount
      BY <2>8, <3>2 DEF Closes
    <3>4. A' \in A..(A + H[j].amount) /\ A + H[j].amount - A' = H[j].amount - amount
      BY <1>2, <2>2, <3>2, <3>3
    <3>5. H' = [H EXCEPT ![j] = [state |-> "closed", amount |-> H[j].amount,
                                 paid |-> A + H[j].amount - A']]
      BY <2>4, <3>1, <3>2, <3>4
    <3>6. Account!Close(j)
      BY <2>3, <3>2, <3>4, <3>5 DEF F, A, H, Total, AHold, Account!Close
    <3> QED
      BY <2>6, <3>6 DEF Account!AccountNext
  <2>9. CASE Relabels(reservation[j], row, amount)
    <3>1. HoldOf(row) = HoldOf(reservation[j])
      BY <2>2, <2>9, HoldOfFields DEF Relabels, Closed
    <3>2. H' = H
      BY <2>4, <2>5, <3>1 DEF H, AHold
    <3>3. A' = A
      <4>1. A' = A + 0
        BY <2>2, <2>9 DEF Relabels
      <4> QED
        BY <1>2, <4>1
    <3> QED
      BY <2>3, <3>2, <3>3 DEF F, A, H, Total, AHold, Account!accountVars
  <2> QED
    BY <1>6, <2>7, <2>8, <2>9 DEF ReservationStep
<1>7. QED
  BY <1>1, <1>4, <1>5, <1>6, MeaningStep

(* The transactions on three tables, with their keys, early returns and      *)
(* retries, promise what CreditAccount says: funds move only by funding, a   *)
(* hold is placed once on available funds and closed once.                   *)
THEOREM WalletImplementsAccount == WalletSpec => ImplementsAccount
<1>1. WalletSpec => []TypeInv
  BY WalletTypes
<1>2. TypeInv /\ TypeInv' /\ [WalletNext]_walletVars => [Account!AccountNext]_(Account!accountVars)
  BY AccountStepMaps
<1>3. QED
  BY <1>1, <1>2, AccountInitMaps, PTL DEF WalletSpec, ImplementsAccount, Account!AccountSpec
=============================================================================
