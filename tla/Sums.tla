-------------------------------- MODULE Sums --------------------------------
(* Sums over an index range, as a recursive function so that the provers can *)
(* reason about it (SumsProofs) and TLC can evaluate it.                     *)
EXTENDS Integers

(* The partial sums 0, f[1], f[1] + f[2], ... of f up to index n.            *)
IsPartialSum(p, f, n) ==
    /\ p[0] = 0
    /\ \A i \in 1..n : p[i] = p[i-1] + f[i]

(* f[1] + ... + f[n]; 0 when n = 0.                                          *)
SumTo(f, n) ==
    LET p[i \in 0..n] == IF i = 0 THEN 0 ELSE p[i-1] + f[i]
    IN  p[n]
=============================================================================
