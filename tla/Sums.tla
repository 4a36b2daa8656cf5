-------------------------------- MODULE Sums --------------------------------
(***************************************************************************)
(* Finite sums over functions indexed from 0, written as a recursive       *)
(* function so that modules with proofs can use them.                      *)
(***************************************************************************)
EXTENDS Integers

(* f[0] + ... + f[n - 1] *)
SumTo(f, n) ==
    LET s[i \in 0..n] == IF i = 0 THEN 0 ELSE s[i - 1] + f[i - 1]
    IN  s[n]
=============================================================================
