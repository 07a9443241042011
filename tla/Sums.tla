-------------------------------- MODULE Sums --------------------------------
(***************************************************************************)
(* Iterator::sum: f[1] + ... + f[n].  It is a recursive function on the    *)
(* positions, so that it can be reasoned about (see RetainProofs).         *)
(***************************************************************************)
EXTENDS Naturals

SumOf(f, n) ==
    LET sum[i \in 0..n] == IF i = 0 THEN 0 ELSE sum[i - 1] + f[i]
    IN  sum[n]
=============================================================================
