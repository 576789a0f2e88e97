-------------------------------- MODULE Sums --------------------------------
(* Sums of the values of a function: sizes of attributes and of LSAs,      *)
(* metrics of a path.                                                      *)
EXTENDS Integers, FiniteSetsExt

Sum(f) == MapThenSumSet(LAMBDA i : f[i], DOMAIN f)
=============================================================================
