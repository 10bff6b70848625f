------------------------------- MODULE Sums -------------------------------
(***************************************************************************)
(* Sums of amounts, for the properties about money.                        *)
(***************************************************************************)
EXTENDS Integers, FiniteSets, FiniteSetsExt

\* The sum of f[x] for x in S.
SumOver(S, f) == MapThenSumSet(LAMBDA x : f[x], S)
=============================================================================
