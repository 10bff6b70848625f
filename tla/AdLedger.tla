----------------------------- MODULE AdLedger -----------------------------
(***************************************************************************)
(* The ledger the ad chain's contracts run on.  They share its clock and   *)
(* nothing else: a call is one atomic transaction, so each action of the   *)
(* modules below reads one timestamp.                                      *)
(***************************************************************************)
EXTENDS ProofBridgeCore

VARIABLE
  adNow             \* env.ledger().timestamp() on the ad chain

\* A live ledger's timestamp is never zero.
AdLedgerInit == adNow = 1

AdLedgerTypeOK == adNow \in Nat

\* The ledger closes; timestamps never go back.
AdTick ==
  /\ adNow < MaxTime
  /\ adNow' = adNow + 1
=============================================================================
