-------------------------- MODULE ProofBridgeCore --------------------------
(***************************************************************************)
(* What both escrows share, the crate proofbridge-core: an order's status, *)
(* the domains of the Merkle leaves, the route timing, the dispute         *)
(* outcomes and the bond rule.  Nothing here changes state.                *)
(*                                                                         *)
(* An order stands for its OrderParams: the order hash binds every field,  *)
(* so what the contracts read from the parameters is a constant function   *)
(* of the order.                                                           *)
(***************************************************************************)
EXTENDS Integers, Sequences, Sums

CONSTANTS
  Orders,           \* the orders, each named by its hash
  Deadline,         \* [Orders -> Nat], OrderParams.deadline
  Amount,           \* [Orders -> Nat], the order's amount in ad-chain units
  Timings,          \* the route-timing tuples an admin may write, in order
  MaxOrderWindow,   \* timing::MAX_ORDER_WINDOW
  MinBuffer,        \* timing::MIN_BUFFER
  MaxBuffer,        \* timing::MAX_BUFFER
  MaxTime,          \* bound: no clock runs past this ledger timestamp
  Unpayable,        \* payees a transfer may fail for (no trustline, frozen)
  Nil               \* an absent value (Rust's Option::None)

-----------------------------------------------------------------------------
(* Order status and leaf domains *)

Status ==
  {"None", "Open", "Claimed", "Disputed", "Filled", "Cancelled", "Resolved"}

\* An order that still holds its escrowed amount: what a fill, a cancel or a
\* dispute may end.
Live == {"Open", "Claimed", "Disputed"}

Terminal == {"Filled", "Cancelled", "Resolved"}

Domain == {"ORDER", "AD", "CANCEL", "SETTLED", "FORFEIT"}

Leaves == Orders \X Domain

-----------------------------------------------------------------------------
(* Route timing *)

RouteTiming ==
  [min_window : Nat, buffer : Nat, margin : Nat, claim_stagger : Nat]

\* timing::validate
ValidTiming(t) ==
  /\ MinBuffer <= t.buffer /\ t.buffer <= MaxBuffer
  /\ 2 * t.margin <= t.buffer
  /\ t.claim_stagger # 0 => t.claim_stagger < t.min_window
  /\ t.margin <= t.min_window
  /\ 2 * t.min_window <= MaxOrderWindow

\* The version an order opens under: the route's latest.  Version 0 is a route
\* whose timing was never set.
Versions == 0..Len(Timings)

-----------------------------------------------------------------------------
(* Disputes *)

Outcome ==
  {"None", "MutualRefund", "TradeProceeds", "BridgerForfeit", "MakerForfeit"}

\* dispute::bond_returns_to_filer: the outcome is the finding on the filer.
BondReturnsToFiler(outcome, filerIsBridger, returnToFiler) ==
  \/ returnToFiler
  \/ outcome = "MutualRefund"
  \/ outcome = "MakerForfeit" /\ filerIsBridger
  \/ outcome = "BridgerForfeit" /\ ~filerIsBridger

Later(a, b) == IF a >= b THEN a ELSE b

\* u64::saturating_sub: a time before the epoch is the epoch.
SatSub(a, b) == IF a >= b THEN a - b ELSE 0

-----------------------------------------------------------------------------

\* Deadlines and timings are what the contracts accept: u64 values, and only
\* tuples timing::validate lets through are ever stored.
ASSUME CoreAssumption ==
  /\ Deadline \in [Orders -> Nat]
  /\ Amount \in [Orders -> Nat \ {0}]
  /\ Timings \in Seq(RouteTiming)
  /\ \A v \in 1..Len(Timings) : ValidTiming(Timings[v])
  /\ MaxTime \in Nat /\ MaxOrderWindow \in Nat
  /\ MinBuffer \in Nat \ {0} /\ MaxBuffer \in Nat

\* An order hash is 32 bytes, so there are finitely many orders to sum over.
ASSUME FiniteOrders == IsFiniteSet(Orders)
=============================================================================
