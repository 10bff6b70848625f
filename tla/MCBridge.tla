------------------------------ MODULE MCBridge ------------------------------
(***************************************************************************)
(* Small instances of the bridge: one order, the two clocks a second       *)
(* apart, and the route tuples the windows are tightest under.             *)
(***************************************************************************)
EXTENDS ProofBridge, MCAdManager

\* No stagger and no margin: the unlock and the cancel meet at the window's end.
T3 == [min_window |-> 1, buffer |-> 2, margin |-> 0, claim_stagger |-> 0]
BareTiming == <<T3>>
Retimed    == <<T3, T2>>

BridgerIs == [o \in Orders |-> "bridger"]
PayeeIs   == [o \in Orders |-> "payee"]

-----------------------------------------------------------------------------
(* The instance of the liveness.  A maker halts under its order and keeps it *)
(* on: a halt it takes back refuses the payout no longer and delays no less. *)

HaltsForGood ==
  \/ UNCHANGED halt
  \/ \E o \in Orders : adStatus[o] \in Live /\ ~halt[Maker(o)].halted

LiveSpec == BridgeInit /\ [][FairNext /\ HaltsForGood]_bridgeVars /\ BridgeFairness
=============================================================================
