--------------------------- MODULE MCCounterparts ---------------------------
(***************************************************************************)
(* A contract against any counterpart: the dispute module under escrows    *)
(* that make any call its interface lets them make, or the order portal,   *)
(* with two deposits of one bridger, against an ad chain that may show it  *)
(* any leaf, in any order.  A behaviour runs one of them.                  *)
(***************************************************************************)
EXTENDS DisputeManager, OrderPortal

T1 == [min_window |-> 1, buffer |-> 1, margin |-> 0, claim_stagger |-> 0]
Shortest  == <<T1>>
Deadlines == [o \in Orders |-> IF o = "o1" THEN 2 ELSE 3]
Amounts   == [o \in Orders |-> IF o = "o1" THEN 1 ELSE 3]
BridgerIs == [o \in Orders |-> "bridger"]
PayeeIs   == [o \in Orders |-> "payee"]

OneParams  == {[challenge_period |-> 1, bond_floor |-> 1]}
RouteBonds == {[min_bond |-> 0, bond_bps |-> 0], [min_bond |-> 2, bond_bps |-> 10000]}

VARIABLE contract

moduleVars == <<adNow, dmVars>>

CounterpartsInit ==
  /\ contract \in {"dispute_manager", "order_portal"}
  /\ ModuleInit
  /\ OrderPortalInit
  /\ contract = "order_portal" =>
       \A m \in Modules : dmParams[m] = Nil /\ bondConfig[m] = Nil /\ feePool[m] = Nil
  /\ contract = "dispute_manager" => opAnchorDelay = 0

CounterpartsNext ==
  \/ contract = "dispute_manager" /\ DisputeManagerNext /\ UNCHANGED <<contract, orderChainVars>>
  \/ contract = "order_portal" /\ OpNext /\ UNCHANGED <<contract, moduleVars>>

CounterpartsSpec ==
  CounterpartsInit /\ [][CounterpartsNext]_<<contract, moduleVars, orderChainVars>>
=============================================================================
