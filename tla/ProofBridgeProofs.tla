------------------------- MODULE ProofBridgeProofs -------------------------
(***************************************************************************)
(* What becomes of a deposit on the order chain, for an ad chain that may  *)
(* show it anything; then the two legs of a trade together, proved for any *)
(* number of orders, any skew of the two clocks and any order in which     *)
(* calls, co-signatures and anchored roots arrive.                         *)
(*                                                                         *)
(* A chain trusts a leaf of the other as long as what the leaf says stays  *)
(* true there.  So the invariant says of each leaf a chain was shown, and  *)
(* of each co-signed pair, what it stands for (EvidenceOK), and of each    *)
(* fate of an order on one leg, what the other leg must then have done     *)
(* (FatesOK).  That what a leaf stands for lasts is EndedStays and         *)
(* DepositGoesOnce, the per-chain results.  On the same invariant rests    *)
(* that the two escrows implement the abstract Trade.                      *)
(*                                                                         *)
(* Last, the bridger that acts before its clocks run out (DiligentBridge): *)
(* it either gets the lock on the pair, or the refusal of the pair is      *)
(* marked and the grace that earns outlasts the evidence it falls back on. *)
(* Only this part rests on DiligenceAssumption and AdDenialAssumption.     *)
(***************************************************************************)
EXTENDS DiligentBridge, AdDenialProofs

-----------------------------------------------------------------------------
(* The order chain alone.                                                  *)

OpStatus == {"None", "Open", "Filled", "Cancelled"}

OpLegTypes ==
  /\ orderNow \in Nat
  /\ opTiming \in Versions \ {0}
  /\ opStatus \in [Orders -> OpStatus]
  /\ opOpenedUnder \in [Orders -> Versions]
  /\ opLeaves \subseteq Leaves
  /\ adAnchored \in [Leaves -> Nat]

\* What this chain's leaves say of an order to the ad chain, and that only a
\* filled order is marked recorded.
OpLeavesOK(o) ==
  /\ o \in opSettled => opStatus[o] = "Filled"
  /\ <<o, "AD">> \in opLeaves => opStatus[o] # "None"
  /\ <<o, "SETTLED">> \in opLeaves => opStatus[o] = "Filled"

\* The inductive invariant.
OpLegInv == OpLegTypes /\ \A o \in Orders : OpLeavesOK(o)

\* What a step may do to a deposit: it never reopens or restamps one, it takes
\* none back, nor a leaf, and a refund follows an anchored CANCEL leaf.
DepositStep(o) ==
  /\ \A d \in Domain : <<o, d>> \in opLeaves => <<o, d>> \in opLeaves'
  /\ opStatus[o] \in Terminal => opStatus'[o] = opStatus[o]
  /\ opStatus[o] # "None" =>
       opStatus'[o] # "None" /\ opOpenedUnder'[o] = opOpenedUnder[o]
  /\ opStatus'[o] = "Cancelled" =>
       opStatus[o] = "Cancelled" \/ adAnchored[<<o, "CANCEL">>] # 0

\* What a step has to show.
OpGoal == OpLegInv' /\ \A o \in Orders : DepositStep(o)

LEMMA OpLegInvInit ==
  ASSUME OrderPortalInit
  PROVE  OpLegInv
<1>1. 1 \in Versions \ {0} /\ 0 \in Versions
  <2>1. Len(Timings) \in Nat /\ Len(Timings) >= 1
    BY CoreAssumption, OrderPortalAssumption
  <2> QED
    BY <2>1 DEF Versions
<1> QED
  BY <1>1 DEF OrderPortalInit, OpLegInv, OpLegTypes, OpLeavesOK, OpStatus

\* The legs stay and the clock, the wiring or the anchored leaves move.
LEMMA OpQuietGoal ==
  ASSUME OpLegInv, UNCHANGED opLegs, orderNow' \in Nat,
         opTiming' \in Versions \ {0}, adAnchored' \in [Leaves -> Nat]
  PROVE  OpGoal
<1> QED
  BY DEF OpGoal, OpLegInv, OpLegTypes, OpLeavesOK, DepositStep, opLegs,
         OpStatus, Terminal

\* An order ends, for a reason that lets it end that way.
LEMMA EndOrderGoal ==
  ASSUME OpLegInv, NEW o \in Orders, NEW status \in {"Filled", "Cancelled"},
         opStatus[o] \in Live, EndOrder(o, status),
         status = "Cancelled" => adAnchored[<<o, "CANCEL">>] # 0,
         opSettled' \subseteq opSettled \cup {o},
         status = "Cancelled" => opSettled' = opSettled,
         UNCHANGED <<orderNow, opConfig, opLeaves, adAnchored>>
  PROVE  OpGoal
<1> USE DEF OpLegInv, OpLegTypes, OpStatus
<1>1. /\ opStatus' \in [Orders -> OpStatus]
      /\ opStatus'[o] = status
      /\ \A q \in Orders \ {o} : opStatus'[q] = opStatus[q]
      /\ opOpenedUnder' = opOpenedUnder
  BY DEF EndOrder
<1>2. OpLegTypes'
  BY <1>1 DEF opConfig
<1>3. <<o, "SETTLED">> \notin opLeaves /\ o \notin opSettled
  BY DEF OpLeavesOK, Live
<1>4. ASSUME NEW q \in Orders
      PROVE  OpLeavesOK(q)' /\ DepositStep(q)
  <2>1. CASE q = o
    BY <1>1, <1>3, <2>1 DEF OpLeavesOK, DepositStep, Live, Terminal
  <2>2. CASE q # o
    BY <1>1, <2>2 DEF OpLeavesOK, DepositStep
  <2> QED
    BY <2>1, <2>2
<1> QED
  BY <1>2, <1>4 DEF OpGoal

LEMMA CreateOrderGoal ==
  ASSUME OpLegInv, NEW o \in Orders, CreateOrder(o),
         UNCHANGED <<orderNow, opConfig, adAnchored>>
  PROVE  OpGoal
<1> USE DEF OpLegInv, OpLegTypes, OpStatus
<1>1. /\ opStatus' \in [Orders -> OpStatus]
      /\ opStatus[o] = "None" /\ opStatus'[o] = "Open"
      /\ \A q \in Orders \ {o} : opStatus'[q] = opStatus[q]
  BY DEF CreateOrder
<1>2. /\ opOpenedUnder' \in [Orders -> Versions]
      /\ \A q \in Orders \ {o} : opOpenedUnder'[q] = opOpenedUnder[q]
  BY DEF CreateOrder
<1>3. /\ opLeaves' = opLeaves \cup {<<o, "AD">>} /\ <<o, "AD">> \in Leaves
      /\ opSettled' = opSettled
  BY DEF CreateOrder, Leaves, Domain
<1>4. OpLegTypes'
  BY <1>1, <1>2, <1>3 DEF opConfig
<1>5. ASSUME NEW q \in Orders
      PROVE  OpLeavesOK(q)' /\ DepositStep(q)
  <2>1. CASE q = o
    BY <1>1, <1>3, <2>1 DEF OpLeavesOK, DepositStep, Terminal
  <2>2. CASE q # o
    BY <1>1, <1>2, <1>3, <2>2 DEF OpLeavesOK, DepositStep
  <2> QED
    BY <2>1, <2>2
<1> QED
  BY <1>4, <1>5 DEF OpGoal

LEMMA RecordOrderGoal ==
  ASSUME OpLegInv, NEW o \in Orders, RecordOrderSettled(o),
         UNCHANGED <<orderNow, opConfig, adAnchored>>
  PROVE  OpGoal
<1> USE DEF OpLegInv, OpLegTypes
<1>1. /\ opLeaves' = opLeaves \cup {<<o, "SETTLED">>} /\ <<o, "SETTLED">> \in Leaves
      /\ opSettled' = opSettled \cup {o}
  BY DEF RecordOrderSettled, Leaves, Domain
<1>2. opStatus[o] = "Filled" /\ UNCHANGED <<opStatus, opOpenedUnder>>
  BY DEF RecordOrderSettled
<1>3. OpLegTypes'
  BY <1>1, <1>2 DEF opConfig
<1>4. ASSUME NEW q \in Orders
      PROVE  OpLeavesOK(q)' /\ DepositStep(q)
  BY <1>1, <1>2 DEF OpLeavesOK, DepositStep
<1> QED
  BY <1>3, <1>4 DEF OpGoal

LEMMA OpOrderGoal ==
  ASSUME OpLegInv, OpOrderNext
  PROVE  OpGoal
<1>1. PICK o \in Orders :
        \/ CreateOrder(o) \/ RefundByCancel(o) \/ PresentAdSettled(o)
        \/ PayMakerByForfeit(o) \/ RecordOrderSettled(o)
  BY DEF OpOrderNext
<1>2. UNCHANGED <<orderNow, opConfig, adAnchored>>
  BY DEF OpOrderNext
<1>3. CASE CreateOrder(o)
  BY <1>2, <1>3, CreateOrderGoal
<1>4. CASE RefundByCancel(o)
  BY <1>2, <1>4, EndOrderGoal DEF RefundByCancel, Presentable, AdLeafProvable
<1>5. CASE PresentAdSettled(o)
  BY <1>2, <1>5, EndOrderGoal DEF PresentAdSettled, Presentable
<1>6. CASE PayMakerByForfeit(o)
  BY <1>2, <1>6, EndOrderGoal DEF PayMakerByForfeit, Presentable
<1>7. CASE RecordOrderSettled(o)
  BY <1>2, <1>7, RecordOrderGoal
<1> QED
  BY <1>1, <1>3, <1>4, <1>5, <1>6, <1>7

LEMMA OpUnlockGoal ==
  ASSUME OpLegInv, NEW o \in Orders, OpUnlockNext(o)
  PROVE  OpGoal
<1> QED
  BY EndOrderGoal DEF OpUnlockNext, UnlockOrder, Live

LEMMA OpLocalGoal ==
  ASSUME OpLegInv, OpLocalNext
  PROVE  OpGoal
<1> USE DEF OpLegInv, OpLegTypes
<1>1. CASE OpAdminNext
  <2>1. UNCHANGED <<orderNow, opLegs, adAnchored>>
    BY <1>1 DEF OpAdminNext
  <2>2. opTiming' \in Versions \ {0}
    <3>1. opTiming \in Nat \ {0}
      BY CoreAssumption DEF Versions
    <3> QED
      BY <1>1, <3>1 DEF OpAdminNext, OpPause, OpSetRouteTiming, OpSetRoute,
                        OpSetRootVerifier, OpSetAnchorDelay
  <2> QED
    BY <2>1, <2>2, OpQuietGoal
<1>2. CASE OpSetRootAnchor
  BY <1>2, OpQuietGoal DEF OpSetRootAnchor
<1>3. CASE OpOrderNext
  BY <1>3, OpOrderGoal
<1>4. CASE OpClaimNext
  BY <1>4, OpQuietGoal DEF OpClaimNext, OpClaim, opConfig
<1> QED
  BY <1>1, <1>2, <1>3, <1>4 DEF OpLocalNext

LEMMA OpAnchorGoal ==
  ASSUME OpLegInv, NEW leaf \in AdChainLeaves, OpAnchorLeafNext(leaf)
  PROVE  OpGoal
<1> USE DEF OpLegInv, OpLegTypes
<1>1. adAnchored' \in [Leaves -> Nat]
  BY DEF OpAnchorLeafNext, AnchorAdLeaf
<1> QED
  BY <1>1, OpQuietGoal DEF OpAnchorLeafNext, opConfig

LEMMA OpTickGoal ==
  ASSUME OpLegInv, OpTickNext \/ UNCHANGED orderChainVars
  PROVE  OpGoal
<1> USE DEF OpLegInv, OpLegTypes
<1>1. orderNow' \in Nat /\ UNCHANGED <<opConfig, opLegs, adAnchored>>
  BY DEF OpTickNext, orderChainVars
<1> QED
  BY <1>1, OpQuietGoal DEF opConfig

LEMMA OpLegInvStep ==
  ASSUME OpLegInv, [OpNext]_orderChainVars
  PROVE  OpGoal
<1> QED
  BY OpLocalGoal, OpUnlockGoal, OpAnchorGoal, OpTickGoal DEF OpNext

\* The leaves of the order chain never claim more than what happened to the
\* deposit: AD only for an order that was created, SETTLED only for a filled one.
THEOREM OpLegInvariant == OpSpec => []OpLegInv
<1>1. OpLegInv /\ [OpNext]_orderChainVars => OpLegInv'
  BY OpLegInvStep DEF OpGoal
<1> QED
  BY <1>1, OpLegInvInit, PTL DEF OpSpec

\* No step of the order portal reopens a deposit that was paid or refunded, nor
\* moves an order to another timing version.
THEOREM DepositsStayWhereTheyWent == OpSpec => DepositGoesOnce
<1>1. OpLegInv /\ [OpNext]_orderChainVars => [DepositsStay]_orderChainVars
  BY OpLegInvStep DEF OpGoal, DepositStep, DepositsStay
<1> QED
  BY <1>1, OpLegInvariant, PTL DEF OpSpec, DepositGoesOnce

-----------------------------------------------------------------------------
(* The money.  Everything an order does to it is one of three moves, and a   *)
(* claim is the fourth: a deposit comes in, it goes out or to the payee's    *)
(* credit, a credit goes out.                                                *)

\* What the money needs besides OpLegInv.
OpFundsTypes ==
  /\ opCredit \in [Accounts -> Nat]
  /\ opPaid \in [Accounts -> Nat]
  /\ opInFlight \in [Accounts -> Nat]
  /\ opVault \in Nat

\* The inductive invariant of the money.
OpFundsInv == OpFundsTypes /\ DepositsBacked /\ DepositPaidOnce

DepositMade(o) ==
  /\ opStatus[o] = "None"
  /\ opStatus' = [opStatus EXCEPT ![o] = "Open"]
  /\ opInFlight' = [opInFlight EXCEPT ![BridgerOf[o]] = @ + 1]
  /\ opVault' = opVault + Deposit[o]
  /\ UNCHANGED <<opCredit, opPaid>>

DepositPaid(o, status, to) ==
  /\ opStatus[o] = "Open"
  /\ EndOrder(o, status)
  /\ PayOrCredit(to, Deposit[o])
  /\ \/ status = "Filled" /\ to = AdRecipientOf[o]
     \/ status = "Cancelled" /\ to = BridgerOf[o]

CreditClaimed(p) == OpClaim(p) /\ UNCHANGED <<opStatus, opInFlight>>

MoneyStays == UNCHANGED <<opStatus, opInFlight, opFunds>>

\* Deposits are amounts, and an order has two payees.
LEMMA DepositTypes ==
  ASSUME NEW o \in Orders
  PROVE  /\ Deposit[o] \in Nat /\ BridgerOf[o] \in Accounts /\ AdRecipientOf[o] \in Accounts
         /\ \A S \in SUBSET Orders : IsFiniteSet(S) /\ AmountsOn(S, Deposit)
<1>1. \A S \in SUBSET Orders : IsFiniteSet(S)
  BY FiniteOrders, FS_Subset
<1>2. QED BY <1>1, OrderPortalAssumption DEF AmountsOn

LEMMA MoneyStaysOK ==
  ASSUME OpFundsInv, MoneyStays
  PROVE  OpFundsInv'
<1>1. OpHeld' = OpHeld /\ \A p \in Accounts : OpPaidFor(p)' = OpPaidFor(p)
  BY DEF MoneyStays, OpHeld, OpPaidFor
<1>2. QED BY <1>1 DEF MoneyStays, opFunds, OpFundsInv, OpFundsTypes, DepositsBacked,
                      DepositPaidOnce

LEMMA DepositMadeOK ==
  ASSUME OpLegTypes, OpFundsInv, NEW o \in Orders, DepositMade(o)
  PROVE  OpFundsInv'
<1>1. /\ opStatus'[o] = "Open" /\ opStatus[o] = "None"
      /\ \A q \in Orders \ {o} : opStatus'[q] = opStatus[q]
  BY DEF DepositMade, OpLegTypes
<1>2. OpHeld' = OpHeld \cup {o} /\ o \notin OpHeld
  BY <1>1 DEF OpHeld, Live
<1>3. \A p \in Accounts : OpPaidFor(p)' = OpPaidFor(p)
  BY <1>1 DEF OpPaidFor
<1>4. Deposit[o] \in Nat /\ BridgerOf[o] \in Accounts
      /\ IsFiniteSet(OpHeld) /\ AmountsOn(OpHeld, Deposit)
  BY DepositTypes DEF OpHeld
<1>5. SumOver(OpHeld, Deposit) \in Nat
      /\ SumOver(OpHeld', Deposit) = SumOver(OpHeld, Deposit) + Deposit[o]
  BY <1>2, <1>4, SumAdd, SumType
<1>6. SumOver(Accounts, opCredit) \in Nat
  BY FiniteAccounts, SumType DEF AmountsOn, OpFundsInv, OpFundsTypes
<1>7. opVault' = opVault + Deposit[o] /\ UNCHANGED <<opCredit, opPaid>>
  BY DEF DepositMade
<1>8. opInFlight' = [opInFlight EXCEPT ![BridgerOf[o]] = opInFlight[BridgerOf[o]] + 1]
  BY DEF DepositMade
<1>9. OpFundsTypes'
  BY <1>4, <1>7, <1>8 DEF OpFundsInv, OpFundsTypes
<1>10. DepositsBacked'
  BY <1>4, <1>5, <1>6, <1>7 DEF OpFundsInv, DepositsBacked, OpFundsTypes
<1>11. ASSUME NEW p \in Accounts
       PROVE  opInFlight'[p] = Cardinality({q \in OpHeld' : BridgerOf[q] = p})
  <2> DEFINE before == {q \in OpHeld : BridgerOf[q] = p}
  <2>1. opInFlight[p] = Cardinality(before) /\ opInFlight[p] \in Nat
    BY DEF OpFundsInv, DepositPaidOnce, OpFundsTypes
  <2>2. IsFiniteSet(before)
    BY <1>4, FS_Subset
  <2>3. CASE BridgerOf[o] = p
    <3>1. {q \in OpHeld' : BridgerOf[q] = p} = before \cup {o} /\ o \notin before
      BY <1>2, <2>3
    <3>2. Cardinality(before \cup {o}) = Cardinality(before) + 1
      BY <2>2, <3>1, FS_AddElement
    <3>3. opInFlight'[p] = opInFlight[p] + 1
      BY <1>4, <1>8, <2>3 DEF OpFundsInv, OpFundsTypes
    <3>4. QED BY <2>1, <3>1, <3>2, <3>3
  <2>4. CASE BridgerOf[o] # p
    <3>1. {q \in OpHeld' : BridgerOf[q] = p} = before
      BY <1>2, <2>4
    <3>2. opInFlight'[p] = opInFlight[p]
      BY <1>4, <1>8, <2>4 DEF OpFundsInv, OpFundsTypes
    <3>3. QED BY <2>1, <3>1, <3>2
  <2>5. QED BY <2>3, <2>4
<1>12. DepositPaidOnce'
  BY <1>3, <1>7, <1>11 DEF OpFundsInv, DepositPaidOnce
<1>13. QED BY <1>9, <1>10, <1>12 DEF OpFundsInv

\* A payout moves an amount from the vault to the payee, or owes it to the payee.
LEMMA PayOrCreditSums ==
  ASSUME OpFundsInv, NEW to \in Accounts, NEW amount \in Nat, amount <= opVault,
         PayOrCredit(to, amount)
  PROVE  /\ opCredit' \in [Accounts -> Nat] /\ opPaid' \in [Accounts -> Nat]
         /\ opVault' \in Nat
         /\ opPaid'[to] + opCredit'[to] = opPaid[to] + opCredit[to] + amount
         /\ \A p \in Accounts \ {to} :
              opPaid'[p] = opPaid[p] /\ opCredit'[p] = opCredit[p]
         /\ SumOver(Accounts, opCredit) \in Nat
         /\ opVault' - SumOver(Accounts, opCredit')
              = opVault - SumOver(Accounts, opCredit) - amount
<1>1. opCredit \in [Accounts -> Nat] /\ opPaid \in [Accounts -> Nat] /\ opVault \in Nat
  BY DEF OpFundsInv, OpFundsTypes
<1>2. AmountsOn(Accounts, opCredit) /\ SumOver(Accounts, opCredit) \in Nat
  BY <1>1, FiniteAccounts, SumType DEF AmountsOn
<1>3. CASE /\ opPaid' = [opPaid EXCEPT ![to] = opPaid[to] + amount]
           /\ opVault' = opVault - amount
           /\ UNCHANGED opCredit
  BY <1>1, <1>2, <1>3
<1>4. CASE /\ opCredit' = [opCredit EXCEPT ![to] = opCredit[to] + amount]
           /\ UNCHANGED <<opPaid, opVault>>
  <2>1. /\ opCredit' \in [Accounts -> Nat] /\ opCredit'[to] = opCredit[to] + amount
        /\ \A p \in Accounts \ {to} : opCredit'[p] = opCredit[p]
    BY <1>1, <1>4
  <2>2. SumOver(Accounts, opCredit')
          = SumOver(Accounts, opCredit) - opCredit[to] + opCredit'[to]
    BY <1>2, <2>1, FiniteAccounts, SumChange
  <2>3. opCredit[to] \in Nat /\ opPaid[to] \in Nat
    BY <1>1
  <2>4. SumOver(Accounts, opCredit') = SumOver(Accounts, opCredit) + amount
    BY <1>2, <2>1, <2>2, <2>3
  <2>5. QED BY <1>1, <1>2, <1>4, <2>1, <2>3, <2>4
<1>5. QED BY <1>3, <1>4 DEF PayOrCredit

LEMMA DepositPaidOK ==
  ASSUME OpLegTypes, OpFundsInv, NEW o \in Orders,
         NEW status \in {"Filled", "Cancelled"}, NEW to, DepositPaid(o, status, to)
  PROVE  OpFundsInv'
<1>1. to \in Accounts /\ Deposit[o] \in Nat /\ BridgerOf[o] \in Accounts
  BY DepositTypes DEF DepositPaid
<1>2. /\ opStatus'[o] = status /\ opStatus[o] = "Open"
      /\ \A q \in Orders \ {o} : opStatus'[q] = opStatus[q]
  BY DEF DepositPaid, EndOrder, OpLegTypes
<1>3. OpHeld' = OpHeld \ {o} /\ o \in OpHeld
  BY <1>2 DEF OpHeld, Live
<1>4. IsFiniteSet(OpHeld) /\ AmountsOn(OpHeld, Deposit)
  BY DepositTypes DEF OpHeld
<1>5. /\ SumOver(OpHeld', Deposit) \in Nat
      /\ SumOver(OpHeld, Deposit) = Deposit[o] + SumOver(OpHeld', Deposit)
  BY <1>3, <1>4, SumSplit
<1>6. SumOver(Accounts, opCredit) \in Nat
  BY FiniteAccounts, SumType DEF AmountsOn, OpFundsInv, OpFundsTypes
<1>7. opVault = SumOver(OpHeld, Deposit) + SumOver(Accounts, opCredit)
  BY DEF OpFundsInv, DepositsBacked
<1>8. Deposit[o] <= opVault
  BY <1>1, <1>5, <1>6, <1>7
<1>9. PayOrCredit(to, Deposit[o])
  BY DEF DepositPaid
<1>10. /\ opCredit' \in [Accounts -> Nat] /\ opPaid' \in [Accounts -> Nat]
       /\ opVault' \in Nat
       /\ opPaid'[to] + opCredit'[to] = opPaid[to] + opCredit[to] + Deposit[o]
       /\ \A p \in Accounts \ {to} :
            opPaid'[p] = opPaid[p] /\ opCredit'[p] = opCredit[p]
       /\ opVault' - SumOver(Accounts, opCredit')
            = opVault - SumOver(Accounts, opCredit) - Deposit[o]
  BY <1>1, <1>8, <1>9, PayOrCreditSums
<1>11. SumOver(Accounts, opCredit') \in Nat
  BY <1>10, FiniteAccounts, SumType DEF AmountsOn
<1>12. DepositsBacked'
  <2>1. opVault' = SumOver(OpHeld', Deposit) + SumOver(Accounts, opCredit')
    BY <1>1, <1>5, <1>6, <1>7, <1>10, <1>11
  <2>2. QED BY <2>1 DEF DepositsBacked
<1>13. opInFlight' = [opInFlight EXCEPT ![BridgerOf[o]] = opInFlight[BridgerOf[o]] - 1]
  BY DEF DepositPaid, EndOrder
<1>14. ASSUME NEW p \in Accounts
       PROVE  /\ opInFlight'[p] \in Nat
              /\ opInFlight'[p] = Cardinality({q \in OpHeld' : BridgerOf[q] = p})
  <2> DEFINE before == {q \in OpHeld : BridgerOf[q] = p}
             after  == {q \in OpHeld' : BridgerOf[q] = p}
  <2>1. opInFlight[p] = Cardinality(before) /\ opInFlight[p] \in Nat
        /\ opInFlight \in [Accounts -> Nat]
    BY DEF OpFundsInv, DepositPaidOnce, OpFundsTypes
  <2>2. IsFiniteSet(before)
    BY <1>4, FS_Subset
  <2>3. CASE BridgerOf[o] = p
    <3>1. after = before \ {o} /\ o \in before
      BY <1>3, <2>3
    <3>2. IsFiniteSet(before \ {o}) /\ Cardinality(before \ {o}) = Cardinality(before) - 1
      BY <2>2, <3>1, FS_RemoveElement
    <3>3. Cardinality(before \ {o}) \in Nat
      BY <3>2, FS_CardinalityType
    <3>4. opInFlight'[p] = opInFlight[p] - 1
      BY <1>13, <2>1, <2>3
    <3>5. QED BY <2>1, <3>1, <3>2, <3>3, <3>4
  <2>4. CASE BridgerOf[o] # p
    <3>1. after = before
      BY <1>3, <2>4
    <3>2. opInFlight'[p] = opInFlight[p]
      BY <1>13, <2>1, <2>4
    <3>3. QED BY <2>1, <3>1, <3>2
  <2>5. QED BY <2>3, <2>4
<1>15. opInFlight' \in [Accounts -> Nat]
  BY <1>13, <1>14 DEF OpFundsInv, OpFundsTypes
<1>16. ASSUME NEW p \in Accounts
       PROVE  opPaid'[p] + opCredit'[p] = SumOver(OpPaidFor(p)', Deposit)
  <2>1. opPaid[p] + opCredit[p] = SumOver(OpPaidFor(p), Deposit)
    BY DEF OpFundsInv, DepositPaidOnce
  <2>2. IsFiniteSet(OpPaidFor(p)) /\ AmountsOn(OpPaidFor(p), Deposit)
    BY DepositTypes DEF OpPaidFor
  <2>3. CASE p = to
    <3>1. OpPaidFor(p)' = OpPaidFor(p) \cup {o} /\ o \notin OpPaidFor(p)
      BY <1>2, <2>3 DEF OpPaidFor, DepositPaid
    <3>2. SumOver(OpPaidFor(p) \cup {o}, Deposit)
            = SumOver(OpPaidFor(p), Deposit) + Deposit[o]
      BY <1>1, <2>2, <3>1, SumAdd
    <3>3. QED BY <1>10, <2>1, <2>3, <3>1, <3>2
  <2>4. CASE p # to
    <3>1. OpPaidFor(p)' = OpPaidFor(p)
      BY <1>2, <2>4 DEF OpPaidFor, DepositPaid
    <3>2. QED BY <1>10, <2>1, <2>4, <3>1
  <2>5. QED BY <2>3, <2>4
<1>17. OpFundsTypes'
  BY <1>10, <1>15 DEF OpFundsTypes
<1>18. DepositPaidOnce'
  BY <1>14, <1>16 DEF DepositPaidOnce
<1>19. QED BY <1>12, <1>17, <1>18 DEF OpFundsInv

LEMMA CreditClaimedOK ==
  ASSUME OpFundsInv, NEW p \in Accounts, CreditClaimed(p)
  PROVE  OpFundsInv'
<1>1. opCredit \in [Accounts -> Nat] /\ opPaid \in [Accounts -> Nat] /\ opVault \in Nat
      /\ opInFlight \in [Accounts -> Nat]
  BY DEF OpFundsInv, OpFundsTypes
<1>2. /\ opPaid' = [opPaid EXCEPT ![p] = opPaid[p] + opCredit[p]]
      /\ opCredit' = [opCredit EXCEPT ![p] = 0]
      /\ opVault' = opVault - opCredit[p]
      /\ UNCHANGED <<opStatus, opInFlight>>
  BY DEF CreditClaimed, OpClaim
<1>3. OpHeld' = OpHeld /\ \A q \in Accounts : OpPaidFor(q)' = OpPaidFor(q)
  BY <1>2 DEF OpHeld, OpPaidFor
<1>4. AmountsOn(Accounts, opCredit) /\ SumOver(Accounts, opCredit) \in Nat
  BY <1>1, FiniteAccounts, SumType DEF AmountsOn
<1>5. SumOver(Accounts, opCredit') = SumOver(Accounts, opCredit) - opCredit[p] + opCredit'[p]
  <2>1. opCredit'[p] \in Nat /\ \A q \in Accounts \ {p} : opCredit'[q] = opCredit[q]
    BY <1>1, <1>2
  <2>2. QED BY <1>4, <2>1, FiniteAccounts, SumChange
<1>6. SumOver(OpHeld, Deposit) \in Nat
  <2>1. IsFiniteSet(OpHeld)
    BY FiniteOrders, FS_Subset DEF OpHeld
  <2>2. AmountsOn(OpHeld, Deposit)
    BY DepositTypes DEF OpHeld, AmountsOn
  <2>3. QED BY <2>1, <2>2, SumType
<1>7. opCredit'[p] = 0 /\ opCredit[p] \in Nat
  BY <1>1, <1>2
<1>8. opCredit[p] <= SumOver(Accounts, opCredit)
  BY <1>4, FiniteAccounts, SumBoundsTerm
<1>9. opVault = SumOver(OpHeld, Deposit) + SumOver(Accounts, opCredit)
  BY DEF OpFundsInv, DepositsBacked
<1>10. opVault' \in Nat
  BY <1>2, <1>4, <1>6, <1>7, <1>8, <1>9
<1>11. OpFundsTypes'
  BY <1>1, <1>2, <1>10 DEF OpFundsTypes
<1>12. DepositsBacked'
  <2>1. opVault' = SumOver(OpHeld, Deposit) + SumOver(Accounts, opCredit')
    BY <1>2, <1>4, <1>5, <1>6, <1>7, <1>9
  <2>2. QED BY <1>3, <2>1 DEF DepositsBacked
<1>13. \A q \in Accounts : opPaid'[q] + opCredit'[q] = opPaid[q] + opCredit[q]
  BY <1>1, <1>2
<1>14. DepositPaidOnce'
  BY <1>2, <1>3, <1>13 DEF OpFundsInv, DepositPaidOnce
<1>15. QED BY <1>11, <1>12, <1>14 DEF OpFundsInv

\* Every step makes one of the moves.
LEMMA OpMoneyMoves ==
  ASSUME OpLegTypes, [OpNext]_orderChainVars
  PROVE  \/ MoneyStays
         \/ \E o \in Orders : DepositMade(o)
         \/ \E o \in Orders, status \in {"Filled", "Cancelled"}, to \in Accounts :
              DepositPaid(o, status, to)
         \/ \E p \in Accounts : CreditClaimed(p)
<1>1. CASE OpAdminNext \/ OpSetRootAnchor \/ OpTickNext \/ UNCHANGED orderChainVars
           \/ \E leaf \in AdChainLeaves : OpAnchorLeafNext(leaf)
  BY <1>1 DEF OpAdminNext, OpSetRootAnchor, OpTickNext, OpAnchorLeafNext, orderChainVars,
              opLegs, opFunds, MoneyStays
<1>2. CASE OpClaimNext
  BY <1>2 DEF OpClaimNext, CreditClaimed, OpClaim, opLegs
<1>3. ASSUME NEW o \in Orders, opStatus[o] \in Live PROVE opStatus[o] = "Open"
  BY <1>3 DEF Live, OpLegTypes, OpStatus
<1>4. ASSUME NEW o \in Orders, UnlockOrder(o)
      PROVE  DepositPaid(o, "Filled", AdRecipientOf[o])
  BY <1>4 DEF UnlockOrder, DepositPaid
<1>5. CASE OpOrderNext
  <2>1. PICK o \in Orders :
          \/ CreateOrder(o) \/ RefundByCancel(o) \/ PresentAdSettled(o)
          \/ PayMakerByForfeit(o) \/ RecordOrderSettled(o)
    BY <1>5 DEF OpOrderNext
  <2>2. CreateOrder(o) => DepositMade(o)
    BY DEF CreateOrder, DepositMade
  <2>3. RefundByCancel(o) => DepositPaid(o, "Cancelled", BridgerOf[o])
    BY <1>3 DEF RefundByCancel, DepositPaid, Presentable
  <2>4. PresentAdSettled(o) \/ PayMakerByForfeit(o)
        => DepositPaid(o, "Filled", AdRecipientOf[o])
    BY <1>3 DEF PresentAdSettled, PayMakerByForfeit, DepositPaid, Presentable
  <2>5. RecordOrderSettled(o) => MoneyStays
    BY DEF RecordOrderSettled, MoneyStays
  <2>6. QED BY <2>1, <2>2, <2>3, <2>4, <2>5, DepositTypes
<1>6. CASE \E o \in Orders : OpUnlockNext(o)
  BY <1>4, <1>6, DepositTypes DEF OpUnlockNext
<1>7. QED BY <1>1, <1>2, <1>5, <1>6 DEF OpNext, OpLocalNext

LEMMA OpFundsStep ==
  ASSUME OpLegInv, OpFundsInv, [OpNext]_orderChainVars
  PROVE  OpFundsInv'
<1>1. OpLegTypes
  BY DEF OpLegInv
<1>2. QED BY <1>1, OpMoneyMoves, MoneyStaysOK, DepositMadeOK, DepositPaidOK, CreditClaimedOK

LEMMA OpFundsInit ==
  ASSUME OrderPortalInit
  PROVE  OpFundsInv
<1>1. OpHeld = {} /\ \A p \in Accounts : OpPaidFor(p) = {}
  BY DEF OrderPortalInit, OpHeld, OpPaidFor, Live
<1>2. SumOver({}, Deposit) = 0
  BY SumEmpty
<1>3. SumOver(Accounts, opCredit) = 0
  BY FiniteAccounts, SumZero DEF OrderPortalInit
<1>4. OpFundsTypes
  BY DEF OrderPortalInit, OpFundsTypes
<1>5. DepositsBacked
  BY <1>1, <1>2, <1>3 DEF DepositsBacked, OrderPortalInit
<1>6. DepositPaidOnce
  <2>1. ASSUME NEW p \in Accounts
        PROVE  {o \in OpHeld : BridgerOf[o] = p} = {} /\ opPaid[p] + opCredit[p] = 0
               /\ opInFlight[p] = 0
    BY <1>1 DEF OrderPortalInit
  <2>2. QED BY <1>1, <1>2, <2>1, FS_EmptySet DEF DepositPaidOnce
<1>7. QED BY <1>4, <1>5, <1>6 DEF OpFundsInv

LEMMA OpFundsInvariant == OpSpec => [](OpLegInv /\ OpFundsInv)
<1>1. OpLegInv /\ OpFundsInv /\ [OpNext]_orderChainVars => (OpLegInv /\ OpFundsInv)'
  BY OpLegInvStep, OpFundsStep DEF OpGoal
<1>2. QED BY <1>1, OpLegInvInit, OpFundsInit, PTL DEF OpSpec

\* The escrow holds exactly the live deposits and what it owes (create_order,
\* pay_or_credit, claim).
THEOREM DepositsAreBacked == OpSpec => []DepositsBacked
<1>1. QED BY OpFundsInvariant, PTL DEF OpFundsInv

\* Every deposit was paid or credited once, to whom its verdict names, and a
\* bridger's open positions are its live deposits (fill, cancel).
THEOREM DepositsArePaidOnce == OpSpec => []DepositPaidOnce
<1>1. QED BY OpFundsInvariant, PTL DEF OpFundsInv

\* What the type invariant has besides.
OpConfigTypes ==
  /\ opPaused \in BOOLEAN /\ opRoute \in BOOLEAN /\ opVerifier \in BOOLEAN
  /\ opAnchorDelay \in Nat
  /\ opSettled \subseteq Orders /\ opNullifiers \subseteq Orders

LEMMA OpConfigStep ==
  ASSUME OpConfigTypes, [OpNext]_orderChainVars
  PROVE  OpConfigTypes'
<1> USE OrderPortalAssumption DEF OpConfigTypes
<1>1. CASE OpAdminNext
  <2>1. UNCHANGED <<opSettled, opNullifiers>>
    BY <1>1 DEF OpAdminNext, opLegs
  <2>2. opPaused' \in BOOLEAN /\ opRoute' \in BOOLEAN /\ opVerifier' \in BOOLEAN
        /\ opAnchorDelay' \in Nat
    BY <1>1 DEF OpAdminNext, OpPause, OpSetRouteTiming, OpSetRoute, OpSetRootVerifier,
                OpSetAnchorDelay
  <2>3. QED BY <2>1, <2>2
<1>2. CASE OpSetRootAnchor
  BY <1>2 DEF OpSetRootAnchor, opLegs
<1>3. CASE OpOrderNext
  BY <1>3 DEF OpOrderNext, CreateOrder, RefundByCancel, PresentAdSettled,
              PayMakerByForfeit, RecordOrderSettled, opConfig
<1>4. CASE OpClaimNext
  BY <1>4 DEF OpClaimNext, OpClaim, opConfig, opLegs
<1>5. CASE \E o \in Orders : OpUnlockNext(o)
  BY <1>5 DEF OpUnlockNext, UnlockOrder, opConfig
<1>6. CASE \/ \E leaf \in AdChainLeaves : OpAnchorLeafNext(leaf)
           \/ OpTickNext
           \/ UNCHANGED orderChainVars
  BY <1>6 DEF OpAnchorLeafNext, OpTickNext, orderChainVars, opConfig, opLegs
<1>7. QED BY <1>1, <1>2, <1>3, <1>4, <1>5, <1>6 DEF OpNext, OpLocalNext

\* Every variable of the order portal stays in its range; that the vault and a
\* bridger's open positions never go below zero is what the money's invariant says.
THEOREM OrderPortalTypeCorrect == OpSpec => []OrderPortalTypeOK
<1>1. OrderPortalInit => OpConfigTypes
  BY OrderPortalAssumption DEF OrderPortalInit, OpConfigTypes
<1>2. OpConfigTypes /\ [OpNext]_orderChainVars => OpConfigTypes'
  BY OpConfigStep
<1>3. OpLegInv /\ OpFundsInv /\ OpConfigTypes => OrderPortalTypeOK
  BY DEF OpLegInv, OpLegTypes, OpStatus, OpFundsInv, OpFundsTypes, OpConfigTypes,
         OrderPortalTypeOK
<1>4. QED BY <1>1, <1>2, <1>3, OpFundsInvariant, PTL DEF OpSpec

-----------------------------------------------------------------------------
(* Both chains.                                                            *)

\* Both parties signed the order's pair of roots.
Agreed(o) == \E i \in SlotIds : <<o, i>> \in cosigned

EvidenceOK(o) ==
  /\ \A d \in {"CANCEL", "FORFEIT"} :
       adAnchored[<<o, d>>] # 0 => <<o, d>> \in adLeaves
  /\ adAnchored[<<o, "SETTLED">>] # 0 => adStatus[o] = "Filled"
  /\ \A d \in {"AD", "SETTLED"} :
       orderAnchored[<<o, d>>] # 0 => <<o, d>> \in opLeaves
  /\ <<o, "ORDER">> \in adLeaves => adStatus[o] # "None"
  /\ Agreed(o) => opStatus[o] # "None"

\* A deposit the maker got without co-signature and without forfeiture: what the
\* order chain may still call settled, or already has.
PaidOnProof(o) ==
  /\ opStatus[o] = "Filled"
  /\ o \notin opNullifiers
  /\ o \notin opSettled \/ <<o, "SETTLED">> \in opLeaves

FatesOK(o) ==
  /\ opStatus[o] = "Cancelled" => <<o, "CANCEL">> \in adLeaves
  /\ adStatus[o] = "Filled" => opStatus[o] # "None" /\ Agreed(o)
  /\ o \in opNullifiers => Agreed(o)
  /\ PaidOnProof(o) => adStatus[o] = "Filled"

\* The inductive invariant.
BridgeInv ==
  /\ LegInv /\ OpLegInv
  /\ \A o \in Orders : EvidenceOK(o) /\ FatesOK(o)

\* What a step of the ad chain must rest on, and a step of the order chain.
AdRestsOn(o) ==
  /\ adStatus'[o] = "Filled" => adStatus[o] = "Filled" \/ Agreed(o)
  /\ adStatus'[o] = "None" => adStatus[o] = "None"
  /\ <<o, "ORDER">> \in adLeaves' => <<o, "ORDER">> \in adLeaves \/ adStatus'[o] # "None"
  /\ \A d \in {"AD", "SETTLED"} :
       orderAnchored'[<<o, d>>] # 0 => <<o, d>> \in opLeaves

OrderRestsOn(o) ==
  /\ PaidOnProof(o)' => PaidOnProof(o) \/ adAnchored[<<o, "SETTLED">>] # 0
  /\ o \in opNullifiers' => o \in opNullifiers \/ Agreed(o)
  /\ \A d \in {"CANCEL", "FORFEIT"} :
       adAnchored'[<<o, d>>] # 0 => <<o, d>> \in adLeaves
  /\ adAnchored'[<<o, "SETTLED">>] # 0 => adStatus[o] = "Filled"

-----------------------------------------------------------------------------
(* What the steps of one chain do to the evidence *)

LEMMA LeafTypes ==
  ASSUME NEW o \in Orders, NEW d \in Domain
  PROVE  <<o, d>> \in Leaves
<1> QED
  BY DEF Leaves

\* A leg ends for good, so a verdict, once told, stays.
LEMMA VerdictStays ==
  ASSUME LegInv, LegGoal, NEW o \in Orders
  PROVE  /\ \A d \in {"CANCEL", "FORFEIT"} : <<o, d>> \in adLeaves => <<o, d>> \in adLeaves'
         /\ adStatus[o] = "Filled" => adStatus'[o] = "Filled"
<1>1. VerdictOK(o) /\ VerdictOK(o)' /\ LegStep(o)
  BY DEF LegGoal, LegInv, LegOK
<1> QED
  BY <1>1 DEF VerdictOK, LegStep, Terminal

\* Nothing but the co-signed unlock and a shown SETTLED leaf fills a lock.
LEMMA AdLocalFills ==
  ASSUME LegInv, AdLocalNext, NEW o \in Orders
  PROVE  /\ adStatus'[o] = "Filled" =>
              adStatus[o] = "Filled" \/ orderAnchored[<<o, "SETTLED">>] # 0
         /\ adStatus'[o] = "None" => adStatus[o] = "None"
         /\ <<o, "ORDER">> \in adLeaves' =>
              <<o, "ORDER">> \in adLeaves \/ adStatus'[o] # "None"
         /\ \A d \in {"AD", "SETTLED"} :
              orderAnchored'[<<o, d>>] # 0 => orderAnchored[<<o, d>>] # 0
<1>0. adStatus \in [Orders -> Status]
  BY DEF LegInv, LegTypes, AdLegsTypeOK
<1>1. CASE AdAdminNext \/ AdMakerNext \/ AdHaltNext \/ AdRegistryNext
           \/ AdClaimNext \/ AdModuleNext
  <2>1. UNCHANGED <<adLegs, adProofs>>
    BY <1>1 DEF AdAdminNext, AdMakerNext, AdHaltNext, AdRegistryNext, AdClaimNext,
                ClaimPayout, AdModuleNext, adVars
  <2> QED
    BY <2>1 DEF adLegs, adProofs
<1>2. CASE AdAnchorNext
  <2>1. UNCHANGED <<adStatus, adLeaves>> /\ orderAnchored' = [leaf \in Leaves |-> 0]
    BY <1>2 DEF AdAnchorNext, SetRootAnchor, adLegs
  <2> QED
    BY <2>1, LeafTypes DEF Domain
<1>3. CASE AdOrderNext
  <2>1. PICK q \in Orders :
          \/ \E pin \in SlotIds : LockForOrder(q, pin)
          \/ PresentSettled(q)
          \/ RecordSettled(q)
          \/ ClaimCancel(q)
          \/ FinalizeCancel(q)
          \/ CancelNeverLocked(q)
          \/ \E p \in Parties : Dispute(q, p) \/ RespondToDispute(q, p)
          \/ FinalizeDispute(q)
          \/ RepinOrder(q)
    BY <1>3 DEF AdOrderNext
  <2>2. CASE PresentSettled(q)
    BY <1>0, <2>2 DEF PresentSettled, EndLeg, Provable, adProofs
  <2>3. CASE FinalizeDispute(q)
    BY <1>0, <2>3 DEF FinalizeDispute, EndLeg, Verdict
  <2>4. CASE FinalizeCancel(q)
    BY <1>0, <2>4 DEF FinalizeCancel, EndLeg
  <2>5. CASE \E pin \in SlotIds : LockForOrder(q, pin)
    BY <1>0, <2>5 DEF LockForOrder
  <2>6. CASE RecordSettled(q) \/ ClaimCancel(q) \/ CancelNeverLocked(q) \/ RepinOrder(q)
    BY <1>0, <2>6 DEF RecordSettled, ClaimCancel, CancelNeverLocked, RepinOrder,
                      adLegs, adProofs
  <2>7. CASE \E p \in Parties : Dispute(q, p) \/ RespondToDispute(q, p)
    BY <1>0, <2>7 DEF Dispute, RespondToDispute, adLegs, adProofs
  <2> QED
    BY <2>1, <2>2, <2>3, <2>4, <2>5, <2>6, <2>7
<1> QED
  BY <1>1, <1>2, <1>3 DEF AdLocalNext

\* A deposit is paid to the maker without co-signature on a shown SETTLED leaf,
\* or is marked so that no SETTLED leaf will ever be appended for it.
LEMMA OpLocalFills ==
  ASSUME OpLegInv, OpLocalNext, NEW o \in Orders
  PROVE  /\ PaidOnProof(o)' => PaidOnProof(o) \/ adAnchored[<<o, "SETTLED">>] # 0
         /\ opNullifiers' = opNullifiers
         /\ \A d \in Domain : adAnchored'[<<o, d>>] # 0 => adAnchored[<<o, d>>] # 0
<1> USE DEF OpLegInv, OpLegTypes
<1>1. CASE OpAdminNext \/ OpClaimNext
  BY <1>1 DEF OpAdminNext, OpClaimNext, OpClaim, opLegs, PaidOnProof
<1>2. CASE OpSetRootAnchor
  BY <1>2, LeafTypes DEF OpSetRootAnchor, opLegs, PaidOnProof
<1>3. CASE OpOrderNext
  <2>1. PICK q \in Orders :
          \/ CreateOrder(q) \/ RefundByCancel(q) \/ PresentAdSettled(q)
          \/ PayMakerByForfeit(q) \/ RecordOrderSettled(q)
    BY <1>3 DEF OpOrderNext
  <2>2. UNCHANGED adAnchored
    BY <1>3 DEF OpOrderNext
  <2>3. OpLeavesOK(q)
    OBVIOUS
  <2>4. CASE CreateOrder(q)
    BY <2>2, <2>4 DEF CreateOrder, PaidOnProof
  <2>5. CASE RefundByCancel(q)
    BY <2>2, <2>5 DEF RefundByCancel, EndOrder, PaidOnProof
  <2>6. CASE PresentAdSettled(q)
    BY <2>2, <2>6 DEF PresentAdSettled, EndOrder, AdLeafProvable, PaidOnProof
  <2>7. CASE PayMakerByForfeit(q)
    BY <2>2, <2>3, <2>7 DEF PayMakerByForfeit, EndOrder, Presentable, OpLeavesOK,
                            Live, PaidOnProof
  <2>8. CASE RecordOrderSettled(q)
    BY <2>2, <2>8 DEF RecordOrderSettled, PaidOnProof
  <2> QED
    BY <2>1, <2>4, <2>5, <2>6, <2>7, <2>8
<1> QED
  BY <1>1, <1>2, <1>3 DEF OpLocalNext

-----------------------------------------------------------------------------
(* The steps of the bridge *)

LEMMA BridgeInvInit ==
  ASSUME BridgeInit
  PROVE  BridgeInv
<1>1. LegInv /\ OpLegInv
  BY LegInvInit, OpLegInvInit DEF BridgeInit
<1>2. ASSUME NEW o \in Orders
      PROVE  EvidenceOK(o) /\ FatesOK(o)
  BY LeafTypes DEF BridgeInit, AdInit, AdManagerInit, OrderPortalInit, EvidenceOK,
                   FatesOK, PaidOnProof, Agreed, Domain
<1> QED
  BY <1>1, <1>2 DEF BridgeInv

\* A step of the ad chain: the order chain's fates stand on leaves that stay.
LEMMA AdSideStep ==
  ASSUME BridgeInv, LegGoal, UNCHANGED <<orderChainVars, cosigned>>,
         \A o \in Orders : AdRestsOn(o)
  PROVE  BridgeInv'
<1>1. LegInv'
  BY DEF LegGoal
<1>2. OpLegInv'
  BY OpTickGoal DEF BridgeInv, OpGoal
<1>3. ASSUME NEW o \in Orders
      PROVE  EvidenceOK(o)' /\ FatesOK(o)'
  <2>1. EvidenceOK(o) /\ FatesOK(o)
    BY DEF BridgeInv
  <2>2. /\ \A d \in {"CANCEL", "FORFEIT"} : <<o, d>> \in adLeaves => <<o, d>> \in adLeaves'
        /\ adStatus[o] = "Filled" => adStatus'[o] = "Filled"
    BY VerdictStays DEF BridgeInv
  <2>3. UNCHANGED <<adAnchored, opStatus, opNullifiers, opSettled, opLeaves, cosigned>>
    BY DEF orderChainVars, opLegs
  <2> QED
    BY <2>1, <2>2, <2>3 DEF EvidenceOK, FatesOK, PaidOnProof, Agreed, AdRestsOn
<1> QED
  BY <1>1, <1>2, <1>3 DEF BridgeInv

\* A step of the order chain, likewise.
LEMMA OrderSideStep ==
  ASSUME BridgeInv, OpGoal, UNCHANGED <<adChainVars, cosigned>>,
         \A o \in Orders : OrderRestsOn(o)
  PROVE  BridgeInv'
<1>1. OpLegInv'
  BY DEF OpGoal
<1>2. LegInv'
  BY TickGoal DEF BridgeInv, LegGoal
<1>3. ASSUME NEW o \in Orders
      PROVE  EvidenceOK(o)' /\ FatesOK(o)'
  <2>1. EvidenceOK(o) /\ FatesOK(o)
    BY DEF BridgeInv
  <2>2. DepositStep(o)
    BY DEF OpGoal
  <2>3. UNCHANGED <<orderAnchored, adStatus, adLeaves, cosigned>>
    BY DEF adChainVars, adVars, adLegs, adProofs
  <2> QED
    BY <2>1, <2>2, <2>3 DEF EvidenceOK, FatesOK, DepositStep, Terminal, Domain,
                            Agreed, OrderRestsOn
<1> QED
  BY <1>1, <1>2, <1>3 DEF BridgeInv

LEMMA AdLocalBridge ==
  ASSUME BridgeInv, AdLocalNext, UNCHANGED <<orderChainVars, cosigned>>
  PROVE  BridgeInv'
<1>1. LegGoal
  BY LegInvStep DEF BridgeInv, AdNext
<1>2. ASSUME NEW o \in Orders
      PROVE  AdRestsOn(o)
  <2>1. LegInv /\ EvidenceOK(o) /\ FatesOK(o) /\ OpLeavesOK(o)
    BY DEF BridgeInv, OpLegInv
  <2>2. orderAnchored[<<o, "SETTLED">>] # 0 => adStatus[o] = "Filled" \/ Agreed(o)
    BY <2>1 DEF EvidenceOK, FatesOK, OpLeavesOK, PaidOnProof
  <2> QED
    BY <2>1, <2>2, AdLocalFills DEF EvidenceOK, AdRestsOn
<1> QED
  BY <1>1, <1>2, AdSideStep

LEMMA UnlockBridge ==
  ASSUME BridgeInv, NEW o \in Orders, CoSignedUnlock(o)
  PROVE  BridgeInv'
<1>1. AdUnlockNext(o) /\ UNCHANGED <<orderChainVars, cosigned>>
  BY DEF CoSignedUnlock
<1>2. LegGoal
  BY <1>1, UnlockGoal DEF BridgeInv
<1>3. Agreed(o)
  <2>1. adOrder[o].pinned_slot \in SlotIds
    BY DEF BridgeInv, LegInv, LegTypes, AdLegsTypeOK, OrderRecord
  <2> QED
    BY <2>1 DEF CoSignedUnlock, Agreed
<1>4. ASSUME NEW q \in Orders
      PROVE  AdRestsOn(q)
  <2>1. EvidenceOK(q) /\ adStatus \in [Orders -> Status]
    BY DEF BridgeInv, LegInv, LegTypes, AdLegsTypeOK
  <2>2. /\ adStatus' = [adStatus EXCEPT ![o] = "Filled"]
        /\ UNCHANGED <<adLeaves, orderAnchored>>
    BY <1>1 DEF AdUnlockNext, Unlock, EndLeg
  <2> QED
    BY <1>3, <2>1, <2>2 DEF EvidenceOK, AdRestsOn
<1> QED
  BY <1>1, <1>2, <1>4, AdSideStep

LEMMA OpLocalBridge ==
  ASSUME BridgeInv, OpLocalNext, UNCHANGED <<adChainVars, cosigned>>
  PROVE  BridgeInv'
<1>1. OpGoal
  BY OpLocalGoal DEF BridgeInv
<1>2. ASSUME NEW o \in Orders
      PROVE  OrderRestsOn(o)
  <2>1. OpLegInv /\ EvidenceOK(o)
    BY DEF BridgeInv
  <2> QED
    BY <2>1, OpLocalFills DEF EvidenceOK, OrderRestsOn, Domain
<1> QED
  BY <1>1, <1>2, OrderSideStep

LEMMA UnlockOrderBridge ==
  ASSUME BridgeInv, NEW o \in Orders, CoSignedUnlockOrder(o)
  PROVE  BridgeInv'
<1>1. OpUnlockNext(o) /\ UNCHANGED <<adChainVars, cosigned>>
  BY DEF CoSignedUnlockOrder
<1>2. OpGoal
  BY <1>1, OpUnlockGoal DEF BridgeInv
<1>3. Agreed(o)
  BY DEF CoSignedUnlockOrder, Agreed
<1>4. ASSUME NEW q \in Orders
      PROVE  OrderRestsOn(q)
  <2>1. EvidenceOK(q) /\ opStatus \in [Orders -> OpStatus]
    BY DEF BridgeInv, OpLegInv, OpLegTypes
  <2>2. /\ opStatus' = [opStatus EXCEPT ![o] = "Filled"]
        /\ opNullifiers' = opNullifiers \cup {o}
        /\ UNCHANGED <<opSettled, opLeaves, adAnchored>>
    BY <1>1 DEF OpUnlockNext, UnlockOrder, EndOrder
  <2> QED
    BY <1>3, <2>1, <2>2 DEF EvidenceOK, PaidOnProof, OrderRestsOn
<1> QED
  BY <1>1, <1>2, <1>4, OrderSideStep

\* An anchored root holds only leaves the other chain really appended.
LEMMA AnchorBridge ==
  ASSUME BridgeInv, AnchorNext
  PROVE  BridgeInv'
<1>1. CASE (\E leaf \in opLeaves \cap OrderChainLeaves : AdAnchorLeafNext(leaf))
           /\ UNCHANGED <<orderChainVars, cosigned>>
  <2>1. PICK leaf \in opLeaves \cap OrderChainLeaves : AdAnchorLeafNext(leaf)
    BY <1>1
  <2>2. LegGoal
    BY <2>1, AnchorLeafGoal DEF BridgeInv
  <2>3. ASSUME NEW o \in Orders
        PROVE  AdRestsOn(o)
    <3>1. EvidenceOK(o) /\ orderAnchored \in [Leaves -> Nat]
      BY DEF BridgeInv, LegInv, LegTypes, AdProofsTypeOK
    <3>2. /\ UNCHANGED <<adStatus, adLeaves>>
          /\ orderAnchored' = [orderAnchored EXCEPT ![leaf] = adNow]
      BY <2>1 DEF AdAnchorLeafNext, AnchorOrderLeaf, adLegs
    <3> QED
      BY <2>1, <3>1, <3>2, LeafTypes DEF EvidenceOK, AdRestsOn, Domain
  <2> QED
    BY <1>1, <2>2, <2>3, AdSideStep
<1>2. CASE (\E leaf \in adLeaves \cap AdChainLeaves : OpAnchorLeafNext(leaf))
           /\ UNCHANGED <<adChainVars, cosigned>>
  <2>1. PICK leaf \in adLeaves \cap AdChainLeaves : OpAnchorLeafNext(leaf)
    BY <1>2
  <2>2. OpGoal
    BY <2>1, OpAnchorGoal DEF BridgeInv
  <2>3. ASSUME NEW o \in Orders
        PROVE  OrderRestsOn(o)
    <3>1. EvidenceOK(o) /\ VerdictOK(o) /\ adAnchored \in [Leaves -> Nat]
      BY DEF BridgeInv, LegInv, LegOK, OpLegInv, OpLegTypes
    <3>2. /\ UNCHANGED opLegs
          /\ adAnchored' = [adAnchored EXCEPT ![leaf] = orderNow]
      BY <2>1 DEF OpAnchorLeafNext, AnchorAdLeaf
    <3>3. PaidOnProof(o)' = PaidOnProof(o) /\ opNullifiers' = opNullifiers
      BY <3>2 DEF opLegs, PaidOnProof
    <3> QED
      BY <2>1, <3>1, <3>2, <3>3, LeafTypes DEF EvidenceOK, VerdictOK, OrderRestsOn, Domain
  <2> QED
    BY <1>2, <2>2, <2>3, OrderSideStep
<1> QED
  BY <1>1, <1>2 DEF AnchorNext

\* Signing, the clocks, and steps of something else.
LEMMA QuietBridge ==
  ASSUME BridgeInv,
         \/ \E o \in Orders, i \in SlotIds : CoSign(o, i)
         \/ AdTime \/ OrderTime \/ UNCHANGED bridgeVars
  PROVE  BridgeInv'
<1>1. ASSUME NEW o \in Orders, NEW i \in SlotIds, CoSign(o, i)
      PROVE  BridgeInv'
  <2>1. UNCHANGED <<adChainVars, orderChainVars>>
    BY <1>1 DEF CoSign
  <2>2. LegInv' /\ OpLegInv'
    BY <2>1, TickGoal, OpTickGoal DEF BridgeInv, LegGoal, OpGoal
  <2>3. ASSUME NEW q \in Orders
        PROVE  EvidenceOK(q)' /\ FatesOK(q)'
    <3>1. EvidenceOK(q) /\ FatesOK(q) /\ OpLeavesOK(o)
      BY DEF BridgeInv, OpLegInv
    <3>2. UNCHANGED <<adAnchored, opStatus, opNullifiers, opSettled, opLeaves,
                      orderAnchored, adStatus, adLeaves>>
      BY <2>1 DEF orderChainVars, opLegs, adChainVars, adVars, adLegs, adProofs
    <3>3. <<o, "AD">> \in opLeaves /\ cosigned' = cosigned \cup {<<o, i>>}
      BY <1>1 DEF CoSign
    <3> QED
      BY <3>1, <3>2, <3>3 DEF EvidenceOK, FatesOK, PaidOnProof, OpLeavesOK, Agreed
  <2> QED
    BY <2>2, <2>3 DEF BridgeInv
<1>2. CASE AdTime \/ UNCHANGED bridgeVars
  <2>1. UNCHANGED <<orderChainVars, cosigned>>
    BY <1>2 DEF AdTime, bridgeVars
  <2>2. LegGoal
    BY <1>2, TickGoal DEF AdTime, bridgeVars, BridgeInv
  <2>3. UNCHANGED <<adStatus, adLeaves, orderAnchored>>
    BY <1>2 DEF AdTime, AdTickNext, bridgeVars, adChainVars, adVars, adLegs, adProofs
  <2> QED
    BY <2>1, <2>2, <2>3, AdSideStep DEF BridgeInv, EvidenceOK, AdRestsOn
<1>3. CASE OrderTime
  <2>1. UNCHANGED <<adChainVars, cosigned>>
    BY <1>3 DEF OrderTime
  <2>2. OpGoal
    BY <1>3, OpTickGoal DEF OrderTime, BridgeInv
  <2>3. UNCHANGED <<opLegs, adAnchored>>
    BY <1>3 DEF OrderTime, OpTickNext
  <2>4. opNullifiers' = opNullifiers /\ \A o \in Orders : PaidOnProof(o)' = PaidOnProof(o)
    BY <2>3 DEF opLegs, PaidOnProof
  <2> QED
    BY <2>1, <2>2, <2>3, <2>4, OrderSideStep DEF BridgeInv, EvidenceOK, OrderRestsOn
<1> QED
  BY <1>1, <1>2, <1>3

LEMMA BridgeInvStep ==
  ASSUME BridgeInv, [BridgeNext]_bridgeVars
  PROVE  BridgeInv'
<1>1. CASE ContractsNext
  BY <1>1, AdLocalBridge, OpLocalBridge, UnlockBridge, UnlockOrderBridge
  DEF ContractsNext
<1>2. CASE AnchorNext
  BY <1>2, AnchorBridge
<1>3. CASE \/ \E o \in Orders, i \in SlotIds : CoSign(o, i)
           \/ AdTime \/ OrderTime \/ UNCHANGED bridgeVars
  BY <1>3, QuietBridge
<1> QED
  BY <1>1, <1>2, <1>3 DEF BridgeNext

-----------------------------------------------------------------------------

\* What each chain was shown holds on the other, and each fate of a leg has its
\* reason there.
THEOREM BridgeInvariant == BridgeSpec => []BridgeInv
<1> QED
  BY BridgeInvInit, BridgeInvStep, PTL DEF BridgeSpec

LEMMA RefundedNotPaid ==
  ASSUME BridgeInv
  PROVE  TheTrade!BridgerNotPaidTwice
<1> SUFFICES ASSUME NEW o \in Orders, DepositOf(o) = "refunded"
             PROVE  LockOf(o) # "paid"
  BY DEF TheTrade!BridgerNotPaidTwice
<1>1. FatesOK(o) /\ VerdictOK(o) /\ opStatus[o] \in OpStatus
  BY DEF BridgeInv, LegInv, LegOK, OpLegInv, OpLegTypes
<1>2. opStatus[o] = "Cancelled"
  BY <1>1 DEF DepositOf, OpStatus, Live
<1>3. adStatus[o] = "Cancelled" \/ adStatus[o] = "Resolved"
  BY <1>1, <1>2 DEF FatesOK, VerdictOK
<1> QED
  BY <1>3 DEF LockOf, Live

\* A refund of the deposit excludes a payout of the lock, on whichever chain and
\* in whichever order the proofs are presented.
THEOREM NeverRefundedAndPaid == BridgeSpec => []BridgerNotPaidTwice
<1> QED
  BY RefundedNotPaid, BridgeInvariant, PTL DEF BridgerNotPaidTwice

\* A lock is paid out only for an order that was deposited for, and the deposit
\* is then still held for the maker or already paid.
THEOREM FillsHaveDeposits == BridgeSpec => []FillHasDeposit
<1>1. BridgeInv => FillHasDeposit
  <2> SUFFICES ASSUME BridgeInv, NEW o \in Orders, adStatus[o] = "Filled"
               PROVE  opStatus[o] \in {"Open", "Filled"}
    BY DEF FillHasDeposit
  <2>1. FatesOK(o) /\ VerdictOK(o) /\ opStatus[o] \in OpStatus
    BY DEF BridgeInv, LegInv, LegOK, OpLegInv, OpLegTypes
  <2> QED
    BY <2>1 DEF FatesOK, VerdictOK, OpStatus
<1> QED
  BY <1>1, BridgeInvariant, PTL

\* A deposit taken by forfeiture is never shown to the ad chain as settled.
THEOREM ForfeitIsNoSettlement == BridgeSpec => []NoSettledAfterForfeit
<1>1. BridgeInv => NoSettledAfterForfeit
  <2> SUFFICES ASSUME BridgeInv, NEW o \in Orders, <<o, "FORFEIT">> \in adLeaves,
                      <<o, "SETTLED">> \in opLeaves
               PROVE  o \in opNullifiers
    BY DEF NoSettledAfterForfeit
  <2>1. FatesOK(o) /\ VerdictOK(o) /\ OpLeavesOK(o)
    BY DEF BridgeInv, LegInv, LegOK, OpLegInv
  <2> QED
    BY <2>1 DEF FatesOK, VerdictOK, OpLeavesOK, PaidOnProof
<1> QED
  BY <1>1, BridgeInvariant, PTL

-----------------------------------------------------------------------------
(* The two escrows implement Trade: every step of the bridge is a step of    *)
(* one trade, or none.  An ad-chain step can only move the lock of one       *)
(* order, an order-chain step the deposit of one, and what BridgeInv says of *)
(* the evidence is what Trade asks of the other side.                        *)

\* The lock of an order, read off its leg.
LockIs(o) ==
  /\ LockOf(o) \in {"none", "held", "paid", "returned", "maker_forfeit", "bridger_forfeit"}
  /\ adStatus[o] = "None" <=> LockOf(o) = "none"
  /\ adStatus[o] \in Live <=> LockOf(o) = "held"
  /\ adStatus[o] = "Filled" <=> LockOf(o) = "paid"
  /\ <<o, "FORFEIT">> \in adLeaves <=> LockOf(o) = "bridger_forfeit"
  /\ <<o, "CANCEL">> \in adLeaves <=> LockOf(o) \in {"returned", "maker_forfeit"}
  /\ LockOf(o) = "maker_forfeit" => adStatus[o] = "Resolved"

DepositIs(o) ==
  /\ DepositOf(o) \in {"none", "held", "paid", "refunded"}
  /\ opStatus[o] = "None" <=> DepositOf(o) = "none"
  /\ opStatus[o] \in Live <=> DepositOf(o) = "held"
  /\ opStatus[o] = "Filled" <=> DepositOf(o) = "paid"
  /\ opStatus[o] = "Cancelled" <=> DepositOf(o) = "refunded"

MappingOK == \A o \in Orders : LockIs(o) /\ DepositIs(o)

LEMMA MappingValues == BridgeInv => MappingOK
<1> SUFFICES ASSUME BridgeInv, NEW o \in Orders
             PROVE  LockIs(o) /\ DepositIs(o)
  BY DEF MappingOK
<1>1. LockIs(o)
  <2>1. VerdictOK(o) /\ adStatus[o] \in Status
    BY DEF BridgeInv, LegInv, LegOK, LegTypes, AdLegsTypeOK
  <2> QED
    BY <2>1 DEF LockIs, LockOf, VerdictOK, Status, Live
<1>2. DepositIs(o)
  <2>1. opStatus[o] \in OpStatus
    BY DEF BridgeInv, OpLegInv, OpLegTypes
  <2> QED
    BY <2>1 DEF DepositIs, DepositOf, OpStatus, Live
<1> QED
  BY <1>1, <1>2

LEMMA MappingStays == BridgeInv' => MappingOK'
<1>1. BridgeInv => MappingOK
  BY MappingValues
<1> QED
  BY <1>1, PTL

-----------------------------------------------------------------------------
(* One order at a time *)

\* What a step of the ad chain may do to an order's lock, and on what evidence.
LockMoves(o) ==
  \/ LockOf(o)' = LockOf(o)
  \/ LockOf(o) = "none" /\ LockOf(o)' = "held"
  \/ LockOf(o) = "none" /\ LockOf(o)' = "returned" /\ opStatus[o] # "None"
  \/ LockOf(o) = "held" /\ LockOf(o)' = "paid" /\ Agreed(o)
  \/ /\ LockOf(o) = "held"
     /\ LockOf(o)' \in {"returned", "maker_forfeit", "bridger_forfeit"}

\* What a step of the order chain may do to its deposit.
DepositMoves(o) ==
  \/ DepositOf(o)' = DepositOf(o)
  \/ DepositOf(o) = "none" /\ DepositOf(o)' = "held"
  \/ /\ DepositOf(o) = "held" /\ DepositOf(o)' = "paid"
     /\ Agreed(o) \/ LockOf(o) = "bridger_forfeit"
  \/ /\ DepositOf(o) = "held" /\ DepositOf(o)' = "refunded"
     /\ LockOf(o) \in {"returned", "maker_forfeit"}

AgreedOrders == {o \in Orders : \E i \in SlotIds : <<o, i>> \in cosigned}

\* A lock moves, and nothing else: a step of that trade.
LEMMA LockIsTrade ==
  ASSUME NEW q \in Orders, LockMoves(q),
         \A o \in Orders \ {q} : LockOf(o)' = LockOf(o),
         \A o \in Orders : DepositOf(o)' = DepositOf(o),
         UNCHANGED cosigned, DepositOf(q) = "none" <=> opStatus[q] = "None"
  PROVE  [TheTrade!TradeNext]_(TheTrade!tradeVars)
<1> DEFINE lockF == [o \in Orders |-> LockOf(o)]
           depF  == [o \in Orders |-> DepositOf(o)]
<1>1. lockF' = [lockF EXCEPT ![q] = LockOf(q)']
  OBVIOUS
<1>2. depF' = depF /\ AgreedOrders' = AgreedOrders
  BY DEF AgreedOrders
<1>3. lockF[q] = LockOf(q) /\ depF[q] = DepositOf(q) /\ (q \in AgreedOrders <=> Agreed(q))
  BY DEF AgreedOrders, Agreed
<1>4. CASE LockOf(q)' = LockOf(q)
  <2>1. lockF' = lockF
    BY <1>4
  <2> QED
    BY <1>2, <2>1 DEF TheTrade!tradeVars, AgreedOrders
<1>5. CASE LockOf(q) = "none" /\ LockOf(q)' = "held"
  <2>1. TheTrade!TakeLock(q)
    BY <1>1, <1>2, <1>3, <1>5 DEF TheTrade!TakeLock, AgreedOrders
  <2> QED
    BY <2>1 DEF TheTrade!TradeNext
<1>6. CASE \/ LockOf(q) = "none" /\ LockOf(q)' = "returned" /\ opStatus[q] # "None"
           \/ LockOf(q) = "held" /\ LockOf(q)' = "returned"
  <2>1. TheTrade!ReturnLock(q)
    BY <1>1, <1>2, <1>3, <1>6 DEF TheTrade!ReturnLock, AgreedOrders
  <2> QED
    BY <2>1 DEF TheTrade!TradeNext
<1>7. CASE LockOf(q) = "held" /\ LockOf(q)' = "paid" /\ Agreed(q)
  <2>1. TheTrade!PayLock(q)
    BY <1>1, <1>2, <1>3, <1>7 DEF TheTrade!PayLock, AgreedOrders
  <2> QED
    BY <2>1 DEF TheTrade!TradeNext
<1>8. CASE LockOf(q) = "held" /\ LockOf(q)' \in {"maker_forfeit", "bridger_forfeit"}
  <2>1. PICK whose \in {"maker_forfeit", "bridger_forfeit"} : LockOf(q)' = whose
    BY <1>8
  <2>2. TheTrade!Forfeit(q, whose)
    BY <1>1, <1>2, <1>3, <1>8, <2>1 DEF TheTrade!Forfeit, AgreedOrders
  <2> QED
    BY <2>2 DEF TheTrade!TradeNext
<1> QED
  BY <1>4, <1>5, <1>6, <1>7, <1>8 DEF LockMoves

\* A deposit moves, and nothing else.
LEMMA DepositIsTrade ==
  ASSUME NEW q \in Orders, DepositMoves(q),
         \A o \in Orders \ {q} : DepositOf(o)' = DepositOf(o),
         \A o \in Orders : LockOf(o)' = LockOf(o),
         UNCHANGED cosigned
  PROVE  [TheTrade!TradeNext]_(TheTrade!tradeVars)
<1> DEFINE lockF == [o \in Orders |-> LockOf(o)]
           depF  == [o \in Orders |-> DepositOf(o)]
<1>1. depF' = [depF EXCEPT ![q] = DepositOf(q)']
  OBVIOUS
<1>2. lockF' = lockF /\ AgreedOrders' = AgreedOrders
  BY DEF AgreedOrders
<1>3. lockF[q] = LockOf(q) /\ depF[q] = DepositOf(q) /\ (q \in AgreedOrders <=> Agreed(q))
  BY DEF AgreedOrders, Agreed
<1>4. CASE DepositOf(q)' = DepositOf(q)
  <2>1. depF' = depF
    BY <1>4
  <2> QED
    BY <1>2, <2>1 DEF TheTrade!tradeVars, AgreedOrders
<1>5. CASE DepositOf(q) = "none" /\ DepositOf(q)' = "held"
  <2>1. TheTrade!TakeDeposit(q)
    BY <1>1, <1>2, <1>3, <1>5 DEF TheTrade!TakeDeposit, AgreedOrders
  <2> QED
    BY <2>1 DEF TheTrade!TradeNext
<1>6. CASE /\ DepositOf(q) = "held" /\ DepositOf(q)' = "paid"
           /\ Agreed(q) \/ LockOf(q) = "bridger_forfeit"
  <2>1. TheTrade!PayDeposit(q)
    BY <1>1, <1>2, <1>3, <1>6 DEF TheTrade!PayDeposit, AgreedOrders
  <2> QED
    BY <2>1 DEF TheTrade!TradeNext
<1>7. CASE /\ DepositOf(q) = "held" /\ DepositOf(q)' = "refunded"
           /\ LockOf(q) \in {"returned", "maker_forfeit"}
  <2>1. TheTrade!Refund(q)
    BY <1>1, <1>2, <1>3, <1>7 DEF TheTrade!Refund, AgreedOrders
  <2> QED
    BY <2>1 DEF TheTrade!TradeNext
<1> QED
  BY <1>4, <1>5, <1>6, <1>7 DEF DepositMoves

\* Nothing of a trade moves.
LEMMA NoTradeMoves ==
  ASSUME \A o \in Orders : LockOf(o)' = LockOf(o) /\ DepositOf(o)' = DepositOf(o),
         UNCHANGED cosigned
  PROVE  [TheTrade!TradeNext]_(TheTrade!tradeVars)
<1> QED
  BY DEF TheTrade!tradeVars

-----------------------------------------------------------------------------
(* The steps *)

SameStatus(o) == adStatus'[o] = adStatus[o] /\ ruledAs'[o] = ruledAs[o]

\* What an ad-chain step, the co-signed unlock aside, may do to a status.
StatusMoves(o) ==
  \/ SameStatus(o)
  \/ adStatus[o] = "None" /\ adStatus'[o] = "Open"
  \/ adStatus[o] = "None" /\ adStatus'[o] = "Cancelled" /\ orderAnchored[<<o, "AD">>] # 0
  \/ adStatus[o] \in Live /\ adStatus'[o] \in Live
  \/ adStatus[o] \in Live /\ adStatus'[o] = "Filled" /\ orderAnchored[<<o, "SETTLED">>] # 0
  \/ adStatus[o] \in Live /\ adStatus'[o] \in {"Cancelled", "Resolved"}

LEMMA SameStatusSameLock ==
  ASSUME NEW o \in Orders, SameStatus(o)
  PROVE  LockOf(o)' = LockOf(o)
<1> QED
  BY DEF SameStatus, LockOf

LEMMA AdOrderMoves ==
  ASSUME LegInv, AdOrderNext
  PROVE  \E q \in Orders : StatusMoves(q) /\ \A o \in Orders \ {q} : SameStatus(o)
<1>0. adStatus \in [Orders -> Status] /\ ruledAs \in [Orders -> Outcome]
  BY DEF LegInv, LegTypes, AdLegsTypeOK
<1>1. PICK q \in Orders :
        \/ \E pin \in SlotIds : LockForOrder(q, pin)
        \/ PresentSettled(q)
        \/ RecordSettled(q)
        \/ ClaimCancel(q)
        \/ FinalizeCancel(q)
        \/ CancelNeverLocked(q)
        \/ \E p \in Parties : Dispute(q, p) \/ RespondToDispute(q, p)
        \/ FinalizeDispute(q)
        \/ RepinOrder(q)
  BY DEF AdOrderNext
<1> USE <1>0 DEF StatusMoves, SameStatus, Live
<1>2. CASE PresentSettled(q)
  BY <1>2 DEF PresentSettled, EndLeg, Provable, AdPresentable
<1>3. CASE FinalizeDispute(q)
  BY <1>3 DEF FinalizeDispute, EndLeg
<1>4. CASE FinalizeCancel(q)
  BY <1>4 DEF FinalizeCancel, EndLeg
<1>5. CASE \E pin \in SlotIds : LockForOrder(q, pin)
  BY <1>5 DEF LockForOrder
<1>6. CASE RecordSettled(q) \/ ClaimCancel(q) \/ RepinOrder(q)
  BY <1>6 DEF RecordSettled, ClaimCancel, RepinOrder, adLegs
<1>7. CASE CancelNeverLocked(q)
  BY <1>7 DEF CancelNeverLocked, Provable
<1>8. CASE \E p \in Parties : Dispute(q, p) \/ RespondToDispute(q, p)
  BY <1>8 DEF Dispute, RespondToDispute, adLegs
<1> QED
  BY <1>1, <1>2, <1>3, <1>4, <1>5, <1>6, <1>7, <1>8

LEMMA DepositUnmoved ==
  ASSUME NEW o \in Orders, UNCHANGED orderChainVars
  PROVE  DepositOf(o)' = DepositOf(o)
<1>1. UNCHANGED opStatus
  BY DEF orderChainVars, opLegs
<1> QED
  BY <1>1 DEF DepositOf

LEMMA LockUnmoved ==
  ASSUME NEW o \in Orders, UNCHANGED adLegs
  PROVE  LockOf(o)' = LockOf(o)
<1>1. UNCHANGED <<adStatus, ruledAs>>
  BY DEF adLegs
<1> QED
  BY <1>1 DEF LockOf

LEMMA AdLocalTrade ==
  ASSUME BridgeInv, BridgeInv', AdLocalNext, UNCHANGED <<orderChainVars, cosigned>>
  PROVE  [TheTrade!TradeNext]_(TheTrade!tradeVars)
<1>1. MappingOK /\ MappingOK'
  BY MappingValues, MappingStays
<1>2. CASE AdOrderNext
  <2>1. PICK q \in Orders : StatusMoves(q) /\ \A o \in Orders \ {q} : SameStatus(o)
    BY <1>2, AdOrderMoves DEF BridgeInv
  <2>2. LockIs(q) /\ LockIs(q)' /\ DepositIs(q)
    BY <1>1 DEF MappingOK
  <2>3. LockMoves(q)
    <3>1. EvidenceOK(q) /\ FatesOK(q) /\ OpLeavesOK(q) /\ VerdictOK(q)'
      BY DEF BridgeInv, OpLegInv, LegInv, LegOK
    <3>2. CASE SameStatus(q)
      BY <3>2, SameStatusSameLock DEF LockMoves
    <3>3. CASE adStatus[q] = "None" /\ adStatus'[q] = "Open"
      BY <2>2, <3>3 DEF LockIs, LockMoves, Live
    <3>4. CASE /\ adStatus[q] = "None" /\ adStatus'[q] = "Cancelled"
               /\ orderAnchored[<<q, "AD">>] # 0
      <4>1. LockOf(q) = "none" /\ LockOf(q)' = "returned"
        BY <2>2, <3>1, <3>4 DEF LockIs, VerdictOK
      <4>2. opStatus[q] # "None"
        BY <3>1, <3>4 DEF EvidenceOK, OpLeavesOK
      <4> QED
        BY <4>1, <4>2 DEF LockMoves
    <3>5. CASE adStatus[q] \in Live /\ adStatus'[q] \in Live
      BY <2>2, <3>5 DEF LockIs, LockMoves
    <3>6. CASE /\ adStatus[q] \in Live /\ adStatus'[q] = "Filled"
               /\ orderAnchored[<<q, "SETTLED">>] # 0
      <4>1. LockOf(q) = "held" /\ LockOf(q)' = "paid"
        BY <2>2, <3>6 DEF LockIs
      <4>2. Agreed(q)
        BY <3>1, <3>6 DEF EvidenceOK, OpLeavesOK, FatesOK, PaidOnProof, Live
      <4> QED
        BY <4>1, <4>2 DEF LockMoves
    <3>7. CASE adStatus[q] \in Live /\ adStatus'[q] \in {"Cancelled", "Resolved"}
      <4>1. LockOf(q) = "held"
        BY <2>2, <3>7 DEF LockIs
      <4>2. LockOf(q)' \in {"returned", "maker_forfeit", "bridger_forfeit"}
        BY <2>2, <3>7 DEF LockIs, Live
      <4> QED
        BY <4>1, <4>2 DEF LockMoves
    <3> QED
      BY <2>1, <3>2, <3>3, <3>4, <3>5, <3>6, <3>7 DEF StatusMoves
  <2> QED
    BY <2>1, <2>2, <2>3, SameStatusSameLock, DepositUnmoved, LockIsTrade DEF DepositIs
<1>3. CASE ~AdOrderNext
  <2>1. UNCHANGED adLegs
    BY <1>3 DEF AdLocalNext, AdAdminNext, AdAnchorNext, AdMakerNext, AdHaltNext,
                AdRegistryNext, AdClaimNext, ClaimPayout, AdModuleNext, adVars
  <2> QED
    BY <2>1, LockUnmoved, DepositUnmoved, NoTradeMoves
<1> QED
  BY <1>2, <1>3

LEMMA UnlockTrade ==
  ASSUME BridgeInv, BridgeInv', NEW q \in Orders, CoSignedUnlock(q)
  PROVE  [TheTrade!TradeNext]_(TheTrade!tradeVars)
<1>1. MappingOK /\ MappingOK'
  BY MappingValues, MappingStays
<1>2. adStatus \in [Orders -> Status] /\ adOrder[q].pinned_slot \in SlotIds
  BY DEF BridgeInv, LegInv, LegTypes, AdLegsTypeOK, OrderRecord
<1>3. /\ adStatus[q] \in Live
      /\ adStatus' = [adStatus EXCEPT ![q] = "Filled"] /\ UNCHANGED ruledAs
      /\ UNCHANGED <<orderChainVars, cosigned>>
  BY DEF CoSignedUnlock, AdUnlockNext, Unlock, EndLeg, AdPresentable
<1>4. Agreed(q)
  BY <1>2 DEF CoSignedUnlock, Agreed
<1>5. \A o \in Orders \ {q} : LockOf(o)' = LockOf(o)
  BY <1>2, <1>3, SameStatusSameLock DEF SameStatus
<1>6. LockMoves(q)
  BY <1>1, <1>2, <1>3, <1>4 DEF MappingOK, LockIs, LockMoves
<1> QED
  BY <1>1, <1>3, <1>5, <1>6, DepositUnmoved, LockIsTrade DEF MappingOK, DepositIs

\* What an order-chain step may do to a deposit's status.
OpStatusMoves(o) ==
  \/ opStatus'[o] = opStatus[o]
  \/ opStatus[o] = "None" /\ opStatus'[o] = "Open"
  \/ /\ opStatus[o] \in Live /\ opStatus'[o] = "Filled"
     /\ \/ adAnchored[<<o, "SETTLED">>] # 0
        \/ adAnchored[<<o, "FORFEIT">>] # 0
        \/ Agreed(o)
  \/ /\ opStatus[o] \in Live /\ opStatus'[o] = "Cancelled"
     /\ adAnchored[<<o, "CANCEL">>] # 0

LEMMA OpOrderMoves ==
  ASSUME OpLegInv, OpOrderNext
  PROVE  \E q \in Orders :
           OpStatusMoves(q) /\ \A o \in Orders \ {q} : opStatus'[o] = opStatus[o]
<1>0. opStatus \in [Orders -> OpStatus]
  BY DEF OpLegInv, OpLegTypes
<1>1. PICK q \in Orders :
        \/ CreateOrder(q) \/ RefundByCancel(q) \/ PresentAdSettled(q)
        \/ PayMakerByForfeit(q) \/ RecordOrderSettled(q)
  BY DEF OpOrderNext
<1> USE <1>0 DEF OpStatusMoves, EndOrder, Presentable, AdLeafProvable
<1>2. CASE CreateOrder(q) \/ RecordOrderSettled(q)
  BY <1>2 DEF CreateOrder, RecordOrderSettled
<1>3. CASE RefundByCancel(q)
  BY <1>3 DEF RefundByCancel
<1>4. CASE PresentAdSettled(q)
  BY <1>4 DEF PresentAdSettled
<1>5. CASE PayMakerByForfeit(q)
  BY <1>5 DEF PayMakerByForfeit
<1> QED
  BY <1>1, <1>2, <1>3, <1>4, <1>5

LEMMA OrderMoveTrade ==
  ASSUME BridgeInv, BridgeInv', NEW q \in Orders, OpStatusMoves(q),
         \A o \in Orders \ {q} : opStatus'[o] = opStatus[o],
         UNCHANGED <<adChainVars, cosigned>>
  PROVE  [TheTrade!TradeNext]_(TheTrade!tradeVars)
<1>1. MappingOK /\ MappingOK'
  BY MappingValues, MappingStays
<1>2. LockIs(q) /\ DepositIs(q) /\ DepositIs(q)' /\ EvidenceOK(q) /\ FatesOK(q)
  BY <1>1 DEF MappingOK, BridgeInv
<1>3. \A o \in Orders \ {q} : DepositOf(o)' = DepositOf(o)
  BY DEF DepositOf
<1>4. \A o \in Orders : LockOf(o)' = LockOf(o)
  BY LockUnmoved DEF adChainVars, adVars
<1>5. DepositMoves(q)
  <2>1. CASE opStatus'[q] = opStatus[q]
    BY <2>1 DEF DepositOf, DepositMoves
  <2>2. CASE opStatus[q] = "None" /\ opStatus'[q] = "Open"
    BY <1>2, <2>2 DEF DepositIs, DepositMoves, Live
  <2>3. CASE /\ opStatus[q] \in Live /\ opStatus'[q] = "Filled"
             /\ \/ adAnchored[<<q, "SETTLED">>] # 0
                \/ adAnchored[<<q, "FORFEIT">>] # 0
                \/ Agreed(q)
    <3>1. DepositOf(q) = "held" /\ DepositOf(q)' = "paid"
      BY <1>2, <2>3 DEF DepositIs
    <3>2. Agreed(q) \/ LockOf(q) = "bridger_forfeit"
      BY <1>2, <2>3 DEF EvidenceOK, FatesOK, LockIs
    <3> QED
      BY <3>1, <3>2 DEF DepositMoves
  <2>4. CASE /\ opStatus[q] \in Live /\ opStatus'[q] = "Cancelled"
             /\ adAnchored[<<q, "CANCEL">>] # 0
    <3>1. DepositOf(q) = "held" /\ DepositOf(q)' = "refunded"
      BY <1>2, <2>4 DEF DepositIs
    <3>2. LockOf(q) \in {"returned", "maker_forfeit"}
      BY <1>2, <2>4 DEF EvidenceOK, LockIs
    <3> QED
      BY <3>1, <3>2 DEF DepositMoves
  <2> QED
    BY <2>1, <2>2, <2>3, <2>4 DEF OpStatusMoves
<1> QED
  BY <1>3, <1>4, <1>5, DepositIsTrade

LEMMA OpLocalTrade ==
  ASSUME BridgeInv, BridgeInv', OpLocalNext, UNCHANGED <<adChainVars, cosigned>>
  PROVE  [TheTrade!TradeNext]_(TheTrade!tradeVars)
<1>1. CASE OpOrderNext
  BY <1>1, OpOrderMoves, OrderMoveTrade DEF BridgeInv
<1>2. CASE ~OpOrderNext
  <2>1. UNCHANGED opStatus
    BY <1>2 DEF OpLocalNext, OpAdminNext, OpSetRootAnchor, OpClaimNext, OpClaim, opLegs
  <2>2. \A o \in Orders : DepositOf(o)' = DepositOf(o)
    BY <2>1 DEF DepositOf
  <2> QED
    BY <2>2, LockUnmoved, NoTradeMoves DEF adChainVars, adVars
<1> QED
  BY <1>1, <1>2

LEMMA UnlockOrderTrade ==
  ASSUME BridgeInv, BridgeInv', NEW q \in Orders, CoSignedUnlockOrder(q)
  PROVE  [TheTrade!TradeNext]_(TheTrade!tradeVars)
<1>1. opStatus \in [Orders -> OpStatus]
  BY DEF BridgeInv, OpLegInv, OpLegTypes
<1>2. OpStatusMoves(q) /\ \A o \in Orders \ {q} : opStatus'[o] = opStatus[o]
  BY <1>1 DEF CoSignedUnlockOrder, OpUnlockNext, UnlockOrder, EndOrder,
              OpStatusMoves, Agreed, Live
<1> QED
  BY <1>2, OrderMoveTrade DEF CoSignedUnlockOrder

LEMMA CoSignTrade ==
  ASSUME BridgeInv, NEW q \in Orders, NEW i \in SlotIds, CoSign(q, i)
  PROVE  [TheTrade!TradeNext]_(TheTrade!tradeVars)
<1> DEFINE lockF == [o \in Orders |-> LockOf(o)]
           depF  == [o \in Orders |-> DepositOf(o)]
<1>1. lockF' = lockF /\ depF' = depF
  BY LockUnmoved, DepositUnmoved DEF CoSign, adChainVars, adVars
<1>2. AgreedOrders' = AgreedOrders \cup {q}
  BY DEF CoSign, AgreedOrders
<1>3. lockF[q] # "none" /\ depF[q] # "none"
  <2>1. LockIs(q) /\ DepositIs(q) /\ EvidenceOK(q) /\ OpLeavesOK(q)
    BY MappingValues DEF MappingOK, BridgeInv, OpLegInv
  <2> QED
    BY <2>1 DEF CoSign, EvidenceOK, OpLeavesOK, LockIs, DepositIs
<1>4. TheTrade!Agree(q)
  BY <1>1, <1>2, <1>3 DEF TheTrade!Agree, AgreedOrders
<1> QED
  BY <1>4 DEF TheTrade!TradeNext

LEMMA QuietTrade ==
  ASSUME AnchorNext \/ AdTime \/ OrderTime \/ UNCHANGED bridgeVars
  PROVE  [TheTrade!TradeNext]_(TheTrade!tradeVars)
<1>1. UNCHANGED <<adLegs, opLegs, cosigned>>
  BY DEF AnchorNext, AdAnchorLeafNext, OpAnchorLeafNext, AdTime, OrderTime, AdTickNext,
         OpTickNext, bridgeVars, adChainVars, adVars, orderChainVars
<1>2. \A o \in Orders : DepositOf(o)' = DepositOf(o)
  BY <1>1 DEF opLegs, DepositOf
<1> QED
  BY <1>1, <1>2, LockUnmoved, NoTradeMoves

LEMMA BridgeStepIsTrade ==
  ASSUME BridgeInv, BridgeInv', [BridgeNext]_bridgeVars
  PROVE  [TheTrade!TradeNext]_(TheTrade!tradeVars)
<1>1. CASE ContractsNext
  BY <1>1, AdLocalTrade, OpLocalTrade, UnlockTrade, UnlockOrderTrade DEF ContractsNext
<1>2. CASE \E o \in Orders, i \in SlotIds : CoSign(o, i)
  BY <1>2, CoSignTrade
<1>3. CASE AnchorNext \/ AdTime \/ OrderTime \/ UNCHANGED bridgeVars
  BY <1>3, QuietTrade
<1> QED
  BY <1>1, <1>2, <1>3 DEF BridgeNext

LEMMA BridgeStartsAsTrade ==
  ASSUME BridgeInit
  PROVE  TheTrade!TradeInit
<1>1. /\ adStatus = [o \in Orders |-> "None"]
      /\ opStatus = [o \in Orders |-> "None"] /\ cosigned = {}
  BY DEF BridgeInit, AdInit, AdManagerInit, OrderPortalInit
<1>2. \A o \in Orders : LockOf(o) = "none" /\ DepositOf(o) = "none"
  <2>1. BridgeInv
    BY BridgeInvInit
  <2> QED
    BY <1>1, <2>1, MappingValues DEF MappingOK, LockIs, DepositIs
<1> QED
  BY <1>1, <1>2 DEF TheTrade!TradeInit

\* The two escrows implement Trade, for every interleaving of their calls, clocks,
\* co-signatures and anchorings: no lock or deposit is paid without an agreement
\* or a forfeiture, and none is refunded unless the other side was sent home.
THEOREM BridgeIsATrade == BridgeSpec => ImplementsTrade
<1>1. BridgeInv /\ BridgeInv' /\ [BridgeNext]_bridgeVars
        => [TheTrade!TradeNext]_(TheTrade!tradeVars)
  BY BridgeStepIsTrade
<1> QED
  BY <1>1, BridgeStartsAsTrade, BridgeInvariant, PTL
  DEF BridgeSpec, ImplementsTrade, TheTrade!TradeSpec

-----------------------------------------------------------------------------
(* What a step moves on the ad chain *)

\* Only lock_for_order appends the ORDER leaf, and no leaf goes.
LEMMA OrderLeafIsLock ==
  ASSUME [AdNext]_adChainVars, NEW o \in Orders
  PROVE  /\ <<o, "ORDER">> \in adLeaves => <<o, "ORDER">> \in adLeaves'
         /\ <<o, "ORDER">> \in adLeaves' =>
              \/ <<o, "ORDER">> \in adLeaves
              \/ \E pin \in SlotIds : LockForOrder(o, pin)
<1>1. CASE UNCHANGED adLeaves
  BY <1>1
<1>2. CASE AdOrderNext
  <2>1. PICK q \in Orders :
          \/ \E pin \in SlotIds : LockForOrder(q, pin)
          \/ PresentSettled(q)
          \/ RecordSettled(q)
          \/ ClaimCancel(q)
          \/ FinalizeCancel(q)
          \/ CancelNeverLocked(q)
          \/ \E p \in Parties : Dispute(q, p) \/ RespondToDispute(q, p)
          \/ FinalizeDispute(q)
          \/ RepinOrder(q)
    BY <1>2 DEF AdOrderNext
  <2>2. CASE \E pin \in SlotIds : LockForOrder(q, pin)
    BY <2>2 DEF LockForOrder
  <2>3. CASE PresentSettled(q) \/ ClaimCancel(q) \/ RepinOrder(q)
             \/ \E p \in Parties : Dispute(q, p) \/ RespondToDispute(q, p)
    BY <2>3 DEF PresentSettled, ClaimCancel, RepinOrder, Dispute,
                RespondToDispute, adProofs
  <2>4. CASE RecordSettled(q) \/ FinalizeCancel(q) \/ CancelNeverLocked(q)
             \/ FinalizeDispute(q)
    BY <2>4 DEF RecordSettled, FinalizeCancel, CancelNeverLocked,
                FinalizeDispute, Verdict
  <2> QED
    BY <2>1, <2>2, <2>3, <2>4
<1>3. CASE \E q \in Orders : AdUnlockNext(q)
  BY <1>3 DEF AdUnlockNext, Unlock
<1> QED
  <2>1. CASE AdLocalNext
    BY <1>1, <1>2, <2>1
    DEF AdLocalNext, AdAdminNext, AdAnchorNext, AdMakerNext, AdHaltNext,
        AdRegistryNext, AdClaimNext, ClaimPayout, AdModuleNext, adVars, adProofs
  <2>2. CASE (\E leaf \in OrderChainLeaves : AdAnchorLeafNext(leaf))
             \/ AdTickNext \/ UNCHANGED adChainVars
    BY <1>1, <2>2
    DEF AdAnchorLeafNext, AdTickNext, adChainVars, adVars, adProofs
  <2> QED
    BY <1>3, <2>1, <2>2 DEF AdNext

AnchoredAt(o) == orderAnchored[<<o, "SETTLED">>]

\* An anchor comes at the clock's second, or goes with the RootAnchor.
LEMMA AnchorMoves ==
  ASSUME orderAnchored \in [Leaves -> Nat], [AdNext]_adChainVars, NEW o \in Orders
  PROVE  \/ AnchoredAt(o)' = AnchoredAt(o)
         \/ AnchoredAt(o) = 0 /\ AnchoredAt(o)' = adNow /\ adNow' = adNow
         \/ AnchoredAt(o)' = 0
<1>0. <<o, "SETTLED">> \in Leaves
  BY LeafTypes DEF Domain
<1>1. CASE UNCHANGED orderAnchored
  BY <1>1 DEF AnchoredAt
<1>2. CASE AdAnchorNext
  BY <1>0, <1>2 DEF AdAnchorNext, SetRootAnchor, AnchoredAt
<1>3. CASE \E leaf \in OrderChainLeaves : AdAnchorLeafNext(leaf)
  <2>1. PICK leaf \in OrderChainLeaves : AdAnchorLeafNext(leaf)
    BY <1>3
  <2>2. /\ orderAnchored[leaf] = 0 /\ adNow' = adNow
        /\ orderAnchored' = [orderAnchored EXCEPT ![leaf] = adNow]
    BY <2>1 DEF AdAnchorLeafNext, AnchorOrderLeaf
  <2> QED
    BY <1>0, <2>2 DEF AnchoredAt
<1> QED
  <2>1. CASE AdLocalNext
    <3>1. CASE AdOrderNext
      BY <1>1, <3>1
      DEF AdOrderNext, LockForOrder, PresentSettled, RecordSettled, ClaimCancel,
          FinalizeCancel, CancelNeverLocked, Dispute, RespondToDispute,
          FinalizeDispute, RepinOrder, adProofs
    <3> QED
      BY <1>1, <1>2, <2>1, <3>1
      DEF AdLocalNext, AdAdminNext, AdMakerNext, AdHaltNext,
          AdRegistryNext, AdClaimNext, ClaimPayout, AdModuleNext, adVars, adProofs
  <2>2. CASE (\E q \in Orders : AdUnlockNext(q)) \/ AdTickNext \/ UNCHANGED adChainVars
    BY <1>1, <2>2
    DEF AdUnlockNext, Unlock, AdTickNext, adChainVars, adVars, adProofs
  <2> QED
    BY <1>3, <2>1, <2>2 DEF AdNext

\* Only the ledger moves the clock.
LEMMA CallsTakeNoTime ==
  ASSUME \/ AdLocalNext
         \/ \E o \in Orders : AdUnlockNext(o)
         \/ \E leaf \in OrderChainLeaves : AdAnchorLeafNext(leaf)
  PROVE  adNow' = adNow
<1> QED
  BY DEF AdLocalNext, AdAdminNext, AdAnchorNext, AdMakerNext, AdHaltNext,
         AdRegistryNext, AdOrderNext, AdClaimNext, AdModuleNext, AdUnlockNext,
         AdAnchorLeafNext

-----------------------------------------------------------------------------
(* What is true of a diligent bridger's order *)

\* A pair stands for a lock under its pin, or a re-pin has refused it.
SignedOK(o) ==
  /\ <<o, "ORDER">> \in adLeaves => adOrder[o].timing_version # 0
  /\ Agreed(o) => <<o, "ORDER">> \in adLeaves
  /\ \A i \in SlotIds : <<o, i>> \in cosigned =>
       i = adOrder[o].pinned_slot \/ adOrder[o].repinned

\* The deposit's clocks are stamped, and a SETTLED leaf is on record.
OpenedOK(o) ==
  /\ opStatus[o] # "None" => opOpenedUnder[o] # 0
  /\ <<o, "SETTLED">> \in opLeaves => o \in opSettled

\* The maker took the deposit on the pair, and has not got the lock back.
UnlockedOK(o) ==
  /\ opStatus[o] = "Filled"
  /\ o \in opSettled => <<o, "SETTLED">> \in opLeaves
  /\ \/ adStatus[o] \in Live \cup {"Filled"}
     \/ adStatus[o] = "Resolved" /\ ruledAs[o] = "MakerForfeit"

Stagger(o) == OpenedTiming(o).claim_stagger

\* How late it can be while the bridger waits for the lock: every delay runs
\* from one that ended in time.  Once the pair is refused, the denial is marked.
WaitingOK(o) ==
  /\ o \notin opSettled => orderNow + Stagger(o) <= Deadline[o]
  /\ o \in opSettled =>
       /\ shownAt[o] + Stagger(o) <= Deadline[o] + Skew
       /\ AnchoredAt(o) = 0 => adNow <= shownAt[o] + Cadence
       /\ AnchoredAt(o) # 0 => /\ AnchoredAt(o) <= shownAt[o] + Cadence
                               /\ \E d \in Delays : adNow <= AnchoredAt(o) + d
  /\ adNow >= PresentationCutoff(o) => Denied(o)

BridgerOK(o) ==
  /\ SignedOK(o) /\ OpenedOK(o)
  /\ o \in opNullifiers => UnlockedOK(o)
  /\ o \in opNullifiers /\ adStatus[o] \in Live => WaitingOK(o)

ClocksOK ==
  /\ orderNow \in Nat \ {0} /\ adNow \in Nat
  /\ adNow <= orderNow + Skew
  /\ shownAt \in [Orders -> Nat]

\* What both chains keep whatever the bridger does.
BothInv ==
  /\ BridgeInv
  /\ CountsOK /\ SlotsOK /\ \A o \in Orders : StampOK(o)
  /\ anchorDelay \in Delays

\* The inductive invariant.
DiligentInv == BothInv /\ ClocksOK /\ \A o \in Orders : BridgerOK(o)

-----------------------------------------------------------------------------
(* The room the clocks leave *)

LEMMA Room ==
  ASSUME LegTypes, OpLegInv, NEW o \in Orders,
         adOrder[o].timing_version # 0, opOpenedUnder[o] # 0
  PROVE  /\ OrderTiming(o).buffer \in Nat /\ OrderTiming(o).margin \in Nat
         /\ Stagger(o) \in Nat /\ Deadline[o] \in Nat
         /\ Skew \in Nat /\ Cadence \in Nat
         /\ Skew + OrderTiming(o).margin < Stagger(o) + OrderTiming(o).buffer
         /\ \A d, e \in Delays :
              Skew + Cadence + e < Stagger(o) + 2 * OrderTiming(o).buffer + d
<1>1. /\ adOrder[o].timing_version \in Versions \ {0}
      /\ opOpenedUnder[o] \in Versions \ {0}
  BY DEF LegTypes, AdLegsTypeOK, OrderRecord, OpLegInv, OpLegTypes
<1>2. /\ adOrder[o].timing_version \in 1..Len(Timings)
      /\ opOpenedUnder[o] \in 1..Len(Timings)
  BY <1>1, CoreAssumption DEF Versions
<1>3. /\ OrderTiming(o).buffer \in Nat /\ OrderTiming(o).margin \in Nat
      /\ Stagger(o) \in Nat
  BY <1>1, TimingType DEF OrderTiming, Stagger, OpenedTiming
<1> QED
  BY <1>2, <1>3, CoreAssumption, DiligenceAssumption
  DEF OrderTiming, Stagger, OpenedTiming

\* While the bridger waits, the grace of a refused payout is not over.
LEMMA GraceNotOver ==
  ASSUME LegInv, OpLegInv, ClocksOK, NEW o \in Orders, StampOK(o),
         adStatus[o] \in Live, opOpenedUnder[o] # 0, WaitingOK(o)
  PROVE  adNow < GraceEnd(o)
<1>1. adOrder[o].timing_version # 0 /\ LegTypes
  BY DEF LegInv, LegOK, ClockOK
<1>2. PICK b, g, st \in Nat :
        /\ b = OrderTiming(o).buffer /\ st = Stagger(o) /\ g = adOrder[o].anchor_delay
  BY <1>1, Room, GraceTypes
<1>3. g \in Delays /\ Delays \subseteq Nat
  BY <1>2, AdManagerAssumption DEF StampOK
<1>4. /\ Skew \in Nat /\ Cadence \in Nat /\ Deadline[o] \in Nat
      /\ \A d, e \in Delays : Skew + Cadence + e < st + 2 * b + d
  BY <1>1, <1>2, Room
<1>5. GraceEnd(o) = Deadline[o] + b + g + b
  BY <1>2 DEF GraceEnd
<1>6. orderNow \in Nat /\ adNow \in Nat /\ shownAt[o] \in Nat /\ AnchoredAt(o) \in Nat
  BY LeafTypes DEF ClocksOK, LegInv, LegTypes, AdProofsTypeOK, AnchoredAt, Domain
<1>7. CASE o \notin opSettled
  <2>1. orderNow + st <= Deadline[o] /\ adNow <= orderNow + Skew
    BY <1>2, <1>7 DEF WaitingOK, ClocksOK
  <2>2. Skew + Cadence + g < st + 2 * b + g
    BY <1>3, <1>4
  <2> QED
    BY <1>2, <1>3, <1>4, <1>5, <1>6, <2>1, <2>2
<1>8. CASE o \in opSettled
  <2>1. shownAt[o] + st <= Deadline[o] + Skew
    BY <1>2, <1>8 DEF WaitingOK
  <2>2. PICK e \in Delays : adNow <= shownAt[o] + Cadence + e
    <3>1. CASE AnchoredAt(o) = 0
      <4>1. adNow <= shownAt[o] + Cadence
        BY <1>8, <3>1 DEF WaitingOK
      <4> QED
        BY <1>3, <1>4, <1>6, <4>1
    <3>2. CASE AnchoredAt(o) # 0
      <4>1. PICK d \in Delays : adNow <= AnchoredAt(o) + d
        BY <1>8, <3>2 DEF WaitingOK
      <4>2. AnchoredAt(o) <= shownAt[o] + Cadence /\ d \in Nat
        BY <1>3, <1>8, <3>2 DEF WaitingOK
      <4> QED
        BY <1>4, <1>6, <4>1, <4>2
    <3> QED
      BY <3>1, <3>2
  <2>3. Skew + Cadence + e < st + 2 * b + g /\ e \in Nat
    BY <1>3, <1>4
  <2> QED
    BY <1>2, <1>3, <1>4, <1>5, <1>6, <2>1, <2>2, <2>3
<1> QED
  BY <1>7, <1>8

\* So the lock goes back to the maker neither by a cancel nor by a ruling.
LEMMA NotHandedBack ==
  ASSUME LegInv, LegInv', OpLegInv, ClocksOK, NEW o \in Orders, StampOK(o),
         opOpenedUnder[o] # 0, WaitingOK(o), adNow' = adNow,
         \/ FinalizeCancel(o)
         \/ FinalizeDispute(o) /\ ruledAs'[o] # "MakerForfeit"
  PROVE  FALSE
<1>1. /\ adStatus[o] \in Live /\ adOrder[o].timing_version # 0
      /\ adStatus \in [Orders -> Status] /\ adOrder' = adOrder
      /\ adStatus' \in [Orders -> Status] /\ adNow \in Nat
  BY DEF FinalizeCancel, FinalizeDispute, EndLeg, Live, LegInv, LegOK, ClockOK,
         LegTypes, AdLegsTypeOK, AdLedgerTypeOK
<1>2. adStatus'[o] \in {"Cancelled", "Resolved"}
  BY <1>1 DEF FinalizeCancel, FinalizeDispute, EndLeg
<1>3. adNow >= FixedEnd(o)
  BY <1>1, <1>2 DEF LegInv, LegOK, ReleaseOK, FixedEnd, OrderTiming
<1>4. Denied(o)
  BY <1>1, <1>3, CutoffInWindow, LiveWindow DEF WaitingOK
<1>5. adNow >= GraceEnd(o)
  BY <1>4, CancelGrace, DisputeGrace
<1>6. adNow < GraceEnd(o) /\ GraceEnd(o) \in Nat
  BY <1>1, GraceNotOver, GraceTypes
<1> QED
  BY <1>1, <1>5, <1>6

-----------------------------------------------------------------------------
(* Steps of the ad chain *)

LEMMA BothFacts ==
  ASSUME BothInv, NEW o \in Orders
  PROVE  /\ LegInv /\ LegTypes /\ LegOK(o) /\ OpLegInv /\ OpLeavesOK(o)
         /\ EvidenceOK(o) /\ FatesOK(o) /\ StampOK(o)
         /\ CountsOK /\ SlotsOK /\ anchorDelay \in Delays
         /\ adStatus \in [Orders -> Status] /\ adOrder \in [Orders -> OrderRecord]
<1> QED
  BY DEF BothInv, BridgeInv, LegInv, OpLegInv, LegTypes, AdLegsTypeOK

LEMMA SignedAdStep ==
  ASSUME BothInv, [AdNext]_adChainVars, UNCHANGED cosigned,
         NEW o \in Orders, SignedOK(o)
  PROVE  SignedOK(o)'
<1>1. /\ LegTypes /\ EvidenceOK(o) /\ adStatus \in [Orders -> Status]
      /\ adOrder \in [Orders -> OrderRecord]
  BY BothFacts
<1>2. Agreed(o)' <=> Agreed(o)
  BY DEF Agreed
<1>3. OrderMove(o)
  BY <1>1, OrderMoves
<1>4. CASE <<o, "ORDER">> \in adLeaves
  <2>1. adStatus[o] # "None" /\ <<o, "ORDER">> \in adLeaves'
    BY <1>1, <1>4, OrderLeafIsLock DEF EvidenceOK
  <2>2. CASE adOrder'[o] = adOrder[o]
    BY <1>2, <1>4, <2>1, <2>2 DEF SignedOK
  <2>3. CASE RepinOrder(o)
    BY <1>1, <1>2, <1>4, <2>1, <2>3, RepinStamps DEF SignedOK
  <2> QED
    BY <1>3, <2>1, <2>2, <2>3
    DEF OrderMove, LockForOrder, FinalizeCancel, FinalizeDispute, EndLeg
<1>5. CASE <<o, "ORDER">> \notin adLeaves
  <2>1. ~Agreed(o) /\ \A i \in SlotIds : <<o, i>> \notin cosigned
    BY <1>5 DEF SignedOK, Agreed
  <2>2. ASSUME NEW pin \in SlotIds, LockForOrder(o, pin)
        PROVE  adOrder'[o].timing_version # 0
    <3>1. adOrder'[o] = OpenOrder(pin)
      BY <1>1, <2>2 DEF LockForOrder
    <3> QED
      BY <1>1, <3>1 DEF OpenOrder, LegTypes, AdConfigTypeOK
  <2> QED
    BY <1>2, <1>5, <2>1, <2>2, OrderLeafIsLock DEF SignedOK
<1> QED
  BY <1>4, <1>5

\* The lock the bridger waits for is paid to it, or kept for it.
LEMMA UnlockedAdStep ==
  ASSUME BothInv, ClocksOK, LegInv', [AdNext]_adChainVars,
         UNCHANGED orderChainVars, NEW o \in Orders, LegStep(o),
         BridgerOK(o), o \in opNullifiers
  PROVE  UnlockedOK(o)'
<1>1. UnlockedOK(o) /\ opOpenedUnder[o] # 0
  BY DEF BridgerOK, OpenedOK, UnlockedOK
<1>2. UNCHANGED <<opStatus, opSettled, opLeaves>>
  BY DEF orderChainVars, opLegs
<1>3. CASE adStatus[o] \in Live
  <2>1. /\ LegInv /\ OpLegInv /\ StampOK(o) /\ WaitingOK(o)
        /\ adStatus \in [Orders -> Status]
    BY <1>3, BothFacts DEF BridgerOK
  <2>2. CASE FinalizeCancel(o) /\ adNow' = adNow
    BY <1>1, <2>1, <2>2, NotHandedBack
  <2>3. CASE FinalizeDispute(o) /\ adNow' = adNow
    <3>1. ruledAs'[o] = "MakerForfeit"
      BY <1>1, <2>1, <2>3, NotHandedBack
    <3>2. adStatus'[o] = "Resolved"
      BY <2>1, <2>3 DEF FinalizeDispute, EndLeg
    <3> QED
      BY <1>1, <1>2, <3>1, <3>2 DEF UnlockedOK
  <2>4. CASE adStatus'[o] \in Live \cup {"Filled"}
    BY <1>1, <1>2, <2>4 DEF UnlockedOK
  <2>5. CASE RepinOrder(o)
    BY <1>1, <1>2, <2>5 DEF RepinOrder, UnlockedOK
  <2>6. OrderMove(o)
    BY <2>1, OrderMoves DEF LegInv
  <2> QED
    BY <1>3, <2>2, <2>3, <2>4, <2>5, <2>6 DEF OrderMove, LockForOrder, Live
<1>4. CASE adStatus[o] \notin Live
  <2>1. adStatus'[o] = adStatus[o] /\ ruledAs'[o] = ruledAs[o]
    BY <1>1, <1>4 DEF LegStep, UnlockedOK, Terminal
  <2> QED
    BY <1>1, <1>2, <2>1 DEF UnlockedOK
<1> QED
  BY <1>3, <1>4

\* A live order's cutoff does not move.
LEMMA CutoffStays ==
  ASSUME LegTypes, [AdNext]_adChainVars, NEW o \in Orders, LegStep(o),
         adStatus[o] \in Live, adStatus'[o] \in Live
  PROVE  PresentationCutoff(o)' = PresentationCutoff(o)
<1>1. OrderMove(o) /\ adOrder \in [Orders -> OrderRecord]
  BY OrderMoves DEF LegTypes, AdLegsTypeOK
<1>2. adOrder'[o].timing_version = adOrder[o].timing_version
  BY <1>1, RepinStamps
  DEF OrderMove, LockForOrder, FinalizeCancel, FinalizeDispute, EndLeg, Live
<1>3. WindowEnd(o)' = WindowEnd(o)
  BY DEF LegStep
<1> QED
  BY <1>2, <1>3 DEF PresentationCutoff, OrderTiming

\* A call on the ad chain, at whatever second.
LEMMA WaitingCall ==
  ASSUME BothInv, ClocksOK, LegInv', [AdNext]_adChainVars, adNow' = adNow,
         UNCHANGED orderChainVars, AnchorKept,
         NEW o \in Orders, LegStep(o), shownAt'[o] = shownAt[o],
         BridgerOK(o), o \in opNullifiers,
         adStatus[o] \in Live, adStatus'[o] \in Live
  PROVE  WaitingOK(o)'
<1>1. WaitingOK(o) /\ UnlockedOK(o)
  BY DEF BridgerOK
<1>2. /\ LegInv /\ LegTypes /\ StampOK(o) /\ CountsOK /\ SlotsOK
      /\ anchorDelay \in Delays /\ Delays \subseteq Nat
  BY BothFacts, AdManagerAssumption
<1>3. /\ UNCHANGED <<orderNow, opSettled>> /\ Stagger(o)' = Stagger(o)
  BY DEF orderChainVars, opLegs, Stagger, OpenedTiming
<1>4. adNow \in Nat /\ shownAt[o] \in Nat
  BY DEF ClocksOK
<1>5. ASSUME o \in opSettled
      PROVE  /\ AnchoredAt(o)' = 0 => adNow <= shownAt[o] + Cadence
             /\ AnchoredAt(o)' # 0 =>
                  /\ AnchoredAt(o)' <= shownAt[o] + Cadence
                  /\ \E d \in Delays : adNow <= AnchoredAt(o)' + d
  <2>1. /\ AnchoredAt(o) = 0 => adNow <= shownAt[o] + Cadence
        /\ AnchoredAt(o) # 0 => /\ AnchoredAt(o) <= shownAt[o] + Cadence
                                /\ \E d \in Delays : adNow <= AnchoredAt(o) + d
    BY <1>1, <1>5 DEF WaitingOK
  <2>2. orderAnchored \in [Leaves -> Nat] /\ AnchoredAt(o) \in Nat
    BY <1>2, LeafTypes DEF LegTypes, AdProofsTypeOK, AnchoredAt, Domain
  <2>3. CASE AnchoredAt(o)' = AnchoredAt(o)
    BY <2>1, <2>3
  <2>4. CASE AnchoredAt(o) = 0 /\ AnchoredAt(o)' = adNow
    <3>1. adNow <= adNow + anchorDelay
      BY <1>2, <1>4
    <3> QED
      BY <1>2, <2>1, <2>4, <3>1
  <2>5. CASE AnchoredAt(o)' = 0
    <3>1. 0 >= AnchoredAt(o)
      BY <1>1, <2>5 DEF AnchorKept, Owed, UnlockedOK, AnchoredAt
    <3>2. AnchoredAt(o) = 0
      BY <2>2, <3>1
    <3> QED
      BY <2>1, <2>5, <3>2
  <2> QED
    BY <2>2, <2>3, <2>4, <2>5, AnchorMoves
<1>6. adNow >= PresentationCutoff(o)' => Denied(o)'
  BY <1>1, <1>2, CutoffStays, DeniedStays DEF WaitingOK
<1> QED
  BY <1>1, <1>3, <1>5, <1>6 DEF WaitingOK

\* The ad chain's clock, which a diligent bridger does not let run out.
LEMMA WaitingTick ==
  ASSUME BothInv, ClocksOK, LegInv', AdTickNext,
         UNCHANGED orderChainVars,
         NEW o \in Orders, ~MustActNow(o), LegStep(o), shownAt'[o] = shownAt[o],
         BridgerOK(o), o \in opNullifiers,
         adStatus[o] \in Live, adStatus'[o] \in Live
  PROVE  WaitingOK(o)'
<1>1. WaitingOK(o) /\ UnlockedOK(o) /\ SignedOK(o)
  BY DEF BridgerOK
<1>2. /\ LegInv /\ LegTypes /\ StampOK(o) /\ CountsOK /\ SlotsOK /\ FatesOK(o)
      /\ anchorDelay \in Delays /\ Delays \subseteq Nat
      /\ adOrder[o] \in OrderRecord
  BY BothFacts, AdManagerAssumption
<1>3. /\ UNCHANGED <<orderNow, opSettled>> /\ Stagger(o)' = Stagger(o)
  BY DEF orderChainVars, opLegs, Stagger, OpenedTiming
<1>4. /\ adNow' = adNow + 1 /\ adNow \in Nat /\ shownAt[o] \in Nat
      /\ AnchoredAt(o)' = AnchoredAt(o)
      /\ UNCHANGED <<registryVars, adConfig, halt, adOrder>>
  BY DEF ClocksOK, AdTickNext, AdTick, adVars, adLegs, adProofs, AnchoredAt
<1>5. Owed(o)
  BY <1>1 DEF Owed, UnlockedOK
<1>6. o \in opSettled /\ <<o, "SETTLED">> \in opLeaves
  BY <1>1, <1>5 DEF MustActNow, UnlockedOK
<1>7. AnchoredAt(o) = 0 => adNow + 1 <= shownAt[o] + Cadence
  <2>1. AnchoredAt(o) = 0 => ~(adNow >= shownAt[o] + Cadence)
    BY <1>5, <1>6 DEF MustActNow, AnchoredAt
  <2>2. Cadence \in Nat
    BY DiligenceAssumption
  <2> QED
    BY <1>4, <2>1, <2>2
<1>8. AnchoredAt(o) # 0 => adNow + 1 <= AnchoredAt(o) + anchorDelay
  <2>1. AnchoredAt(o) # 0 => ~(adNow >= AnchoredAt(o) + anchorDelay)
    BY <1>5 DEF MustActNow, Provable, AnchoredAt
  <2>2. AnchoredAt(o) \in Nat
    BY <1>2, LeafTypes DEF LegTypes, AdProofsTypeOK, AnchoredAt, Domain
  <2> QED
    BY <1>2, <1>4, <2>1, <2>2
<1>9. ASSUME adNow' >= PresentationCutoff(o)'
      PROVE  Denied(o)'
  <2>1. [AdNext]_adChainVars
    BY DEF AdNext
  <2>2. PresentationCutoff(o)' = PresentationCutoff(o) /\ PresentationCutoff(o) \in Nat
    BY <1>2, <2>1, CutoffStays, CutoffInWindow
  <2>3. CASE adNow >= PresentationCutoff(o)
    BY <1>1, <1>2, <2>1, <2>3, DeniedStays DEF WaitingOK
  <2>4. CASE adNow + 1 = PresentationCutoff(o)
    <3>1. ~LastChanceToUnlock(o)
      BY <1>5 DEF MustActNow
    <3>2. CASE <<o, adOrder[o].pinned_slot>> \notin cosigned
      <4>1. Agreed(o)
        BY <1>2 DEF FatesOK
      <4>2. adOrder[o].repinned
        BY <1>1, <3>2, <4>1 DEF Agreed, SignedOK
      <4> QED
        BY <1>4, <4>2 DEF Denied
    <3>3. CASE GateShut(o)
      <4>1. CoSignDenied(o, PresentationCutoff(o)) \/ PastGrace(o)
        BY <1>2, <1>4, <2>2, <2>4, <3>3, GateMarks DEF Marked
      <4>2. adOrder[o].locked_at < adNow'
        BY <1>2, <1>4 DEF StampOK, OrderRecord
      <4>3. CoSignDenied(o, PresentationCutoff(o)) =>
              CoSignDenied(o, PresentationCutoff(o))'
        BY <1>4, <2>2
        DEF CoSignDenied, HaltedSinceLock, VerifierGap, RegistrySplit, PinExpiresBy,
            ExpiredAt, adConfig, registryVars
      <4>4. PastGrace(o) => PastGrace(o)'
        <5>1. adOrder[o].locked_at \in Nat /\ GracePeriod \in Nat
          BY <1>2, BLSKeyRegistryAssumption DEF OrderRecord
        <5> QED
          BY <1>4, <5>1 DEF PastGrace
      <4> QED
        BY <1>4, <4>1, <4>2, <4>3, <4>4 DEF Denied
    <3> QED
      BY <2>4, <3>1, <3>2, <3>3 DEF LastChanceToUnlock, GateShut
  <2> QED
    BY <1>4, <1>9, <2>2, <2>3, <2>4
<1> QED
  BY <1>1, <1>2, <1>3, <1>4, <1>6, <1>7, <1>8, <1>9 DEF WaitingOK

-----------------------------------------------------------------------------
(* Steps of the order chain *)

\* What a call does to what a bridger is owed for.
DepositMove(o) ==
  /\ orderNow' = orderNow
  /\ opStatus'[o] # "None" => opStatus[o] # "None" \/ opOpenedUnder'[o] # 0
  /\ o \in opSettled => o \in opSettled'
  /\ <<o, "SETTLED">> \in opLeaves' => <<o, "SETTLED">> \in opLeaves \/ o \in opSettled'
  /\ o \in opSettled' =>
       o \in opSettled \/ RecordOrderSettled(o) \/ PayMakerByForfeit(o)
  /\ o \in opNullifiers' => o \in opNullifiers \/ UnlockOrder(o)

LEMMA OrderCalls ==
  ASSUME OpLegInv, NEW o \in Orders,
         \/ OpLocalNext
         \/ \E q \in Orders : OpUnlockNext(q)
         \/ \E leaf \in AdChainLeaves : OpAnchorLeafNext(leaf)
  PROVE  DepositMove(o)
<1> USE DEF OpLegInv, OpLegTypes, OpStatus
<1>1. CASE UNCHANGED <<orderNow, opLegs>>
  BY <1>1 DEF opLegs, DepositMove
<1>2. CASE OpOrderNext
  <2>0. orderNow' = orderNow
    BY <1>2 DEF OpOrderNext
  <2>1. PICK q \in Orders :
          \/ CreateOrder(q) \/ RefundByCancel(q) \/ PresentAdSettled(q)
          \/ PayMakerByForfeit(q) \/ RecordOrderSettled(q)
    BY <1>2 DEF OpOrderNext
  <2>2. CASE CreateOrder(q)
    BY <2>0, <2>2 DEF CreateOrder, DepositMove
  <2>3. CASE RefundByCancel(q) \/ PresentAdSettled(q)
    BY <2>0, <2>3 DEF RefundByCancel, PresentAdSettled, EndOrder, Presentable, Live,
                      DepositMove
  <2>4. CASE PayMakerByForfeit(q)
    BY <2>0, <2>4 DEF PayMakerByForfeit, EndOrder, Presentable, Live, DepositMove
  <2>5. CASE RecordOrderSettled(q)
    BY <2>0, <2>5 DEF RecordOrderSettled, DepositMove
  <2> QED
    BY <2>1, <2>2, <2>3, <2>4, <2>5
<1>3. CASE \E q \in Orders : OpUnlockNext(q)
  <2>1. PICK q \in Orders : UnlockOrder(q) /\ orderNow' = orderNow
    BY <1>3 DEF OpUnlockNext
  <2> QED
    BY <2>1 DEF UnlockOrder, EndOrder, DepositMove
<1> QED
  BY <1>1, <1>2, <1>3
  DEF OpLocalNext, OpAdminNext, OpSetRootAnchor, OpClaimNext, OpClaim, OpAnchorLeafNext

LEMMA OpenedStep ==
  ASSUME OpLegInv, NEW o \in Orders, DepositMove(o), DepositStep(o), OpenedOK(o)
  PROVE  OpenedOK(o)'
<1> QED
  BY DEF DepositMove, DepositStep, OpenedOK

\* Nothing of the ad chain moves: what was signed stays what it was.
LEMMA SignedStays ==
  ASSUME NEW o \in Orders, UNCHANGED <<adChainVars, cosigned>>, SignedOK(o)
  PROVE  SignedOK(o)'
<1> QED
  BY DEF adChainVars, adVars, adLegs, adProofs, SignedOK, Agreed

\* The pair is used on the order leg in time for the ad leg's unlock.
LEMMA UnlockInTime ==
  ASSUME BothInv, ClocksOK, NEW o \in Orders, UnlockOrder(o), Agreed(o),
         BridgerOK(o)
  PROVE  /\ orderNow + Stagger(o) <= Deadline[o]
         /\ adStatus[o] \in Live \cup {"Filled"}
         /\ adStatus[o] \in Live => adNow < PresentationCutoff(o)
<1>1. /\ LegInv /\ LegTypes /\ LegOK(o) /\ OpLegInv /\ EvidenceOK(o)
      /\ adStatus[o] \in Status
  BY BothFacts
<1>2. adStatus[o] # "None" /\ adOrder[o].timing_version # 0 /\ opOpenedUnder[o] # 0
  BY <1>1 DEF BridgerOK, SignedOK, OpenedOK, EvidenceOK, UnlockOrder
<1>3. PICK b, m, st \in Nat :
        /\ b = OrderTiming(o).buffer /\ m = OrderTiming(o).margin /\ st = Stagger(o)
  BY <1>1, <1>2, Room
<1>4. /\ Skew \in Nat /\ Deadline[o] \in Nat /\ Skew + m < st + b
      /\ orderNow \in Nat \ {0} /\ adNow \in Nat /\ adNow <= orderNow + Skew
  BY <1>1, <1>2, <1>3, Room DEF ClocksOK
<1>5. orderNow + st <= Deadline[o]
  BY <1>3, <1>4 DEF UnlockOrder, LastUnlock, SatSub, Stagger
<1>6. adNow + m < Deadline[o] + b
  BY <1>3, <1>4, <1>5
<1>7. adStatus[o] \notin {"Cancelled", "Resolved"}
  BY <1>1, <1>2, <1>3, <1>4, <1>6 DEF LegOK, ReleaseOK, FixedEnd
<1>8. ASSUME adStatus[o] \in Live
      PROVE  adNow < PresentationCutoff(o)
  <2>1. WindowEnd(o) = Deadline[o] + b
    BY <1>1, <1>3, <1>8, LiveWindow DEF FixedEnd
  <2> QED
    BY <1>3, <1>4, <1>6, <2>1 DEF PresentationCutoff, SatSub
<1> QED
  BY <1>1, <1>2, <1>3, <1>5, <1>7, <1>8 DEF Status, Live

\* A call on the order chain.
LEMMA BridgerOrderCall ==
  ASSUME BothInv, ClocksOK, UNCHANGED <<adChainVars, cosigned>>,
         NEW o \in Orders, DepositMove(o), DepositStep(o),
         shownAt'[o] = IF o \notin opSettled /\ o \in opSettled' THEN adNow
                                                                 ELSE shownAt[o],
         UnlockOrder(o) => Agreed(o),
         BridgerOK(o)
  PROVE  BridgerOK(o)'
<1>1. SignedOK(o)' /\ OpenedOK(o)'
  BY SignedStays, OpenedStep, BothFacts DEF BridgerOK
<1>2. /\ UNCHANGED <<adNow, adStatus, ruledAs, orderAnchored>>
      /\ PresentationCutoff(o)' = PresentationCutoff(o)
      /\ Denied(o)' = Denied(o)
  BY DEF adChainVars, adVars, adLegs, adProofs, adConfig, registryVars,
         PresentationCutoff, WindowEnd, OrderTiming, Denied, PastGrace, CoSignDenied,
         HaltedSinceLock, VerifierGap, RegistrySplit, PinExpiresBy, ExpiredAt
<1>3. /\ LegTypes /\ OpLeavesOK(o) /\ EvidenceOK(o) /\ orderNow' = orderNow
      /\ adStatus[o] \in Status
  BY BothFacts DEF DepositMove
<1> SUFFICES ASSUME o \in opNullifiers'
             PROVE  UnlockedOK(o)' /\ (adStatus[o] \in Live => WaitingOK(o)')
  BY <1>1, <1>2 DEF BridgerOK
<1>4. CASE o \in opNullifiers
  <2>1. UnlockedOK(o) /\ (adStatus[o] \in Live => WaitingOK(o))
    BY <1>4 DEF BridgerOK
  <2>2. opStatus'[o] = "Filled" /\ Stagger(o)' = Stagger(o) /\ ~PayMakerByForfeit(o)
    BY <2>1 DEF UnlockedOK, DepositStep, Terminal, Live, Stagger, OpenedTiming,
                PayMakerByForfeit, Presentable
  <2>3. CASE o \in opSettled' <=> o \in opSettled
    <3>1. UnlockedOK(o)'
      BY <1>2, <2>1, <2>2, <2>3 DEF UnlockedOK, DepositStep, Domain
    <3>2. adStatus[o] \in Live => WaitingOK(o)'
      BY <1>2, <1>3, <2>1, <2>2, <2>3 DEF WaitingOK, AnchoredAt
    <3> QED
      BY <3>1, <3>2
  <2>4. CASE RecordOrderSettled(o)
    <3>1. o \notin opSettled /\ o \in opSettled' /\ <<o, "SETTLED">> \in opLeaves'
      BY <2>4 DEF RecordOrderSettled
    <3>2. UnlockedOK(o)'
      BY <1>2, <2>1, <2>2, <3>1 DEF UnlockedOK
    <3>3. ASSUME adStatus[o] \in Live
          PROVE  WaitingOK(o)'
      <4>1. AnchoredAt(o)' = 0
        BY <1>2, <1>3, <3>1 DEF BridgerOK, OpenedOK, EvidenceOK, AnchoredAt
      <4>2. shownAt'[o] = adNow
        BY <3>1
      <4>3. orderNow + Stagger(o) <= Deadline[o]
        BY <2>1, <3>1, <3>3 DEF WaitingOK
      <4>4. Stagger(o) \in Nat /\ Skew \in Nat /\ Cadence \in Nat /\ Deadline[o] \in Nat
        <5>1. opOpenedUnder[o] \in Versions /\ opOpenedUnder[o] # 0
          BY <2>1, BothFacts
          DEF BridgerOK, OpenedOK, UnlockedOK, OpLegInv, OpLegTypes
        <5> QED
          BY <5>1, TimingType, CoreAssumption, DiligenceAssumption
          DEF Stagger, OpenedTiming
      <4>5. adNow + Stagger(o) <= Deadline[o] + Skew /\ adNow <= adNow + Cadence
        BY <4>3, <4>4 DEF ClocksOK
      <4>6. adNow >= PresentationCutoff(o) => Denied(o)
        BY <2>1, <3>3 DEF WaitingOK
      <4> QED
        BY <1>2, <2>2, <3>1, <4>1, <4>2, <4>5, <4>6 DEF WaitingOK
    <3> QED
      BY <3>2, <3>3
  <2> QED
    BY <2>2, <2>3, <2>4 DEF DepositMove
<1>5. CASE UnlockOrder(o)
  <2>1. /\ opStatus[o] = "Open" /\ opOpenedUnder' = opOpenedUnder
        /\ opSettled' = opSettled /\ opStatus' = [opStatus EXCEPT ![o] = "Filled"]
    BY <1>5 DEF UnlockOrder, EndOrder
  <2>2. o \notin opSettled' /\ opStatus'[o] = "Filled" /\ Stagger(o)' = Stagger(o)
    BY <1>3, <2>1, BothFacts
    DEF OpLeavesOK, OpLegInv, OpLegTypes, Stagger, OpenedTiming
  <2>3. /\ orderNow + Stagger(o) <= Deadline[o]
        /\ adStatus[o] \in Live \cup {"Filled"}
        /\ adStatus[o] \in Live => adNow < PresentationCutoff(o)
    BY <1>5, UnlockInTime
  <2>4. adStatus[o] \in Live => PresentationCutoff(o) \in Nat /\ adNow \in Nat
    BY CutoffInWindow, BothFacts DEF ClocksOK
  <2> QED
    BY <1>2, <1>3, <2>2, <2>3, <2>4 DEF UnlockedOK, WaitingOK
<1> QED
  BY <1>4, <1>5 DEF DepositMove

-----------------------------------------------------------------------------
(* Every step *)

LEMMA ChainSteps ==
  ASSUME [BridgeNext]_bridgeVars
  PROVE  [AdNext]_adChainVars /\ [OpNext]_orderChainVars
<1>1. CASE ContractsNext
  BY <1>1 DEF ContractsNext, CoSignedUnlock, CoSignedUnlockOrder, AdNext, OpNext
<1>2. CASE \E o \in Orders, i \in SlotIds : CoSign(o, i)
  BY <1>2 DEF CoSign
<1>3. CASE AnchorNext
  BY <1>3 DEF AnchorNext, AdNext, OpNext
<1>4. CASE AdTime \/ OrderTime \/ UNCHANGED bridgeVars
  BY <1>4 DEF AdTime, OrderTime, AdNext, OpNext, bridgeVars
<1> QED
  BY <1>1, <1>2, <1>3, <1>4 DEF BridgeNext

LEMMA BothStep ==
  ASSUME BothInv, [BridgeNext]_bridgeVars
  PROVE  BothInv' /\ \A o \in Orders : LegStep(o) /\ DepositStep(o)
<1>1. /\ LegInv /\ OpLegInv /\ BridgeInv /\ CountsOK /\ SlotsOK
      /\ anchorDelay \in Delays /\ \A o \in Orders : StampOK(o)
  BY DEF BothInv, BridgeInv
<1>2. [AdNext]_adChainVars /\ [OpNext]_orderChainVars
  BY ChainSteps
<1>3. LegInv' /\ \A o \in Orders : LegStep(o)
  BY <1>1, <1>2, LegInvStep DEF LegGoal
<1>4. \A o \in Orders : DepositStep(o)
  BY <1>1, <1>2, OpLegInvStep DEF OpGoal
<1>5. BridgeInv'
  BY <1>1, BridgeInvStep
<1>6. CountsOK'
  BY <1>1, <1>2, CountsStep
<1>7. anchorDelay' \in Delays
  BY <1>1, <1>2, LeversStep DEF LegInv
<1>8. SlotsOK'
  BY <1>1, <1>2, <1>3, KeysStep DEF LegInv
<1>9. \A o \in Orders : StampOK(o)'
  BY <1>1, <1>2, <1>3, StampStep
<1> QED
  BY <1>3, <1>4, <1>5, <1>6, <1>7, <1>8, <1>9 DEF BothInv

LEMMA ShownStep ==
  ASSUME ClocksOK, [DiligentNext]_diligentVars
  PROVE  /\ shownAt' \in [Orders -> Nat]
         /\ \A o \in Orders :
              shownAt'[o] = IF o \notin opSettled /\ o \in opSettled'
                              THEN adNow ELSE shownAt[o]
<1>1. CASE DiligentNext
  BY <1>1 DEF DiligentNext, ClocksOK
<1>2. CASE UNCHANGED diligentVars
  BY <1>2 DEF diligentVars, bridgeVars, orderChainVars, opLegs, ClocksOK
<1> QED
  BY <1>1, <1>2

LEMMA ShownStays ==
  ASSUME ClocksOK, [DiligentNext]_diligentVars, UNCHANGED opSettled,
         NEW o \in Orders
  PROVE  shownAt'[o] = shownAt[o]
<1> QED
  BY ShownStep

\* A call on the ad chain.
LEMMA BridgerAdCall ==
  ASSUME DiligentInv, [DiligentNext]_diligentVars, NEW o \in Orders,
         adNow' = adNow, UNCHANGED <<orderChainVars, cosigned>>
  PROVE  BridgerOK(o)'
<1>1. /\ BothInv /\ ClocksOK /\ BridgerOK(o) /\ [BridgeNext]_bridgeVars
  BY DEF DiligentInv, DiligentNext, diligentVars
<1>2. LegInv' /\ LegStep(o) /\ [AdNext]_adChainVars
  BY <1>1, BothStep, ChainSteps DEF BothInv, BridgeInv
<1>3. UNCHANGED <<opSettled, opStatus, opOpenedUnder, opNullifiers, opLeaves>>
  BY DEF orderChainVars, opLegs
<1>4. shownAt'[o] = shownAt[o]
  BY <1>1, <1>3, ShownStays
<1>5. SignedOK(o)'
  BY <1>1, <1>2, SignedAdStep DEF BridgerOK
<1>6. OpenedOK(o)'
  BY <1>1, <1>3 DEF BridgerOK, OpenedOK
<1>7. ASSUME o \in opNullifiers
      PROVE  UnlockedOK(o)'
  BY <1>1, <1>2, <1>7, UnlockedAdStep
<1>8. ASSUME o \in opNullifiers, adStatus'[o] \in Live
      PROVE  WaitingOK(o)'
  <2>1. adStatus[o] \in Live
    BY <1>1, <1>2, <1>8 DEF BridgerOK, UnlockedOK, LegStep, Live, Terminal
  <2>2. AnchorKept
    <3>1. CASE DiligentNext
      BY <3>1 DEF DiligentNext
    <3>2. CASE UNCHANGED diligentVars
      <4>1. UNCHANGED orderAnchored
        BY <3>2 DEF diligentVars, bridgeVars, adChainVars, adVars, adProofs
      <4>2. orderAnchored \in [Leaves -> Nat]
        BY <1>1 DEF BothInv, BridgeInv, LegInv, LegTypes, AdProofsTypeOK
      <4>3. \A q \in Orders : orderAnchored[<<q, "SETTLED">>] \in Nat
        BY <4>2, LeafTypes DEF Domain
      <4> QED
        BY <4>1, <4>3 DEF AnchorKept
    <3> QED
      BY <3>1, <3>2
  <2> QED
    BY <1>1, <1>2, <1>4, <1>8, <2>1, <2>2, WaitingCall
<1> QED
  BY <1>3, <1>5, <1>6, <1>7, <1>8 DEF BridgerOK

LEMMA BridgerAdTime ==
  ASSUME DiligentInv, DiligentNext, NEW o \in Orders, AdTime
  PROVE  BridgerOK(o)'
<1>1. /\ BothInv /\ ClocksOK /\ BridgerOK(o) /\ [BridgeNext]_bridgeVars
      /\ ~MustActNow(o) /\ AdTickNext /\ UNCHANGED <<orderChainVars, cosigned>>
  BY DEF DiligentInv, DiligentNext, TimePasses, AdTime
<1>2. LegInv' /\ LegStep(o) /\ [AdNext]_adChainVars
  BY <1>1, BothStep, ChainSteps DEF BothInv, BridgeInv
<1>3. /\ UNCHANGED <<opSettled, opStatus, opOpenedUnder, opNullifiers, opLeaves>>
      /\ UNCHANGED adStatus
  BY <1>1 DEF orderChainVars, opLegs, AdTickNext, adVars, adLegs
<1>4. shownAt'[o] = shownAt[o]
  BY <1>1, <1>3, ShownStays
<1>5. SignedOK(o)'
  BY <1>1, <1>2, SignedAdStep DEF BridgerOK
<1>6. OpenedOK(o)'
  BY <1>1, <1>3 DEF BridgerOK, OpenedOK
<1>7. ASSUME o \in opNullifiers
      PROVE  UnlockedOK(o)'
  BY <1>1, <1>2, <1>7, UnlockedAdStep
<1>8. ASSUME o \in opNullifiers, adStatus'[o] \in Live
      PROVE  WaitingOK(o)'
  BY <1>1, <1>2, <1>3, <1>4, <1>8, WaitingTick
<1> QED
  BY <1>3, <1>5, <1>6, <1>7, <1>8 DEF BridgerOK

\* The order chain's clock waits until the deposit's settlement is on record.
LEMMA BridgerOrderTime ==
  ASSUME DiligentInv, DiligentNext, NEW o \in Orders, OrderTime
  PROVE  BridgerOK(o)'
<1>1. /\ BothInv /\ ClocksOK /\ BridgerOK(o)
      /\ ~MustActNow(o) /\ OpTickNext /\ UNCHANGED <<adChainVars, cosigned>>
  BY DEF DiligentInv, DiligentNext, TimePasses, OrderTime
<1>2. /\ UNCHANGED <<opSettled, opStatus, opOpenedUnder, opNullifiers, opLeaves>>
      /\ UNCHANGED <<adNow, adStatus, ruledAs, orderAnchored>>
      /\ PresentationCutoff(o)' = PresentationCutoff(o)
      /\ Denied(o)' = Denied(o)
      /\ Stagger(o)' = Stagger(o)
  BY <1>1
  DEF opLegs, OpTickNext, adChainVars, adVars, adLegs, adProofs, adConfig, registryVars,
      PresentationCutoff, WindowEnd, OrderTiming, Denied, PastGrace, CoSignDenied,
      HaltedSinceLock, VerifierGap, RegistrySplit, PinExpiresBy, ExpiredAt,
      Stagger, OpenedTiming
<1>3. shownAt'[o] = shownAt[o]
  BY <1>1, <1>2, ShownStays
<1>4. SignedOK(o)' /\ OpenedOK(o)'
  BY <1>1, <1>2, SignedStays DEF BridgerOK, OpenedOK
<1>5. o \in opNullifiers => UnlockedOK(o)'
  BY <1>1, <1>2 DEF BridgerOK, UnlockedOK
<1>6. ASSUME o \in opNullifiers, adStatus[o] \in Live
      PROVE  WaitingOK(o)'
  <2>1. UnlockedOK(o) /\ WaitingOK(o)
    BY <1>1, <1>6 DEF BridgerOK
  <2>2. o \in opSettled
    BY <1>1, <1>6, <2>1 DEF UnlockedOK, MustActNow, Owed
  <2> QED
    BY <1>2, <1>3, <2>1, <2>2 DEF WaitingOK, AnchoredAt
<1> QED
  BY <1>2, <1>4, <1>5, <1>6 DEF BridgerOK

LEMMA BridgerSigns ==
  ASSUME DiligentInv, DiligentNext, NEW o \in Orders,
         \E q \in Orders, i \in SlotIds : CoSign(q, i)
  PROVE  BridgerOK(o)'
<1>1. BothInv /\ ClocksOK /\ BridgerOK(o) /\ SignsThePin
  BY DEF DiligentInv, DiligentNext
<1>2. PICK q \in Orders, i \in SlotIds : CoSign(q, i)
  OBVIOUS
<1>3. /\ cosigned' = cosigned \cup {<<q, i>>} /\ <<q, "ORDER">> \in adLeaves
      /\ UNCHANGED <<adChainVars, orderChainVars>>
  BY <1>2 DEF CoSign
<1>4. /\ UNCHANGED <<opSettled, opStatus, opOpenedUnder, opNullifiers, opLeaves>>
      /\ UNCHANGED <<adNow, orderNow, adStatus, ruledAs, orderAnchored, adOrder, adLeaves>>
      /\ PresentationCutoff(o)' = PresentationCutoff(o)
      /\ Denied(o)' = Denied(o)
      /\ Stagger(o)' = Stagger(o)
  BY <1>3
  DEF orderChainVars, opLegs, adChainVars, adVars, adLegs, adProofs, adConfig,
      registryVars, PresentationCutoff, WindowEnd, OrderTiming, Denied, PastGrace,
      CoSignDenied, HaltedSinceLock, VerifierGap, RegistrySplit, PinExpiresBy,
      ExpiredAt, Stagger, OpenedTiming
<1>5. shownAt'[o] = shownAt[o]
  BY <1>1, <1>4, ShownStays
<1>6. SignedOK(o)'
  <2>1. ASSUME NEW j \in SlotIds, <<o, j>> \in cosigned'
        PROVE  j = adOrder[o].pinned_slot \/ adOrder[o].repinned
    BY <1>1, <2>1 DEF BridgerOK, SignedOK, SignsThePin
  <2>2. Agreed(o)' => Agreed(o) \/ o = q
    BY <1>3 DEF Agreed
  <2> QED
    BY <1>1, <1>3, <1>4, <2>1, <2>2 DEF BridgerOK, SignedOK
<1>7. OpenedOK(o)' /\ (o \in opNullifiers => UnlockedOK(o)')
  BY <1>1, <1>4 DEF BridgerOK, OpenedOK, UnlockedOK
<1>8. o \in opNullifiers /\ adStatus[o] \in Live => WaitingOK(o)'
  BY <1>1, <1>4, <1>5 DEF BridgerOK, WaitingOK, AnchoredAt
<1> QED
  BY <1>4, <1>6, <1>7, <1>8 DEF BridgerOK

LEMMA BridgerStep ==
  ASSUME DiligentInv, [DiligentNext]_diligentVars, NEW o \in Orders
  PROVE  BridgerOK(o)'
<1>1. BothInv /\ ClocksOK /\ BridgerOK(o) /\ [BridgeNext]_bridgeVars
  BY DEF DiligentInv, DiligentNext, diligentVars
<1>2. CASE UNCHANGED diligentVars
  <2>1. adNow' = adNow /\ UNCHANGED <<orderChainVars, cosigned>>
    BY <1>2 DEF diligentVars, bridgeVars, adChainVars
  <2> QED
    BY <2>1, BridgerAdCall
<1>3. CASE DiligentNext
  <2>1. CASE /\ \/ AdLocalNext
                \/ \E q \in Orders : AdUnlockNext(q)
                \/ \E leaf \in OrderChainLeaves : AdAnchorLeafNext(leaf)
             /\ UNCHANGED <<orderChainVars, cosigned>>
    BY <2>1, CallsTakeNoTime, BridgerAdCall
  <2>2. CASE /\ \/ OpLocalNext
                \/ \E leaf \in AdChainLeaves : OpAnchorLeafNext(leaf)
             /\ UNCHANGED <<adChainVars, cosigned>>
    <3>1. OpLegInv /\ DepositStep(o)
      BY <1>1, BothStep, BothFacts
    <3>2. DepositMove(o)
      BY <2>2, <3>1, OrderCalls
    <3>3. ~UnlockOrder(o)
      <4>1. opNullifiers' = opNullifiers
        BY <2>2, <3>1, OpLocalFills DEF OpAnchorLeafNext, opLegs
      <4> QED
        BY <4>1 DEF UnlockOrder
    <3> QED
      BY <1>1, <2>2, <3>1, <3>2, <3>3, ShownStep, BridgerOrderCall
  <2>3. CASE \E q \in Orders : CoSignedUnlockOrder(q)
    <3>1. PICK q \in Orders : CoSignedUnlockOrder(q)
      BY <2>3
    <3>2. OpUnlockNext(q) /\ UNCHANGED <<adChainVars, cosigned>> /\ Agreed(q)
      BY <3>1 DEF CoSignedUnlockOrder, Agreed
    <3>3. OpLegInv /\ DepositStep(o)
      BY <1>1, BothStep, BothFacts
    <3>4. DepositMove(o)
      BY <3>2, <3>3, OrderCalls
    <3>5. UnlockOrder(o) => o = q
      BY <3>2 DEF OpUnlockNext, UnlockOrder
    <3> QED
      BY <1>1, <3>2, <3>3, <3>4, <3>5, ShownStep, BridgerOrderCall
  <2>4. CASE AdTime
    BY <1>3, <2>4, BridgerAdTime
  <2>5. CASE OrderTime
    BY <1>3, <2>5, BridgerOrderTime
  <2>6. CASE \E q \in Orders, i \in SlotIds : CoSign(q, i)
    BY <1>3, <2>6, BridgerSigns
  <2> QED
    BY <1>1, <1>3, <2>1, <2>2, <2>3, <2>4, <2>5, <2>6
    DEF DiligentNext, BridgeNext, ContractsNext, CoSignedUnlock, AnchorNext
<1> QED
  BY <1>2, <1>3

LEMMA ClocksStep ==
  ASSUME DiligentInv, [DiligentNext]_diligentVars
  PROVE  ClocksOK'
<1>1. BothInv /\ ClocksOK /\ OpLegInv /\ [BridgeNext]_bridgeVars
  BY DEF DiligentInv, DiligentNext, diligentVars, BothInv, BridgeInv
<1>2. shownAt' \in [Orders -> Nat] /\ Skew \in Nat
  BY <1>1, ShownStep, DiligenceAssumption
<1>3. CASE adNow' = adNow /\ orderNow' = orderNow
  BY <1>1, <1>2, <1>3 DEF ClocksOK
<1>4. CASE AdTime
  <2>1. /\ adNow < orderNow + Skew /\ adNow' = adNow + 1 /\ orderNow' = orderNow
    BY <1>4 DEF AdTime, AdTickNext, AdTick, orderChainVars
  <2> QED
    BY <1>1, <1>2, <2>1 DEF ClocksOK
<1>5. CASE OrderTime
  <2>1. orderNow' = orderNow + 1 /\ adNow' = adNow
    BY <1>5 DEF OrderTime, OpTickNext, adChainVars
  <2> QED
    BY <1>1, <1>2, <2>1 DEF ClocksOK
<1>6. CASE \/ ContractsNext \/ AnchorNext \/ UNCHANGED diligentVars
           \/ \E q \in Orders, i \in SlotIds : CoSign(q, i)
  <2>1. adNow' = adNow
    BY <1>6, CallsTakeNoTime
    DEF ContractsNext, CoSignedUnlock, CoSignedUnlockOrder, AnchorNext, CoSign,
        diligentVars, bridgeVars, adChainVars
  <2>2. orderNow' = orderNow
    BY <1>6
    DEF ContractsNext, CoSignedUnlock, CoSignedUnlockOrder, OpUnlockNext, OpLocalNext,
        OpAdminNext, OpSetRootAnchor, OpOrderNext, OpClaimNext, OpAnchorLeafNext,
        AnchorNext, CoSign, diligentVars, bridgeVars, orderChainVars
  <2> QED
    BY <1>3, <2>1, <2>2
<1>7. BridgeNext \/ UNCHANGED diligentVars
  BY DEF DiligentNext
<1> QED
  BY <1>4, <1>5, <1>6, <1>7 DEF BridgeNext

LEMMA BothInit ==
  ASSUME BridgeInit
  PROVE  BothInv
<1>1. AdInit
  BY DEF BridgeInit
<1>2. BridgeInv /\ CountsOK /\ anchorDelay \in Delays
  BY <1>1, BridgeInvInit, CountsInit DEF AdInit, AdManagerInit
<1> QED
  BY <1>1, <1>2, StampsInit DEF BothInv

LEMMA DiligentInit ==
  ASSUME BridgeInit, shownAt = [o \in Orders |-> 0]
  PROVE  DiligentInv
<1>1. BothInv
  BY BothInit
<1>2. ClocksOK
  BY DiligenceAssumption DEF BridgeInit, AdInit, AdLedgerInit, OrderPortalInit, ClocksOK
<1>3. ASSUME NEW o \in Orders
      PROVE  BridgerOK(o)
  <2>1. /\ cosigned = {} /\ adLeaves = {} /\ opLeaves = {} /\ opNullifiers = {}
        /\ opStatus[o] = "None"
    BY DEF BridgeInit, AdInit, AdManagerInit, OrderPortalInit
  <2> QED
    BY <2>1 DEF BridgerOK, SignedOK, OpenedOK, Agreed
<1> QED
  BY <1>1, <1>2, <1>3 DEF DiligentInv

\* What is true of a diligent bridger's orders at any moment.
THEOREM DiligentInvariant == DiligentSpec => []DiligentInv
<1>1. DiligentInv /\ [DiligentNext]_diligentVars => DiligentInv'
  <2> SUFFICES ASSUME DiligentInv, [DiligentNext]_diligentVars
               PROVE  DiligentInv'
    OBVIOUS
  <2>1. BothInv'
    BY BothStep DEF DiligentInv, DiligentNext, diligentVars
  <2> QED
    BY <2>1, ClocksStep, BridgerStep DEF DiligentInv
<1> QED
  BY <1>1, DiligentInit, PTL DEF DiligentSpec

\* A bridger that acts before its clocks run out never loses both sides: the
\* maker who took the deposit on the co-signed pair does not get the lock back,
\* by whatever of the clocks, the levers, the delays, the disputes and the
\* rulings it tries, unless the anchor is taken from under the bridger.
THEOREM NobodyIsPaidTwice == DiligentSpec => []NobodyPaidTwice
<1>1. DiligentInv => NobodyPaidTwice
  <2> SUFFICES ASSUME DiligentInv, NEW o \in Orders, o \in opNullifiers
               PROVE  LockOf(o) \in {"held", "paid", "maker_forfeit"}
    BY RefundedNotPaid DEF NobodyPaidTwice, DiligentInv, BothInv
  <2>1. UnlockedOK(o)
    BY DEF DiligentInv, BridgerOK
  <2> QED
    BY <2>1 DEF UnlockedOK, LockOf, Live
<1> QED
  BY <1>1, DiligentInvariant, PTL

-----------------------------------------------------------------------------
(* What was proved of each chain against any counterpart holds of the bridge *)

\* In the bridge each chain runs its own code and nothing else touches its
\* storage (ContractsNext, AnchorNext): it behaves as it may alone.
THEOREM BridgeRunsBothChains == BridgeSpec => AdSpec /\ OpSpec
<1>1. BridgeInit => AdInit /\ OrderPortalInit
  BY DEF BridgeInit
<1>2. [BridgeNext]_bridgeVars => [AdNext]_adChainVars /\ [OpNext]_orderChainVars
  BY ChainSteps
<1> QED
  BY <1>1, <1>2, PTL DEF BridgeSpec, AdSpec, OpSpec

\* A diligent bridger only narrows what the chains do, so its trades are the
\* bridge's, and Trade's.
THEOREM DiligentIsABridge == DiligentSpec => BridgeSpec /\ ImplementsTrade
<1>1. [DiligentNext]_diligentVars => [BridgeNext]_bridgeVars
  BY DEF DiligentNext, diligentVars
<1> QED
  BY <1>1, BridgeIsATrade, PTL DEF DiligentSpec, BridgeSpec

\* So through any trade, on both chains at once, nothing is released early, no
\* order gets two verdicts, and every token held is accounted for: in the ad
\* chain's vault, in each dispute module, and in the order chain's vault.
THEOREM BridgeIsBacked ==
  BridgeSpec => [](/\ NoEarlyRelease /\ OneVerdict
                   /\ VaultBacked /\ AdPaidOnce /\ BondsCovered
                   /\ DepositsBacked /\ DepositPaidOnce)
BY BridgeRunsBothChains, NothingReleasedEarly, VerdictsMatch, AdVaultIsBacked,
   PayoutsArePaidOnce, EscrowKeepsBondsCovered, DepositsAreBacked,
   DepositsArePaidOnce, PTL
=============================================================================
