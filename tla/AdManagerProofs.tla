-------------------------- MODULE AdManagerProofs --------------------------
(***************************************************************************)
(* What becomes of an order on the ad chain, proved for any number of      *)
(* orders, ads, modules, registries, timings and clock values, and for an  *)
(* order chain that may show anything.                                     *)
(*                                                                         *)
(* The invariants the runs check speak of every order, and an operation    *)
(* touches one.  So they are restated for one order (LegOK), strengthened  *)
(* by what the clocks and the records rest on, and proved step by step:    *)
(* for the order an operation is about from the operation, for every other *)
(* one from the fact that its leg was left alone (SameLeg).                *)
(***************************************************************************)
EXTENDS AdManager, DisputeManagerProofs, FiniteSetTheorems

LegTypes ==
  /\ AdLedgerTypeOK /\ DisputeStateOK /\ BLSKeyRegistryTypeOK
  /\ AdConfigTypeOK /\ AdLegsTypeOK /\ AdProofsTypeOK

\* When the order's window ends, claimed or not.
FixedEnd(o) == Deadline[o] + OrderTiming(o).buffer

\* ClaimIffClaimed for one order, and that a live order is stamped with the
\* version its clocks are read from and the registry it was locked under.
ClockOK(o) ==
  /\ adStatus[o] = "Claimed" <=> claimEnd[o] # Nil
  /\ claimEnd[o] # Nil => claimEnd[o] = FixedEnd(o)
  /\ adStatus[o] = "None" => adOrder[o].timing_version = 0
  /\ adStatus[o] \in Live =>
       adOrder[o].timing_version # 0 /\ adOrder[o].registry # Nil

\* DisputedIffRecord for one order, and that the record's window is the order's.
RecordOK(o) ==
  /\ adStatus[o] = "Disputed" => orderModule[o] # Nil /\ Disputed(orderModule[o], o)
  /\ \A m \in Modules : Disputed(m, o) =>
       /\ adStatus[o] = "Disputed" /\ orderModule[o] = m
       /\ dispute[m][o].escrow = ThisEscrow
       /\ dispute[m][o].order_deadline = Deadline[o]
       /\ dispute[m][o].buffer = OrderTiming(o).buffer

\* OneVerdict for one order.
VerdictOK(o) ==
  /\ <<o, "CANCEL">> \in adLeaves <=>
       \/ adStatus[o] = "Cancelled"
       \/ adStatus[o] = "Resolved" /\ ruledAs[o] # "BridgerForfeit"
  /\ <<o, "FORFEIT">> \in adLeaves <=>
       adStatus[o] = "Resolved" /\ ruledAs[o] = "BridgerForfeit"
  /\ <<o, "SETTLED">> \in adLeaves => adStatus[o] = "Filled"

\* NoEarlyRelease for one order.
ReleaseOK(o) ==
  adStatus[o] \in {"Cancelled", "Resolved"} /\ adOrder[o].timing_version # 0 =>
    adNow >= FixedEnd(o)

LegOK(o) == ClockOK(o) /\ RecordOK(o) /\ VerdictOK(o) /\ ReleaseOK(o)

\* The inductive invariant.
LegInv == LegTypes /\ \A o \in Orders : LegOK(o)

\* What no step may do to an order.
LegStep(o) ==
  /\ adStatus[o] \in Terminal =>
       /\ adStatus'[o] = adStatus[o]
       /\ adOrder'[o] = adOrder[o]
       /\ ruledAs'[o] = ruledAs[o]
  /\ adStatus[o] \in Live /\ adStatus'[o] \in Live => WindowEnd(o)' = WindowEnd(o)

\* A step that leaves an order alone.
SameLeg(o) ==
  /\ adStatus'[o] = adStatus[o] /\ adOrder'[o] = adOrder[o]
  /\ claimEnd'[o] = claimEnd[o] /\ orderModule'[o] = orderModule[o]
  /\ ruledAs'[o] = ruledAs[o]
  /\ \A d \in Domain : <<o, d>> \in adLeaves' <=> <<o, d>> \in adLeaves
  /\ \A m \in Modules :
       /\ Disputed(m, o)' <=> Disputed(m, o)
       /\ Disputed(m, o) =>
            /\ dispute'[m][o].escrow = dispute[m][o].escrow
            /\ dispute'[m][o].order_deadline = dispute[m][o].order_deadline
            /\ dispute'[m][o].buffer = dispute[m][o].buffer

\* What a step has to show.
LegGoal == LegInv' /\ \A o \in Orders : LegStep(o)

-----------------------------------------------------------------------------
(* Clocks *)

LEMMA TimingType ==
  ASSUME NEW v \in Versions, v # 0
  PROVE  /\ Timings[v] \in RouteTiming
         /\ Timings[v].buffer \in Nat /\ Timings[v].margin \in Nat
         /\ Timings[v].claim_stagger \in Nat
<1>1. v \in 1..Len(Timings)
  BY CoreAssumption DEF Versions
<1>2. Timings[v] \in RouteTiming
  BY <1>1, CoreAssumption
<1> QED
  BY <1>2 DEF RouteTiming

LEMMA LiveTiming ==
  ASSUME LegTypes, NEW o \in Orders, adOrder[o].timing_version # 0
  PROVE  OrderTiming(o).buffer \in Nat /\ Deadline[o] \in Nat
         /\ FixedEnd(o) \in Nat
<1>1. adOrder[o].timing_version \in Versions
  BY DEF LegTypes, AdLegsTypeOK, OrderRecord
<1>2. OrderTiming(o).buffer \in Nat
  BY <1>1, TimingType DEF OrderTiming
<1> QED
  BY <1>2, CoreAssumption DEF FixedEnd

\* A live order's window ends where it was always going to.
LEMMA LiveWindow ==
  ASSUME LegInv, NEW o \in Orders, adStatus[o] \in Live
  PROVE  WindowEnd(o) = FixedEnd(o) /\ FixedEnd(o) \in Nat
<1>1. ClockOK(o)
  BY DEF LegInv, LegOK
<1>2. FixedEnd(o) \in Nat
  BY <1>1, LiveTiming DEF LegInv, ClockOK
<1> QED
  BY <1>1, <1>2 DEF ClockOK, WindowEnd, FixedEnd

-----------------------------------------------------------------------------
(* Orders a step leaves alone *)

LEMMA FrameOK ==
  ASSUME NEW o \in Orders, LegTypes, LegOK(o), SameLeg(o),
         adNow' \in Nat, adNow' >= adNow
  PROVE  LegOK(o)' /\ LegStep(o)
<1>0. /\ OrderTiming(o)' = OrderTiming(o)
      /\ FixedEnd(o)' = FixedEnd(o)
      /\ WindowEnd(o)' = WindowEnd(o)
  BY DEF SameLeg, OrderTiming, FixedEnd, WindowEnd
<1>1. ClockOK(o)'
  BY <1>0 DEF SameLeg, LegOK, ClockOK
<1>2. RecordOK(o)'
  <2>1. adStatus[o] = "Disputed" => orderModule[o] \in Modules
    BY DEF LegOK, RecordOK, LegTypes, AdLegsTypeOK
  <2> QED
    BY <1>0, <2>1 DEF SameLeg, LegOK, RecordOK, Disputed
<1>3. VerdictOK(o)'
  BY DEF SameLeg, LegOK, VerdictOK, Domain
<1>4. ReleaseOK(o)'
  <2>1. CASE adOrder[o].timing_version = 0
    BY <2>1 DEF SameLeg, ReleaseOK
  <2>2. CASE adOrder[o].timing_version # 0
    BY <1>0, <2>2, LiveTiming DEF SameLeg, LegOK, ReleaseOK, LegTypes, AdLedgerTypeOK
  <2> QED
    BY <2>1, <2>2
<1>5. LegStep(o)
  BY <1>0 DEF SameLeg, LegStep
<1> QED
  BY <1>1, <1>2, <1>3, <1>4, <1>5 DEF LegOK

\* A step about one order.
LEMMA OneLegGoal ==
  ASSUME LegInv, NEW o \in Orders, LegTypes', UNCHANGED adNow,
         LegOK(o)', LegStep(o), \A x \in Orders \ {o} : SameLeg(x)
  PROVE  LegGoal
<1>1. \A x \in Orders \ {o} : LegOK(x)' /\ LegStep(x)
  BY FrameOK DEF LegInv, LegTypes, AdLedgerTypeOK
<1> QED
  BY <1>1 DEF LegInv, LegGoal

\* A step about none.
LEMMA NoLegGoal ==
  ASSUME LegInv, LegTypes', adNow' >= adNow, \A x \in Orders : SameLeg(x)
  PROVE  LegGoal
BY FrameOK DEF LegInv, LegGoal, LegTypes, AdLedgerTypeOK

LEMMA LegsUnchanged ==
  ASSUME UNCHANGED <<adLegs, adLeaves, dispute>>
  PROVE  \A x \in Orders : SameLeg(x)
BY DEF adLegs, SameLeg, Disputed

-----------------------------------------------------------------------------
(* Types *)

LEMMA DisputesUnchanged ==
  ASSUME DisputeStateOK, UNCHANGED dmVars
  PROVE  DisputeStateOK'
BY DEF dmVars, DisputeStateOK, DisputeManagerTypeOK, DisputeWindowFloor, Disputed

LEMMA RegistryUnchanged ==
  ASSUME BLSKeyRegistryTypeOK, UNCHANGED registryVars
  PROVE  BLSKeyRegistryTypeOK'
BY DEF registryVars, BLSKeyRegistryTypeOK

LEMMA ConfigUnchanged ==
  ASSUME AdConfigTypeOK, UNCHANGED <<adConfig, halt>>
  PROVE  AdConfigTypeOK'
BY DEF adConfig, AdConfigTypeOK

LEMMA LegsTypeUnchanged ==
  ASSUME AdLegsTypeOK, UNCHANGED adLegs
  PROVE  AdLegsTypeOK'
BY DEF adLegs, AdLegsTypeOK

LEMMA ProofsUnchanged ==
  ASSUME AdProofsTypeOK, UNCHANGED adProofs
  PROVE  AdProofsTypeOK'
BY DEF adProofs, AdProofsTypeOK

\* An operation on an order leaves the clock, the registries and the
\* configuration alone.
LEMMA OrderStepTypes ==
  ASSUME LegTypes, UNCHANGED <<adNow, registryVars, adConfig, halt>>,
         DisputeStateOK', AdLegsTypeOK', AdProofsTypeOK'
  PROVE  LegTypes'
BY RegistryUnchanged, ConfigUnchanged DEF LegTypes, AdLedgerTypeOK

LEMMA LeafType ==
  ASSUME NEW o \in Orders, NEW d \in Domain
  PROVE  <<o, d>> \in Leaves
BY DEF Leaves

-----------------------------------------------------------------------------
(* A leg that ends *)

LEMMA EndLegTypes ==
  ASSUME LegTypes, NEW o \in Orders, NEW status \in Status, EndLeg(o, status),
         ruledAs' \in [Orders -> Outcome]
  PROVE  AdLegsTypeOK'
<1>1. SignerOf[o] \in Signers
  BY AdManagerAssumption
<1>2. adInFlight' \in [Signers -> Int]
  BY <1>1 DEF LegTypes, AdLegsTypeOK, EndLeg
<1> QED
  BY <1>2 DEF LegTypes, AdLegsTypeOK, EndLeg

\* Ending a leg leaves no claim and, once its record is gone, no dispute.
LEMMA EndLegOK ==
  ASSUME LegInv, NEW o \in Orders, NEW status \in Terminal, EndLeg(o, status),
         adStatus[o] \in Live, \A m \in Modules : ~Disputed(m, o)'
  PROVE  ClockOK(o)' /\ RecordOK(o)' /\ LegStep(o)
<1>1. adStatus'[o] = status /\ claimEnd'[o] = Nil /\ adOrder' = adOrder
  BY DEF EndLeg, LegInv, LegTypes, AdLegsTypeOK
<1>2. ClockOK(o)'
  BY <1>1 DEF ClockOK, Terminal, Live
<1>3. RecordOK(o)'
  BY <1>1 DEF RecordOK, Terminal
<1>4. LegStep(o)
  BY <1>1 DEF LegStep, Terminal, Live
<1> QED
  BY <1>2, <1>3, <1>4

\* The other orders, when one leg ends and one leaf at most is appended.
LEMMA OthersStay ==
  ASSUME LegTypes, NEW o \in Orders, NEW status, EndLeg(o, status),
         NEW x \in Orders \ {o}, ruledAs'[x] = ruledAs[x],
         \A d \in Domain : <<x, d>> \in adLeaves' <=> <<x, d>> \in adLeaves,
         \A m \in Modules : dispute'[m][x] = dispute[m][x]
  PROVE  SameLeg(x)
BY DEF LegTypes, AdLegsTypeOK, EndLeg, SameLeg, Disputed

\* close_dispute and finalize_dispute: the record goes, and no other does.
LEMMA SettleBondRecords ==
  ASSUME LegInv, NEW o \in Orders, NEW outcome, NEW b, NEW f,
         adStatus[o] = "Disputed",
         SettleBond(orderModule[o], ThisEscrow, o, outcome, b, f)
  PROVE  /\ DisputeStateOK'
         /\ \A m \in Modules : ~Disputed(m, o)'
         /\ \A m \in Modules, x \in Orders \ {o} : dispute'[m][x] = dispute[m][x]
<1>1. RecordOK(o)
  BY DEF LegInv, LegOK
<1>2. orderModule[o] \in Modules
  BY <1>1 DEF RecordOK, LegInv, LegTypes, AdLegsTypeOK
<1>3. DisputeStateOK'
  BY <1>2, SettleBondOK, AdManagerAssumption DEF LegInv, LegTypes
<1>4. dispute' = [dispute EXCEPT ![orderModule[o]][o] = Nil]
  BY DEF SettleBond
<1>5. \A m \in Modules : ~Disputed(m, o)'
  BY <1>1, <1>2, <1>4
  DEF RecordOK, Disputed, LegInv, LegTypes, DisputeStateOK, DisputeManagerTypeOK
<1>6. \A m \in Modules, x \in Orders \ {o} : dispute'[m][x] = dispute[m][x]
  BY <1>2, <1>4 DEF LegInv, LegTypes, DisputeStateOK, DisputeManagerTypeOK
<1> QED
  BY <1>3, <1>5, <1>6

LEMMA CloseDisputeOK ==
  ASSUME LegInv, NEW o \in Orders, NEW outcome, CloseDispute(o, outcome)
  PROVE  /\ DisputeStateOK'
         /\ \A m \in Modules : ~Disputed(m, o)'
         /\ \A m \in Modules, x \in Orders \ {o} : dispute'[m][x] = dispute[m][x]
<1>1. RecordOK(o) /\ orderModule[o] \in Modules \cup {Nil}
  BY DEF LegInv, LegOK, LegTypes, AdLegsTypeOK
<1>2. CASE orderModule[o] # Nil /\ Disputed(orderModule[o], o)
  <2>1. adStatus[o] = "Disputed"
    BY <1>1, <1>2 DEF RecordOK
  <2>2. PICK b, f : SettleBond(orderModule[o], ThisEscrow, o, outcome, b, f)
    BY <1>2 DEF CloseDispute
  <2> QED
    BY <2>1, <2>2, SettleBondRecords
<1>3. CASE ~(orderModule[o] # Nil /\ Disputed(orderModule[o], o))
  <2>1. UNCHANGED dmVars
    BY <1>3 DEF CloseDispute
  <2>2. \A m \in Modules : ~Disputed(m, o)
    BY <1>1, <1>3, AdManagerAssumption DEF RecordOK
  <2>3. UNCHANGED dispute
    BY <2>1 DEF dmVars
  <2> QED
    BY <2>1, <2>2, <2>3, DisputesUnchanged DEF LegInv, LegTypes, Disputed
<1> QED
  BY <1>2, <1>3

\* unlock and present_settled differ in what they check and spend only.
LEMMA FilledGoal ==
  ASSUME LegInv, NEW o \in Orders, UNCHANGED <<adNow, registryVars, adConfig, halt>>,
         AdPresentable(o), CloseDispute(o, "TradeProceeds"), EndLeg(o, "Filled"),
         UNCHANGED <<ruledAs, adLeaves>>, AdProofsTypeOK'
  PROVE  LegGoal
<1>1. adStatus[o] \in Live /\ LegTypes /\ LegOK(o)
  BY DEF AdPresentable, LegInv
<1>2. /\ DisputeStateOK'
      /\ \A m \in Modules : ~Disputed(m, o)'
      /\ \A m \in Modules, x \in Orders \ {o} : dispute'[m][x] = dispute[m][x]
  BY CloseDisputeOK
<1>3. AdLegsTypeOK'
  BY <1>1, EndLegTypes DEF LegTypes, AdLegsTypeOK, Status
<1>4. LegTypes'
  BY <1>1, <1>2, <1>3, OrderStepTypes
<1>5. ClockOK(o)' /\ RecordOK(o)' /\ LegStep(o)
  BY <1>1, <1>2, EndLegOK DEF Terminal
<1>6. adStatus'[o] = "Filled"
  BY <1>1 DEF EndLeg, LegTypes, AdLegsTypeOK
<1>7. VerdictOK(o)' /\ ReleaseOK(o)'
  BY <1>1, <1>6 DEF LegOK, VerdictOK, ReleaseOK, Live
<1>8. \A x \in Orders \ {o} : SameLeg(x)
  BY <1>1, <1>2, OthersStay
<1> QED
  BY <1>4, <1>5, <1>7, <1>8, OneLegGoal DEF LegOK

LEMMA UnlockGoal ==
  ASSUME LegInv, NEW o \in Orders, AdUnlockNext(o)
  PROVE  LegGoal
<1>1. AdProofsTypeOK'
  BY DEF AdUnlockNext, Unlock, LegInv, LegTypes, AdProofsTypeOK
<1> QED
  BY <1>1, FilledGoal DEF AdUnlockNext, Unlock

LEMMA PresentSettledGoal ==
  ASSUME LegInv, NEW o \in Orders, PresentSettled(o),
         UNCHANGED <<adNow, registryVars, adConfig, halt>>
  PROVE  LegGoal
<1>1. AdProofsTypeOK' /\ UNCHANGED adLeaves
  BY ProofsUnchanged DEF PresentSettled, LegInv, LegTypes, adProofs
<1> QED
  BY <1>1, FilledGoal DEF PresentSettled

-----------------------------------------------------------------------------
(* The other operations on an order *)

\* lock_for_order: the version the route has now is stamped on the order.
LEMMA LockGoal ==
  ASSUME LegInv, NEW o \in Orders, NEW pin \in SlotIds, LockForOrder(o, pin),
         UNCHANGED <<adNow, registryVars, adConfig, halt>>
  PROVE  LegGoal
<1>1. LegTypes /\ LegOK(o) /\ adStatus[o] = "None"
  BY DEF LegInv, LockForOrder
<1>2. OpenOrder(pin) \in OrderRecord
  BY <1>1 DEF OpenOrder, OrderRecord, LegTypes, AdConfigTypeOK, AdLedgerTypeOK
<1>3. /\ OpenOrder(pin).timing_version = adTiming /\ adTiming # 0
      /\ OpenOrder(pin).registry # Nil
  BY <1>1, AdManagerAssumption DEF OpenOrder, LegTypes, AdConfigTypeOK
<1>4. AdLegsTypeOK'
  <2>1. adInFlight' \in [Signers -> Int]
    BY <1>1, AdManagerAssumption DEF LockForOrder, LegTypes, AdLegsTypeOK
  <2>2. adOrder' \in [Orders -> OrderRecord]
    BY <1>1, <1>2 DEF LockForOrder, LegTypes, AdLegsTypeOK
  <2>3. adStatus' \in [Orders -> Status]
    BY <1>1 DEF LockForOrder, LegTypes, AdLegsTypeOK, Status
  <2> QED
    BY <1>1, <2>1, <2>2, <2>3 DEF LockForOrder, LegTypes, AdLegsTypeOK
<1>5. AdProofsTypeOK' /\ DisputeStateOK' /\ UNCHANGED dispute
  BY <1>1, LeafType, DisputesUnchanged
  DEF LockForOrder, LegTypes, AdProofsTypeOK, Domain, dmVars
<1>6. LegTypes'
  BY <1>1, <1>4, <1>5, OrderStepTypes
<1>7. /\ adStatus'[o] = "Open" /\ adOrder'[o] = OpenOrder(pin)
      /\ claimEnd' = claimEnd /\ orderModule' = orderModule /\ ruledAs' = ruledAs
      /\ adLeaves' = adLeaves \cup {<<o, "ORDER">>}
  BY <1>1 DEF LockForOrder, LegTypes, AdLegsTypeOK
<1>8. ClockOK(o)'
  BY <1>1, <1>3, <1>7 DEF LegOK, ClockOK, Live
<1>9. RecordOK(o)'
  BY <1>1, <1>5, <1>7 DEF LegOK, RecordOK, Disputed
<1>10. VerdictOK(o)' /\ ReleaseOK(o)'
  BY <1>1, <1>7 DEF LegOK, VerdictOK, ReleaseOK
<1>11. LegStep(o)
  BY <1>1 DEF LegStep, Terminal, Live
<1>12. \A x \in Orders \ {o} : SameLeg(x)
  BY <1>1, <1>5, <1>7 DEF LockForOrder, LegTypes, AdLegsTypeOK, SameLeg, Disputed
<1> QED
  BY <1>6, <1>8, <1>9, <1>10, <1>11, <1>12, OneLegGoal DEF LegOK

\* record_settled: the leaf agrees with the fill.
LEMMA RecordSettledGoal ==
  ASSUME LegInv, NEW o \in Orders, RecordSettled(o),
         UNCHANGED <<adNow, registryVars, adConfig, halt>>
  PROVE  LegGoal
<1>1. LegTypes /\ LegOK(o) /\ adStatus[o] = "Filled"
  BY DEF LegInv, RecordSettled
<1>2. /\ UNCHANGED <<adStatus, adOrder, claimEnd, orderModule, ruledAs, dispute>>
      /\ adLeaves' = adLeaves \cup {<<o, "SETTLED">>}
  BY DEF RecordSettled, adLegs, dmVars
<1>3. AdProofsTypeOK' /\ DisputeStateOK' /\ AdLegsTypeOK'
  BY <1>1, LeafType, DisputesUnchanged, LegsTypeUnchanged
  DEF RecordSettled, LegTypes, AdProofsTypeOK, Domain
<1>4. LegTypes'
  BY <1>1, <1>3, OrderStepTypes
<1>5. ClockOK(o)' /\ RecordOK(o)'
  BY <1>1, <1>2 DEF LegOK, ClockOK, RecordOK, FixedEnd, OrderTiming, Disputed
<1>6. VerdictOK(o)' /\ ReleaseOK(o)'
  BY <1>1, <1>2 DEF LegOK, VerdictOK, ReleaseOK
<1>7. LegStep(o)
  BY <1>1, <1>2 DEF LegStep, Terminal, Live
<1>8. \A x \in Orders \ {o} : SameLeg(x)
  BY <1>2 DEF SameLeg, Disputed
<1> QED
  BY <1>4, <1>5, <1>6, <1>7, <1>8, OneLegGoal DEF LegOK

\* claim_cancel: the claim's end is the window's, so nobody's window moves.
LEMMA ClaimCancelGoal ==
  ASSUME LegInv, NEW o \in Orders, ClaimCancel(o),
         UNCHANGED <<adNow, registryVars, adConfig, halt>>
  PROVE  LegGoal
<1>1. LegTypes /\ LegOK(o) /\ adStatus[o] = "Open"
  BY DEF LegInv, ClaimCancel
<1>2. WindowEnd(o) = FixedEnd(o) /\ FixedEnd(o) \in Nat
  BY <1>1, LiveWindow DEF Live
<1>3. /\ UNCHANGED <<adOrder, orderModule, ruledAs, dispute, adLeaves>>
      /\ adStatus'[o] = "Claimed" /\ claimEnd'[o] = FixedEnd(o)
  BY <1>1, <1>2 DEF ClaimCancel, dmVars, adProofs, LegTypes, AdLegsTypeOK
<1>4. AdProofsTypeOK' /\ DisputeStateOK'
  BY <1>1, ProofsUnchanged, DisputesUnchanged DEF ClaimCancel, LegTypes
<1>5. AdLegsTypeOK'
  BY <1>1, <1>2 DEF ClaimCancel, LegTypes, AdLegsTypeOK, Status
<1>6. LegTypes'
  BY <1>1, <1>4, <1>5, OrderStepTypes
<1>7. FixedEnd(o)' = FixedEnd(o)
  BY <1>3 DEF FixedEnd, OrderTiming
<1>8. FixedEnd(o) # Nil
  BY <1>2, AdManagerAssumption
<1>9. ClockOK(o)'
  BY <1>1, <1>3, <1>7, <1>8 DEF LegOK, ClockOK, Live
<1>10. RecordOK(o)' /\ VerdictOK(o)' /\ ReleaseOK(o)'
  BY <1>1, <1>3 DEF LegOK, RecordOK, VerdictOK, ReleaseOK, Disputed
<1>11. LegStep(o)
  BY <1>1, <1>2, <1>3 DEF LegStep, Terminal, WindowEnd
<1>12. \A x \in Orders \ {o} : SameLeg(x)
  BY <1>1, <1>3 DEF ClaimCancel, SameLeg, Disputed, LegTypes, AdLegsTypeOK
<1> QED
  BY <1>6, <1>9, <1>10, <1>11, <1>12, OneLegGoal DEF LegOK

\* The cancel clock is the window's end or later.
LEMMA CancelEndFloor ==
  ASSUME LegInv, NEW o \in Orders, adStatus[o] \in Live
  PROVE  CancelEnd(o) \in Nat /\ CancelEnd(o) >= FixedEnd(o)
<1>1. WindowEnd(o) = FixedEnd(o) /\ FixedEnd(o) \in Nat
  BY LiveWindow
<1>2. OrderTiming(o).buffer \in Nat
  BY LiveTiming DEF LegInv, LegOK, ClockOK
<1>3. anchorDelay \in Nat /\ adOrder[o].anchor_delay \in Nat
  BY DEF LegInv, LegTypes, AdConfigTypeOK, AdLegsTypeOK, OrderRecord
<1>4. EvidenceGrace(o) \in Nat
  BY <1>2, <1>3 DEF EvidenceGrace, Later
<1> QED
  BY <1>1, <1>4 DEF CancelEnd

LEMMA FinalizeCancelGoal ==
  ASSUME LegInv, NEW o \in Orders, FinalizeCancel(o),
         UNCHANGED <<adNow, registryVars, adConfig, halt>>
  PROVE  LegGoal
<1>1. LegTypes /\ LegOK(o) /\ adStatus[o] = "Claimed" /\ adStatus[o] \in Live
  BY DEF LegInv, FinalizeCancel, Live
<1>2. UNCHANGED dispute
  BY DEF FinalizeCancel, dmVars
<1>3. \A m \in Modules : ~Disputed(m, o)'
  BY <1>1, <1>2 DEF LegOK, RecordOK, Disputed
<1>4. AdProofsTypeOK' /\ DisputeStateOK'
  BY <1>1, LeafType, DisputesUnchanged
  DEF FinalizeCancel, LegTypes, AdProofsTypeOK, Domain
<1>5. AdLegsTypeOK'
  BY <1>1, EndLegTypes DEF FinalizeCancel, LegTypes, AdLegsTypeOK, Status
<1>6. LegTypes'
  BY <1>1, <1>4, <1>5, OrderStepTypes
<1>7. ClockOK(o)' /\ RecordOK(o)' /\ LegStep(o)
  BY <1>1, <1>3, EndLegOK DEF FinalizeCancel, Terminal
<1>8. /\ adStatus'[o] = "Cancelled" /\ UNCHANGED <<ruledAs, adOrder>>
      /\ adLeaves' = adLeaves \cup {<<o, "CANCEL">>}
  BY <1>1 DEF FinalizeCancel, EndLeg, LegTypes, AdLegsTypeOK
<1>9. VerdictOK(o)'
  BY <1>1, <1>8 DEF LegOK, VerdictOK
<1>10. ReleaseOK(o)'
  <2>1. adNow >= FixedEnd(o)
    BY <1>1, CancelEndFloor, LiveWindow
    DEF FinalizeCancel, LegTypes, AdLedgerTypeOK
  <2>2. FixedEnd(o)' = FixedEnd(o)
    BY <1>8 DEF FixedEnd, OrderTiming
  <2> QED
    BY <2>1, <2>2 DEF ReleaseOK
<1>11. \A x \in Orders \ {o} : SameLeg(x)
  BY <1>1, <1>2, <1>8, OthersStay DEF FinalizeCancel
<1> QED
  BY <1>6, <1>7, <1>9, <1>10, <1>11, OneLegGoal DEF LegOK

\* cancel_never_locked: the order has no version stamped and no window to keep.
LEMMA NeverLockedGoal ==
  ASSUME LegInv, NEW o \in Orders, CancelNeverLocked(o),
         UNCHANGED <<adNow, registryVars, adConfig, halt>>
  PROVE  LegGoal
<1>1. LegTypes /\ LegOK(o) /\ adStatus[o] = "None"
  BY DEF LegInv, CancelNeverLocked
<1>2. /\ UNCHANGED <<adOrder, orderModule, ruledAs, claimEnd, dispute>>
      /\ adStatus'[o] = "Cancelled"
      /\ adLeaves' = adLeaves \cup {<<o, "CANCEL">>}
  BY <1>1 DEF CancelNeverLocked, dmVars, LegTypes, AdLegsTypeOK
<1>3. AdProofsTypeOK' /\ DisputeStateOK'
  BY <1>1, LeafType, DisputesUnchanged
  DEF CancelNeverLocked, LegTypes, AdProofsTypeOK, Domain
<1>4. AdLegsTypeOK'
  BY <1>1 DEF CancelNeverLocked, LegTypes, AdLegsTypeOK, Status
<1>5. LegTypes'
  BY <1>1, <1>3, <1>4, OrderStepTypes
<1>6. ClockOK(o)' /\ RecordOK(o)'
  BY <1>1, <1>2 DEF LegOK, ClockOK, RecordOK, Disputed, Live
<1>7. VerdictOK(o)' /\ ReleaseOK(o)'
  BY <1>1, <1>2 DEF LegOK, ClockOK, VerdictOK, ReleaseOK
<1>8. LegStep(o)
  BY <1>1 DEF LegStep, Terminal, Live
<1>9. \A x \in Orders \ {o} : SameLeg(x)
  BY <1>1, <1>2 DEF CancelNeverLocked, SameLeg, Disputed, LegTypes, AdLegsTypeOK
<1> QED
  BY <1>5, <1>6, <1>7, <1>8, <1>9, OneLegGoal DEF LegOK

\* dispute: the record is filed with the window of the order, and the claim's
\* end, which it replaces, was the same.
LEMMA DisputeGoal ==
  ASSUME LegInv, NEW o \in Orders, NEW p \in Parties, Dispute(o, p),
         UNCHANGED <<adNow, registryVars, adConfig, halt>>
  PROVE  LegGoal
<1>1. LegTypes /\ LegOK(o) /\ adStatus[o] \in {"Open", "Claimed"}
  BY DEF LegInv, Dispute
<1>m. PICK m \in Modules : m = disputeManager
  BY <1>1 DEF LegTypes, AdConfigTypeOK
<1>2. /\ OrderTiming(o).buffer \in Nat /\ Deadline[o] \in Nat
      /\ WindowEnd(o) = FixedEnd(o)
  BY <1>1, LiveTiming, LiveWindow DEF LegOK, ClockOK, Live
<1>3. /\ OpenDispute(m, ThisEscrow, o, p, Deadline[o], OrderTiming(o).buffer, Amount[o])
      /\ Amount[o] \in Nat /\ ThisEscrow \in Escrows
  BY <1>m, CoreAssumption, AdManagerAssumption DEF Dispute
<1>4. /\ DisputeStateOK'
      /\ \E d \in DisputeRecord :
           /\ dispute' = [dispute EXCEPT ![m][o] = d]
           /\ d.escrow = ThisEscrow /\ d.order_deadline = Deadline[o]
           /\ d.buffer = OrderTiming(o).buffer
  BY <1>1, <1>2, <1>3, OpenDisputeOK DEF LegTypes
<1>5. PICK d \in DisputeRecord :
           /\ dispute' = [dispute EXCEPT ![m][o] = d]
           /\ d.escrow = ThisEscrow /\ d.order_deadline = Deadline[o]
           /\ d.buffer = OrderTiming(o).buffer
  BY <1>4
<1>6. /\ dispute'[m][o] = d
      /\ \A n \in Modules : n # m => dispute'[n] = dispute[n]
      /\ \A n \in Modules, x \in Orders \ {o} : dispute'[n][x] = dispute[n][x]
  BY <1>1, <1>5 DEF LegTypes, DisputeStateOK, DisputeManagerTypeOK
<1>7. Disputed(m, o)' /\ \A n \in Modules : n # m => ~Disputed(n, o)'
  BY <1>1, <1>5, <1>6, DisputeManagerAssumption DEF LegOK, RecordOK, Disputed
<1>8. /\ UNCHANGED <<adOrder, ruledAs, adLeaves>>
      /\ adStatus'[o] = "Disputed" /\ claimEnd'[o] = Nil /\ orderModule'[o] = m
  BY <1>1, <1>m DEF Dispute, adProofs, LegTypes, AdLegsTypeOK
<1>9. AdLegsTypeOK' /\ AdProofsTypeOK'
  BY <1>1, <1>m, ProofsUnchanged DEF Dispute, LegTypes, AdLegsTypeOK, Status
<1>10. LegTypes'
  BY <1>1, <1>4, <1>9, OrderStepTypes
<1>11. ClockOK(o)' /\ VerdictOK(o)' /\ ReleaseOK(o)'
  BY <1>1, <1>8 DEF LegOK, ClockOK, VerdictOK, ReleaseOK, Live
<1>12. RecordOK(o)'
  <2>1. OrderTiming(o)' = OrderTiming(o)
    BY <1>8 DEF OrderTiming
  <2>2. m # Nil
    BY <1>1, AdManagerAssumption
  <2> QED
    BY <1>5, <1>6, <1>7, <1>8, <2>1, <2>2 DEF RecordOK
<1>13. LegStep(o)
  BY <1>1, <1>2, <1>8 DEF LegStep, Terminal, WindowEnd, FixedEnd, OrderTiming
<1>14. \A x \in Orders \ {o} : SameLeg(x)
  BY <1>1, <1>6, <1>8 DEF Dispute, SameLeg, Disputed, LegTypes, AdLegsTypeOK
<1> QED
  BY <1>10, <1>11, <1>12, <1>13, <1>14, OneLegGoal DEF LegOK

\* A step that only answers or rules on disputes.
LEMMA SameRecordsLegs ==
  ASSUME SameRecords, UNCHANGED <<adLegs, adLeaves>>
  PROVE  \A x \in Orders : SameLeg(x)
BY DEF SameRecords, SameLeg, adLegs

LEMMA RespondGoal ==
  ASSUME LegInv, NEW o \in Orders, NEW p \in Parties, RespondToDispute(o, p),
         UNCHANGED <<adNow, registryVars, adConfig, halt>>
  PROVE  LegGoal
<1>1. LegTypes /\ LegOK(o)
  BY DEF LegInv
<1>2. orderModule[o] \in Modules
  BY <1>1 DEF RespondToDispute, LegOK, RecordOK, LegTypes, AdLegsTypeOK
<1>3. RecordResponse(orderModule[o], ThisEscrow, o, p)
  BY DEF RespondToDispute
<1>4. DisputeStateOK' /\ SameRecords
  BY <1>1, <1>2, <1>3, RecordResponseOK, ResponseKeepsRecords, AdManagerAssumption
  DEF LegTypes, DisputeStateOK
<1>5. AdLegsTypeOK' /\ AdProofsTypeOK' /\ UNCHANGED <<adLegs, adLeaves>>
  BY <1>1, LegsTypeUnchanged, ProofsUnchanged
  DEF RespondToDispute, LegTypes, adProofs
<1>6. LegTypes'
  BY <1>1, <1>4, <1>5, OrderStepTypes
<1> QED
  BY <1>1, <1>4, <1>5, <1>6, SameRecordsLegs, NoLegGoal DEF LegTypes, AdLedgerTypeOK

\* finalize_dispute: the module's window is over, so the order's is, and the
\* leaf says what was ruled.
LEMMA FinalizeDisputeGoal ==
  ASSUME LegInv, NEW o \in Orders, FinalizeDispute(o),
         UNCHANGED <<adNow, registryVars, adConfig, halt>>
  PROVE  LegGoal
<1> DEFINE m == orderModule[o]
           outcome == SettledOutcome(m, o)
<1>1. LegTypes /\ LegOK(o) /\ adStatus[o] = "Disputed" /\ adStatus[o] \in Live
  BY DEF LegInv, FinalizeDispute, Live
<1>2. m \in Modules /\ Disputed(m, o)
  BY <1>1 DEF LegOK, RecordOK, LegTypes, AdLegsTypeOK
<1>3. dispute[m][o] \in DisputeRecord
  BY <1>1, <1>2 DEF LegTypes, DisputeStateOK, DisputeManagerTypeOK, Disputed
<1>4. outcome \in Outcome
  BY <1>3 DEF SettledOutcome, DisputeRecord, Ruling, Outcome
<1>5. /\ WindowOver(m, o) /\ EndLeg(o, "Resolved")
      /\ ruledAs' = [ruledAs EXCEPT ![o] = outcome]
      /\ adLeaves' = adLeaves \cup {<<o, Verdict(outcome)>>}
      /\ UNCHANGED <<adSettled, adNullifiers, orderAnchored>>
  BY DEF FinalizeDispute
<1>6. SettleBond(m, ThisEscrow, o, outcome, dispute[m][o].initiator # Maker(o), FALSE)
  BY DEF FinalizeDispute
<1> HIDE DEF outcome
<1>7. /\ DisputeStateOK'
      /\ \A n \in Modules : ~Disputed(n, o)'
      /\ \A n \in Modules, x \in Orders \ {o} : dispute'[n][x] = dispute[n][x]
  BY <1>1, <1>6, SettleBondRecords
<1>8. AdLegsTypeOK'
  BY <1>1, <1>4, <1>5, EndLegTypes DEF LegTypes, AdLegsTypeOK, Status
<1>9. AdProofsTypeOK'
  BY <1>1, <1>5, LeafType DEF LegTypes, AdProofsTypeOK, Verdict, Domain
<1>10. LegTypes'
  BY <1>1, <1>7, <1>8, <1>9, OrderStepTypes
<1>11. ClockOK(o)' /\ RecordOK(o)' /\ LegStep(o)
  BY <1>1, <1>5, <1>7, EndLegOK DEF Terminal
<1>12. adStatus'[o] = "Resolved" /\ ruledAs'[o] = outcome /\ UNCHANGED adOrder
  BY <1>1, <1>5 DEF EndLeg, LegTypes, AdLegsTypeOK
<1>13. VerdictOK(o)'
  BY <1>1, <1>5, <1>12 DEF LegOK, VerdictOK, Verdict
<1>14. ReleaseOK(o)'
  <2>1. FixedEnd(o) \in Nat
    BY <1>1, LiveWindow
  <2>2. dispute[m][o].challenge_deadline >= FixedEnd(o)
    BY <1>1, <1>2 DEF LegTypes, DisputeStateOK, DisputeWindowFloor, LegOK, RecordOK, FixedEnd
  <2>3. dispute[m][o].challenge_deadline \in Nat /\ adNow \in Nat
    BY <1>1, <1>3 DEF DisputeRecord, LegTypes, AdLedgerTypeOK
  <2>4. adNow >= FixedEnd(o)
    BY <1>5, <2>1, <2>2, <2>3 DEF WindowOver
  <2>5. FixedEnd(o)' = FixedEnd(o)
    BY <1>12 DEF FixedEnd, OrderTiming
  <2> QED
    BY <2>4, <2>5 DEF ReleaseOK
<1>15. \A x \in Orders \ {o} : SameLeg(x)
  BY <1>1, <1>5, <1>7, OthersStay DEF LegTypes, AdLegsTypeOK
<1> QED
  BY <1>10, <1>11, <1>13, <1>14, <1>15, OneLegGoal DEF LegOK

\* repin_order: the slot moves and the stamp is set; no clock reads either.
LEMMA RepinGoal ==
  ASSUME LegInv, NEW o \in Orders, RepinOrder(o),
         UNCHANGED <<adNow, registryVars, adConfig, halt>>
  PROVE  LegGoal
<1>1. LegTypes /\ LegOK(o) /\ adStatus[o] = "Open"
  BY DEF LegInv, RepinOrder
<1>2. PICK c \in SlotIds :
        adOrder' = [adOrder EXCEPT ![o].pinned_slot = c, ![o].repinned = TRUE]
  <2>1. adOrder[o].registry \in Registries
    BY <1>1 DEF LegOK, ClockOK, Live, LegTypes, AdLegsTypeOK, OrderRecord
  <2>2. repin[adOrder[o].registry][o] \in RepinApproval
    BY <1>1, <2>1 DEF LegTypes, BLSKeyRegistryTypeOK
  <2> QED
    BY <2>2 DEF RepinOrder, RepinApproval
<1>3. PICK a : a = [adOrder[o] EXCEPT !.pinned_slot = c]
  OBVIOUS
<1>4. PICK r : r = [a EXCEPT !.repinned = TRUE]
  OBVIOUS
<1>5. /\ r \in OrderRecord
      /\ r.timing_version = adOrder[o].timing_version
      /\ r.registry = adOrder[o].registry
  <2>1. adOrder[o] \in OrderRecord
    BY <1>1 DEF LegTypes, AdLegsTypeOK
  <2>2. /\ a \in OrderRecord /\ a.timing_version = adOrder[o].timing_version
        /\ a.registry = adOrder[o].registry
    BY <1>3, <2>1 DEF OrderRecord
  <2> QED
    BY <1>4, <2>2 DEF OrderRecord
<1>6. adOrder' = [adOrder EXCEPT ![o] = r]
  BY <1>1, <1>2, <1>3, <1>4 DEF LegTypes, AdLegsTypeOK
<1>7. /\ UNCHANGED <<adStatus, claimEnd, orderModule, ruledAs, adInFlight, dispute, adLeaves>>
      /\ adOrder'[o] = r /\ \A x \in Orders \ {o} : adOrder'[x] = adOrder[x]
  BY <1>1, <1>6 DEF RepinOrder, dmVars, adProofs, LegTypes, AdLegsTypeOK
<1>8. AdLegsTypeOK' /\ AdProofsTypeOK' /\ DisputeStateOK'
  BY <1>1, <1>5, <1>6, <1>7, ProofsUnchanged, DisputesUnchanged
  DEF RepinOrder, LegTypes, AdLegsTypeOK
<1>9. LegTypes'
  BY <1>1, <1>8, OrderStepTypes
<1>10. FixedEnd(o)' = FixedEnd(o) /\ OrderTiming(o)' = OrderTiming(o)
  BY <1>5, <1>7 DEF FixedEnd, OrderTiming
<1>11. ClockOK(o)' /\ RecordOK(o)' /\ VerdictOK(o)' /\ ReleaseOK(o)'
  BY <1>1, <1>5, <1>7, <1>10
  DEF LegOK, ClockOK, RecordOK, VerdictOK, ReleaseOK, Disputed
<1>12. LegStep(o)
  BY <1>1, <1>7, <1>10 DEF LegStep, Terminal, WindowEnd
<1>13. \A x \in Orders \ {o} : SameLeg(x)
  BY <1>7 DEF SameLeg, Disputed
<1> QED
  BY <1>9, <1>11, <1>12, <1>13, OneLegGoal DEF LegOK

LEMMA OrderStepGoal ==
  ASSUME LegInv, AdOrderNext
  PROVE  LegGoal
<1>1. PICK o \in Orders :
       \/ \E pin \in SlotIds : LockForOrder(o, pin)
       \/ PresentSettled(o)
       \/ RecordSettled(o)
       \/ ClaimCancel(o)
       \/ FinalizeCancel(o)
       \/ CancelNeverLocked(o)
       \/ \E p \in Parties : Dispute(o, p) \/ RespondToDispute(o, p)
       \/ FinalizeDispute(o)
       \/ RepinOrder(o)
  BY DEF AdOrderNext
<1>2. UNCHANGED <<adNow, registryVars, adConfig, halt>>
  BY DEF AdOrderNext
<1> QED
  BY <1>1, <1>2, LockGoal, PresentSettledGoal, RecordSettledGoal, ClaimCancelGoal,
     FinalizeCancelGoal, NeverLockedGoal, DisputeGoal, RespondGoal,
     FinalizeDisputeGoal, RepinGoal

-----------------------------------------------------------------------------
(* The steps that are about no order *)

\* A step that leaves every leg, leaf and record alone.
LEMMA QuietGoal ==
  ASSUME LegInv, LegTypes', adNow' >= adNow, UNCHANGED <<adLegs, adLeaves, dispute>>
  PROVE  LegGoal
BY LegsUnchanged, NoLegGoal

LEMMA AdminGoal ==
  ASSUME LegInv, AdAdminNext
  PROVE  LegGoal
<1>1. LegTypes /\ UNCHANGED <<adNow, dmVars, registryVars, adLegs, adProofs, halt>>
  BY DEF LegInv, AdAdminNext
<1>2. AdConfigTypeOK'
  BY <1>1, AdManagerAssumption
  DEF AdAdminNext, AdPause, SetFeeBps, SetAdPool, SetRouteTiming, SetChain,
      SetTokenRoute, SetDisputeManager, SetKeyRegistry, SetRootVerifier,
      SetAnchorDelay, LegTypes, AdConfigTypeOK, AdLedgerTypeOK, Versions
<1>3. LegTypes'
  BY <1>1, <1>2, DisputesUnchanged, RegistryUnchanged, LegsTypeUnchanged,
     ProofsUnchanged DEF LegTypes, AdLedgerTypeOK
<1> QED
  BY <1>1, <1>3, QuietGoal DEF dmVars, adProofs, LegTypes, AdLedgerTypeOK

LEMMA AnchorGoal ==
  ASSUME LegInv, AdAnchorNext
  PROVE  LegGoal
<1>1. /\ LegTypes
      /\ UNCHANGED <<adNow, dmVars, registryVars, adLegs, adSettled,
                     adNullifiers, adLeaves, halt>>
  BY DEF LegInv, AdAnchorNext
<1>2. PICK d \in Delays : SetRootAnchor(d)
  BY DEF AdAnchorNext
<1>3. AdConfigTypeOK' /\ AdProofsTypeOK'
  BY <1>1, <1>2, AdManagerAssumption
  DEF SetRootAnchor, LegTypes, AdConfigTypeOK, AdProofsTypeOK
<1>4. LegTypes'
  BY <1>1, <1>3, DisputesUnchanged, RegistryUnchanged, LegsTypeUnchanged
  DEF LegTypes, AdLedgerTypeOK
<1> QED
  BY <1>1, <1>4, QuietGoal DEF dmVars, LegTypes, AdLedgerTypeOK

LEMMA AnchorLeafGoal ==
  ASSUME LegInv, NEW leaf \in OrderChainLeaves, AdAnchorLeafNext(leaf)
  PROVE  LegGoal
<1>1. /\ LegTypes
      /\ UNCHANGED <<adNow, dmVars, registryVars, adConfig, adLegs, adSettled,
                     adNullifiers, adLeaves, halt>>
      /\ orderAnchored' = [orderAnchored EXCEPT ![leaf] = adNow]
  BY DEF LegInv, AdAnchorLeafNext, AnchorOrderLeaf
<1>2. AdProofsTypeOK'
  BY <1>1 DEF LegTypes, AdProofsTypeOK, AdLedgerTypeOK
<1>3. LegTypes'
  BY <1>1, <1>2, DisputesUnchanged, RegistryUnchanged, ConfigUnchanged,
     LegsTypeUnchanged DEF LegTypes, AdLedgerTypeOK
<1> QED
  BY <1>1, <1>3, QuietGoal DEF dmVars, LegTypes, AdLedgerTypeOK

LEMMA MakerGoal ==
  ASSUME LegInv, AdMakerNext
  PROVE  LegGoal
<1>1. /\ LegTypes
      /\ UNCHANGED <<adNow, dmVars, registryVars, adConfig, adLegs, adProofs, halt>>
  BY DEF LegInv, AdMakerNext
<1>2. LegTypes'
  BY <1>1, DisputesUnchanged, RegistryUnchanged, ConfigUnchanged,
     LegsTypeUnchanged, ProofsUnchanged DEF LegTypes, AdLedgerTypeOK
<1> QED
  BY <1>1, <1>2, QuietGoal DEF dmVars, adProofs, LegTypes, AdLedgerTypeOK

LEMMA ClaimGoal ==
  ASSUME LegInv, AdClaimNext
  PROVE  LegGoal
<1>1. /\ LegTypes
      /\ UNCHANGED <<adNow, dmVars, registryVars, adConfig, adLegs, adProofs, halt>>
  BY DEF LegInv, AdClaimNext, ClaimPayout
<1>2. LegTypes'
  BY <1>1, DisputesUnchanged, RegistryUnchanged, ConfigUnchanged,
     LegsTypeUnchanged, ProofsUnchanged DEF LegTypes, AdLedgerTypeOK
<1> QED
  BY <1>1, <1>2, QuietGoal DEF dmVars, adProofs, LegTypes, AdLedgerTypeOK

LEMMA HaltGoal ==
  ASSUME LegInv, AdHaltNext
  PROVE  LegGoal
<1>1. /\ LegTypes
      /\ UNCHANGED <<adNow, dmVars, registryVars, adConfig, adLegs, adProofs>>
  BY DEF LegInv, AdHaltNext
<1>2. halt' \in [Makers -> Halt]
  <2>1. PICK mk \in Makers : HaltSettlement(mk) \/ ResumeSettlement(mk)
    BY DEF AdHaltNext
  <2>2. halt \in [Makers -> Halt] /\ adNow \in Nat
    BY <1>1 DEF LegTypes, AdConfigTypeOK, AdLedgerTypeOK
  <2>3. HaltSettlement(mk) => halt' \in [Makers -> Halt]
    <3>1. [halt[mk] EXCEPT !.halted = TRUE] \in Halt
      BY <2>2 DEF Halt
    <3> QED
      BY <2>2, <3>1 DEF HaltSettlement
  <2>4. ResumeSettlement(mk) => halt' \in [Makers -> Halt]
    <3>1. [halted |-> FALSE, last_resumed_at |-> adNow] \in Halt
      BY <2>2 DEF Halt
    <3> QED
      BY <2>2, <3>1 DEF ResumeSettlement
  <2> QED
    BY <2>1, <2>3, <2>4
<1>3. AdConfigTypeOK'
  BY <1>1, <1>2 DEF LegTypes, AdConfigTypeOK, adConfig
<1>4. LegTypes'
  BY <1>1, <1>3, DisputesUnchanged, RegistryUnchanged, LegsTypeUnchanged,
     ProofsUnchanged DEF LegTypes, AdLedgerTypeOK
<1> QED
  BY <1>1, <1>4, QuietGoal DEF dmVars, adProofs, LegTypes, AdLedgerTypeOK

\* The registries' own steps keep their types.
LEMMA RegistryStepType ==
  ASSUME LegTypes, AdRegistryNext
  PROVE  BLSKeyRegistryTypeOK'
<1> USE DEF BLSKeyRegistryTypeOK
<1>0. BLSKeyRegistryTypeOK /\ adNow \in Nat
  BY DEF LegTypes, AdLedgerTypeOK
<1>1. ASSUME NEW r \in Registries, NEW s \in Signers, NEW open, Register(r, s, open)
      PROVE  BLSKeyRegistryTypeOK'
  <2> DEFINE full    == Cardinality(LiveSlots(r, s)) >= MaxActiveSlots
             dropped == IF full THEN Prunable(r, s, open) ELSE {}
             g == [i \in SlotIds |-> IF i \in dropped THEN Nil
                     ELSE IF i = nextSlot[r][s] THEN UnboundedSlot
                     ELSE slot[r][s][i]]
  <2>1. /\ slot' = [slot EXCEPT ![r][s] = g]
        /\ nextSlot' = [nextSlot EXCEPT ![r][s] = @ + 1]
        /\ UNCHANGED <<approved, repin>>
    BY <1>1 DEF Register
  <2>2. UnboundedSlot \in KeySlot
    BY DEF UnboundedSlot, KeySlot
  <2> HIDE DEF dropped
  <2>3. g \in [SlotIds -> KeySlot \cup {Nil}]
    BY <1>0, <2>2
  <2> HIDE DEF g
  <2>4. slot' \in [Registries -> [Signers -> [SlotIds -> KeySlot \cup {Nil}]]]
    BY <1>0, <2>1, <2>3
  <2>5. [nextSlot[r] EXCEPT ![s] = @ + 1] \in [Signers -> Nat]
    BY <1>0
  <2> QED
    BY <1>0, <2>1, <2>4, <2>5
<1>2. ASSUME NEW r \in Registries, NEW s \in Signers, NEW i \in SlotIds,
             NEW t \in 1..MaxTime, SetValidUntil(r, s, i, t)
      PROVE  BLSKeyRegistryTypeOK'
  <2>1. slot[r][s][i] \in KeySlot
    BY <1>0, <1>2 DEF SetValidUntil
  <2>2. PICK k \in KeySlot : slot' = [slot EXCEPT ![r][s][i] = k]
    <3>1. Later(t, adNow) \in Nat /\ t \in Nat
      BY <1>0, CoreAssumption DEF Later
    <3>2. slot[r][s][i].expired_at \in Nat
      BY <2>1 DEF KeySlot
    <3> DEFINE e == IF slot[r][s][i].expired_at = 0 \/ Later(t, adNow) < slot[r][s][i].expired_at
                      THEN Later(t, adNow) ELSE slot[r][s][i].expired_at
               k == [valid_until |-> t, expired_at |-> e]
    <3>3. k \in KeySlot
      BY <3>1, <3>2 DEF KeySlot
    <3>4. slot' = [slot EXCEPT ![r][s][i] = k]
      BY <1>2 DEF SetValidUntil
    <3> QED
      BY <3>3, <3>4
  <2>3. [slot[r][s] EXCEPT ![i] = k] \in [SlotIds -> KeySlot \cup {Nil}]
    BY <1>0
  <2>4. [slot[r] EXCEPT ![s][i] = k] \in [Signers -> [SlotIds -> KeySlot \cup {Nil}]]
    BY <1>0, <2>3
  <2>5. slot' \in [Registries -> [Signers -> [SlotIds -> KeySlot \cup {Nil}]]]
    BY <1>0, <2>2, <2>4
  <2> QED
    BY <1>0, <1>2, <2>5 DEF SetValidUntil
<1>3. ASSUME NEW r \in Registries, NEW s \in Signers, NEW open, Revoke(r, s, open)
      PROVE  BLSKeyRegistryTypeOK'
  <2>1. [i \in SlotIds |-> Nil] \in [SlotIds -> KeySlot \cup {Nil}]
    OBVIOUS
  <2>2. [slot[r] EXCEPT ![s] = [i \in SlotIds |-> Nil]]
          \in [Signers -> [SlotIds -> KeySlot \cup {Nil}]]
    BY <1>0, <2>1
  <2>3. [approved[r] EXCEPT ![s] = {}] \in [Signers -> SUBSET Makers]
    BY <1>0
  <2> QED
    BY <1>0, <1>3, <2>2, <2>3 DEF Revoke
<1>4. ASSUME NEW r \in Registries, NEW s \in Signers, NEW mk \in Makers,
             NEW b \in BOOLEAN, ApproveMaker(r, s, mk, b)
      PROVE  BLSKeyRegistryTypeOK'
  <2>1. PICK S \in SUBSET Makers : approved' = [approved EXCEPT ![r][s] = S]
    <3>1. approved[r][s] \in SUBSET Makers
      BY <1>0
    <3> DEFINE S == IF b THEN approved[r][s] \cup {mk} ELSE approved[r][s] \ {mk}
    <3>2. S \in SUBSET Makers
      BY <3>1
    <3>3. approved' = [approved EXCEPT ![r][s] = S]
      BY <1>4 DEF ApproveMaker
    <3> QED
      BY <3>2, <3>3
  <2>2. [approved[r] EXCEPT ![s] = S] \in [Signers -> SUBSET Makers]
    BY <1>0
  <2>3. approved' \in [Registries -> [Signers -> SUBSET Makers]]
    BY <1>0, <2>1, <2>2
  <2> QED
    BY <1>0, <1>4, <2>3 DEF ApproveMaker
<1>5. ASSUME NEW r \in Registries, NEW o \in Orders, NEW i \in SlotIds,
             NEW j \in SlotIds, ApproveRepin(r, o, i, j)
      PROVE  BLSKeyRegistryTypeOK'
  <2>1. PICK c \in RepinApproval : repin' = [repin EXCEPT ![r][o] = c]
    <3>1. repin[r][o].nonce + 1 \in Nat
      BY <1>0 DEF RepinApproval
    <3>2. [from |-> i, to |-> j, nonce |-> repin[r][o].nonce + 1] \in RepinApproval
      BY <3>1 DEF RepinApproval
    <3> QED
      BY <1>5, <3>2 DEF ApproveRepin
  <2>2. [repin[r] EXCEPT ![o] = c] \in [Orders -> RepinApproval]
    BY <1>0
  <2>3. repin' \in [Registries -> [Orders -> RepinApproval]]
    BY <1>0, <2>1, <2>2
  <2> QED
    BY <1>0, <1>5, <2>3 DEF ApproveRepin
<1> QED
  BY <1>1, <1>2, <1>3, <1>4, <1>5 DEF AdRegistryNext

LEMMA RegistryGoal ==
  ASSUME LegInv, AdRegistryNext
  PROVE  LegGoal
<1>1. LegTypes /\ UNCHANGED <<adNow, dmVars, adVars>>
  BY DEF LegInv, AdRegistryNext
<1>2. UNCHANGED <<adConfig, adLegs, adProofs, halt>>
  BY <1>1 DEF adVars
<1>3. LegTypes'
  BY <1>1, <1>2, RegistryStepType, DisputesUnchanged, ConfigUnchanged,
     LegsTypeUnchanged, ProofsUnchanged DEF LegTypes, AdLedgerTypeOK
<1> QED
  BY <1>1, <1>2, <1>3, QuietGoal DEF dmVars, adProofs, LegTypes, AdLedgerTypeOK

LEMMA ModuleGoal ==
  ASSUME LegInv, AdModuleNext
  PROVE  LegGoal
<1>1. /\ LegTypes /\ UNCHANGED <<adNow, registryVars, adVars>>
      /\ DisputeManagerAdminNext \/ DisputeManagerPublicNext
  BY DEF LegInv, AdModuleNext
<1>2. UNCHANGED <<adConfig, adLegs, adProofs, halt>>
  BY <1>1 DEF adVars
<1>3. DisputeStateOK' /\ SameRecords
  BY <1>1, AdminStepOK, PublicStepOK, AdminKeepsRecords, PublicKeepsRecords
  DEF LegTypes, DisputeStateOK
<1>4. LegTypes'
  BY <1>1, <1>2, <1>3, RegistryUnchanged, ConfigUnchanged, LegsTypeUnchanged,
     ProofsUnchanged DEF LegTypes, AdLedgerTypeOK
<1> QED
  BY <1>1, <1>2, <1>3, <1>4, SameRecordsLegs, NoLegGoal
  DEF adProofs, LegTypes, AdLedgerTypeOK

\* The clock, and a step of something else.
LEMMA TickGoal ==
  ASSUME LegInv, AdTickNext \/ UNCHANGED adChainVars
  PROVE  LegGoal
<1>1. LegTypes /\ UNCHANGED <<dmVars, registryVars, adVars>>
  BY DEF LegInv, AdTickNext, adChainVars
<1>2. adNow' \in Nat /\ adNow' >= adNow
  BY <1>1 DEF AdTickNext, AdTick, adChainVars, LegTypes, AdLedgerTypeOK
<1>3. UNCHANGED <<adConfig, adLegs, adProofs, halt>>
  BY <1>1 DEF adVars
<1>4. LegTypes'
  BY <1>1, <1>2, <1>3, DisputesUnchanged, RegistryUnchanged, ConfigUnchanged,
     LegsTypeUnchanged, ProofsUnchanged DEF LegTypes, AdLedgerTypeOK
<1> QED
  BY <1>1, <1>2, <1>3, <1>4, QuietGoal DEF dmVars, adProofs

-----------------------------------------------------------------------------
(* The ad chain *)

LEMMA LegInvInit ==
  ASSUME AdInit
  PROVE  LegInv
<1>1. AdLedgerTypeOK /\ DisputeStateOK
  BY DisputeInvInit DEF AdInit, DisputeInv, DisputeStateOK
<1>2. BLSKeyRegistryTypeOK
  <2>1. UnboundedSlot \in KeySlot /\ 0 \in SlotIds
    BY BLSKeyRegistryAssumption DEF UnboundedSlot, KeySlot, SlotIds
  <2> QED
    BY <2>1 DEF AdInit, BLSKeyRegistryInit, BLSKeyRegistryTypeOK, RepinApproval
<1>3. AdConfigTypeOK
  <2>1. 1 \in Versions \ {0}
    <3>1. Len(Timings) \in Nat /\ Len(Timings) >= 1
      BY AdManagerAssumption, CoreAssumption
    <3> QED
      BY <3>1 DEF Versions
  <2>2. halt \in [Makers -> Halt]
    BY DEF AdInit, AdManagerInit, Halt
  <2>3. /\ adPaused \in BOOLEAN /\ adChain \in BOOLEAN /\ adRoute \in BOOLEAN
        /\ adTiming \in Versions \ {0} /\ adPool \in AdPools \cup {Nil}
        /\ disputeManager \in Modules
    BY <2>1 DEF AdInit, AdManagerInit
  <2>4. adFees \in Fees /\ anchorDelay \in Nat
    BY AdManagerAssumption DEF AdInit, AdManagerInit
  <2>5. verifierChangedAt \in Nat
    BY <1>1 DEF AdInit, AdManagerInit, AdLedgerTypeOK
  <2>6. keyRegistry \in Registries /\ adVerifier \in Registries \cup {Nil}
    BY AdManagerAssumption DEF AdInit, AdManagerInit
  <2> QED
    BY <2>2, <2>3, <2>4, <2>5, <2>6 DEF AdConfigTypeOK
<1>4. AdLegsTypeOK /\ AdProofsTypeOK
  <2>1. NoOrder \in OrderRecord
    BY CoreAssumption, BLSKeyRegistryAssumption
    DEF NoOrder, OrderRecord, Versions, SlotIds
  <2> QED
    BY <2>1 DEF AdInit, AdManagerInit, AdLegsTypeOK, AdProofsTypeOK, Status, Outcome
<1>5. ASSUME NEW o \in Orders
      PROVE  LegOK(o)
  <2>1. /\ adStatus[o] = "None" /\ claimEnd[o] = Nil /\ adOrder[o] = NoOrder
        /\ adLeaves = {} /\ \A m \in Modules : ~Disputed(m, o)
    BY DEF AdInit, AdManagerInit, DisputeManagerInit, Disputed
  <2> QED
    BY <2>1 DEF LegOK, ClockOK, RecordOK, VerdictOK, ReleaseOK, Live, NoOrder
<1> QED
  BY <1>1, <1>2, <1>3, <1>4, <1>5 DEF LegInv, LegTypes

LEMMA LegInvStep ==
  ASSUME LegInv, [AdNext]_adChainVars
  PROVE  LegGoal
<1>1. CASE AdLocalNext
  BY <1>1, AdminGoal, AnchorGoal, MakerGoal, HaltGoal, RegistryGoal,
     OrderStepGoal, ClaimGoal, ModuleGoal DEF AdLocalNext
<1>2. CASE \E o \in Orders : AdUnlockNext(o)
  BY <1>2, UnlockGoal
<1>3. CASE \E leaf \in OrderChainLeaves : AdAnchorLeafNext(leaf)
  BY <1>3, AnchorLeafGoal
<1>4. CASE AdTickNext \/ UNCHANGED adChainVars
  BY <1>4, TickGoal
<1> QED
  BY <1>1, <1>2, <1>3, <1>4 DEF AdNext

\* The invariant of the whole ad chain.
THEOREM LegInvariant == AdSpec => []LegInv
<1>1. LegInv /\ [AdNext]_adChainVars => LegInv'
  BY LegInvStep DEF LegGoal
<1> QED
  BY <1>1, LegInvInit, PTL DEF AdSpec

\* A claimed order and no other has a claim, ending where the window ends.
THEOREM ClaimsMatch == AdSpec => []ClaimIffClaimed
<1>1. LegInv => ClaimIffClaimed
  BY DEF LegInv, LegOK, ClockOK, FixedEnd, ClaimIffClaimed
<1> QED
  BY <1>1, LegInvariant, PTL

\* An order is Disputed exactly while the module it was filed with, and no
\* other, holds a record of it: no bond and no order is ever stranded.
THEOREM DisputesMatch == AdSpec => []DisputedIffRecord
<1>1. LegInv => DisputedIffRecord
  BY DEF LegInv, LegOK, RecordOK, DisputedIffRecord
<1> QED
  BY <1>1, LegInvariant, PTL

\* The leaves of an order tell the order chain one verdict, the one reached.
THEOREM VerdictsMatch == AdSpec => []OneVerdict
<1>1. LegInv => OneVerdict
  BY DEF LegInv, LegOK, VerdictOK, OneVerdict
<1> QED
  BY <1>1, LegInvariant, PTL

\* No lock is handed back, by a cancel or by a ruling, before the presentation
\* window of the timing it opened under is over.
THEOREM NothingReleasedEarly == AdSpec => []NoEarlyRelease
<1>1. LegInv => NoEarlyRelease
  BY DEF LegInv, LegOK, ReleaseOK, FixedEnd, NoEarlyRelease
<1> QED
  BY <1>1, LegInvariant, PTL

\* A leg that ended stays as it ended.
THEOREM EndedStays == AdSpec => TerminalForever
<1>1. LegInv /\ [AdNext]_adChainVars => [EndedLegsStay]_adChainVars
  BY LegInvStep DEF LegGoal, LegStep, EndedLegsStay
<1> QED
  BY <1>1, LegInvariant, PTL DEF AdSpec, TerminalForever

\* No step moves a live order's presentation window.
THEOREM WindowsStay == AdSpec => WindowFixed
<1>1. LegInv /\ [AdNext]_adChainVars => [LiveWindowsStay]_adChainVars
  BY LegInvStep DEF LegGoal, LegStep, LiveWindowsStay
<1> QED
  BY <1>1, LegInvariant, PTL DEF AdSpec, WindowFixed

-----------------------------------------------------------------------------
(* The open positions *)

\* InFlightCountsLive, and that what is counted can be: orders without end may
\* exist, finitely many of them are locked.
CountsOK ==
  \A s \in Signers :
    /\ IsFiniteSet(LiveFor(s))
    /\ adInFlight[s] = Cardinality(LiveFor(s))

\* A step that neither locks an order nor ends one.
LEMMA CountsKept ==
  ASSUME CountsOK, UNCHANGED adInFlight,
         \A x \in Orders : adStatus'[x] \in Live <=> adStatus[x] \in Live
  PROVE  CountsOK'
<1>1. \A s \in Signers : LiveFor(s)' = LiveFor(s)
  BY DEF LiveFor
<1> QED
  BY <1>1 DEF CountsOK

LEMMA CountsLock ==
  ASSUME LegTypes, CountsOK, NEW o \in Orders, NEW pin \in SlotIds,
         LockForOrder(o, pin)
  PROVE  CountsOK'
<1>1. /\ adStatus \in [Orders -> Status] /\ adInFlight \in [Signers -> Int]
      /\ SignerOf[o] \in Signers
  BY AdManagerAssumption DEF LegTypes, AdLegsTypeOK
<1>2. /\ adStatus[o] = "None"
      /\ adStatus' = [adStatus EXCEPT ![o] = "Open"]
      /\ adInFlight' = [adInFlight EXCEPT ![SignerOf[o]] = @ + 1]
  BY DEF LockForOrder
<1>3. ASSUME NEW s \in Signers
      PROVE  IsFiniteSet(LiveFor(s))' /\ adInFlight'[s] = Cardinality(LiveFor(s))'
  <2>0. IsFiniteSet(LiveFor(s)) /\ adInFlight[s] = Cardinality(LiveFor(s))
    BY DEF CountsOK
  <2>1. CASE s = SignerOf[o]
    <3>1. LiveFor(s)' = LiveFor(s) \cup {o} /\ o \notin LiveFor(s)
      BY <1>1, <1>2, <2>1 DEF LiveFor, Live
    <3>2. adInFlight'[s] = adInFlight[s] + 1
      BY <1>1, <1>2, <2>1
    <3> QED
      BY <2>0, <3>1, <3>2, FS_AddElement
  <2>2. CASE s # SignerOf[o]
    <3>1. LiveFor(s)' = LiveFor(s)
      BY <1>1, <1>2, <2>2 DEF LiveFor
    <3>2. adInFlight'[s] = adInFlight[s]
      BY <1>1, <1>2, <2>2
    <3> QED
      BY <2>0, <3>1, <3>2
  <2> QED
    BY <2>1, <2>2
<1> QED
  BY <1>3 DEF CountsOK

LEMMA CountsEnd ==
  ASSUME LegTypes, CountsOK, NEW o \in Orders, NEW status \in Terminal,
         adStatus[o] \in Live, EndLeg(o, status)
  PROVE  CountsOK'
<1>1. /\ adStatus \in [Orders -> Status] /\ adInFlight \in [Signers -> Int]
      /\ SignerOf[o] \in Signers
  BY AdManagerAssumption DEF LegTypes, AdLegsTypeOK
<1>2. /\ adStatus' = [adStatus EXCEPT ![o] = status]
      /\ adInFlight' = [adInFlight EXCEPT ![SignerOf[o]] = @ - 1]
      /\ status \notin Live
  BY DEF EndLeg, Terminal, Live
<1>3. ASSUME NEW s \in Signers
      PROVE  IsFiniteSet(LiveFor(s))' /\ adInFlight'[s] = Cardinality(LiveFor(s))'
  <2>0. IsFiniteSet(LiveFor(s)) /\ adInFlight[s] = Cardinality(LiveFor(s))
    BY DEF CountsOK
  <2>1. CASE s = SignerOf[o]
    <3>1. LiveFor(s)' = LiveFor(s) \ {o} /\ o \in LiveFor(s)
      BY <1>1, <1>2, <2>1 DEF LiveFor
    <3>2. adInFlight'[s] = adInFlight[s] - 1
      BY <1>1, <1>2, <2>1
    <3> QED
      BY <2>0, <3>1, <3>2, FS_RemoveElement
  <2>2. CASE s # SignerOf[o]
    <3>1. LiveFor(s)' = LiveFor(s)
      BY <1>1, <1>2, <2>2 DEF LiveFor
    <3>2. adInFlight'[s] = adInFlight[s]
      BY <1>1, <1>2, <2>2
    <3> QED
      BY <2>0, <3>1, <3>2
  <2> QED
    BY <2>1, <2>2
<1> QED
  BY <1>3 DEF CountsOK

\* A step that leaves one leg in the same phase and the others alone.
LEMMA CountsMove ==
  ASSUME LegTypes, CountsOK, NEW o \in Orders, NEW status,
         adStatus' = [adStatus EXCEPT ![o] = status],
         status \in Live <=> adStatus[o] \in Live, UNCHANGED adInFlight
  PROVE  CountsOK'
<1>1. \A x \in Orders : adStatus'[x] \in Live <=> adStatus[x] \in Live
  BY DEF LegTypes, AdLegsTypeOK
<1> QED
  BY <1>1, CountsKept

LEMMA CountsStep ==
  ASSUME LegInv, CountsOK, [AdNext]_adChainVars
  PROVE  CountsOK'
<1>0. LegTypes
  BY DEF LegInv
<1>1. CASE UNCHANGED <<adStatus, adInFlight>>
  BY <1>1, CountsKept
<1>2. CASE AdOrderNext
  <2>1. ASSUME NEW o \in Orders, NEW pin \in SlotIds, LockForOrder(o, pin)
        PROVE  CountsOK'
    BY <1>0, <2>1, CountsLock
  <2>2. ASSUME NEW o \in Orders, PresentSettled(o)
        PROVE  CountsOK'
    BY <1>0, <2>2, CountsEnd DEF PresentSettled, AdPresentable, Terminal
  <2>3. ASSUME NEW o \in Orders, RecordSettled(o) \/ RepinOrder(o)
        PROVE  CountsOK'
    BY <1>1, <2>3 DEF RecordSettled, RepinOrder, adLegs
  <2>4. ASSUME NEW o \in Orders, ClaimCancel(o)
        PROVE  CountsOK'
    BY <1>0, <2>4, CountsMove DEF ClaimCancel, Live
  <2>5. ASSUME NEW o \in Orders, FinalizeCancel(o)
        PROVE  CountsOK'
    BY <1>0, <2>5, CountsEnd DEF FinalizeCancel, Terminal, Live
  <2>6. ASSUME NEW o \in Orders, CancelNeverLocked(o)
        PROVE  CountsOK'
    BY <1>0, <2>6, CountsMove DEF CancelNeverLocked, Live
  <2>7. ASSUME NEW o \in Orders, NEW p \in Parties, Dispute(o, p)
        PROVE  CountsOK'
    BY <1>0, <2>7, CountsMove DEF Dispute, Live
  <2>8. ASSUME NEW o \in Orders, NEW p \in Parties, RespondToDispute(o, p)
        PROVE  CountsOK'
    BY <1>1, <2>8 DEF RespondToDispute, adLegs
  <2>9. ASSUME NEW o \in Orders, FinalizeDispute(o)
        PROVE  CountsOK'
    BY <1>0, <2>9, CountsEnd DEF FinalizeDispute, Terminal, Live
  <2> QED
    BY <1>2, <2>1, <2>2, <2>3, <2>4, <2>5, <2>6, <2>7, <2>8, <2>9 DEF AdOrderNext
<1>3. ASSUME NEW o \in Orders, AdUnlockNext(o)
      PROVE  CountsOK'
  BY <1>0, <1>3, CountsEnd DEF AdUnlockNext, Unlock, AdPresentable, Terminal
<1>4. CASE AdAdminNext \/ AdAnchorNext \/ AdMakerNext \/ AdHaltNext
  BY <1>1, <1>4 DEF AdAdminNext, AdAnchorNext, AdMakerNext, AdHaltNext, adLegs
<1>5. CASE AdRegistryNext \/ AdModuleNext \/ AdTickNext \/ UNCHANGED adChainVars
  BY <1>1, <1>5
  DEF AdRegistryNext, AdModuleNext, AdTickNext, adChainVars, adVars, adLegs
<1>6. CASE AdClaimNext
  BY <1>1, <1>6 DEF AdClaimNext, ClaimPayout, adLegs
<1>7. ASSUME NEW leaf \in OrderChainLeaves, AdAnchorLeafNext(leaf)
      PROVE  CountsOK'
  BY <1>1, <1>7 DEF AdAnchorLeafNext, adLegs
<1> QED
  BY <1>2, <1>3, <1>4, <1>5, <1>6, <1>7 DEF AdNext, AdLocalNext

LEMMA CountsInit ==
  ASSUME AdInit
  PROVE  CountsOK
<1>1. \A s \in Signers : LiveFor(s) = {} /\ adInFlight[s] = 0
  BY DEF AdInit, AdManagerInit, LiveFor, Live
<1> QED
  BY <1>1, FS_EmptySet DEF CountsOK

\* The counter the registries' position guard reads is the number of live
\* orders: has_open_positions answers for every order the account settles.
THEOREM PositionsCounted == AdSpec => []InFlightCountsLive
<1>1. CountsOK => InFlightCountsLive
  BY DEF CountsOK, InFlightCountsLive
<1>2. AdSpec => []CountsOK
  BY CountsInit, CountsStep, LegInvariant, PTL DEF AdSpec
<1> QED
  BY <1>1, <1>2, PTL

-----------------------------------------------------------------------------
(* What the ads hold *)

\* The types of the balances, and that an order's ad exists while it is live.
FundsOK ==
  /\ AdFundsTypeOK
  /\ \A o \in Orders : adStatus[o] \in Live => ad[AdOf[o]] # Nil

LEMMA AmountTypes ==
  ASSUME NEW o \in Orders
  PROVE  /\ AdOf[o] \in Ads /\ RecipientOf[o] \in Parties
         /\ Amount[o] \in Nat /\ LpFee(o) \in Nat /\ ProtocolFee(o) \in Nat
<1>1. FeesOf[o] \in Fees /\ Amount[o] \in Nat
  BY AdManagerAssumption, CoreAssumption
<1>2. FeesOf[o].lp_bps \in Nat /\ FeesOf[o].protocol_bps \in Nat
  BY <1>1 DEF Fees
<1>3. \A b \in Nat : BpsOf(Amount[o], b) \in Nat
  <2>1. \A x \in Nat : x \div 10000 \in Nat
    OBVIOUS
  <2>2. \A b \in Nat : Amount[o] * b \in Nat
    BY <1>1
  <2> QED
    BY <2>1, <2>2 DEF BpsOf
<1>4. LpFee(o) \in Nat /\ ProtocolFee(o) \in Nat
  BY <1>2, <1>3 DEF LpFee, ProtocolFee
<1> QED
  BY <1>1, <1>4, AdManagerAssumption

\* One ad rewritten.
LEMMA AdRewritten ==
  ASSUME AdFundsTypeOK, NEW a \in Ads, NEW k \in Ad, ad' = [ad EXCEPT ![a] = k]
  PROVE  /\ ad' \in [Ads -> Ad \cup {Nil}]
         /\ \A b \in Ads : ad[b] # Nil => ad'[b] # Nil
         /\ ad'[a] # Nil
BY AdManagerAssumption DEF AdFundsTypeOK

\* No step deletes an ad, so what holds of the live orders' ads stays.
LEMMA FundsStay ==
  ASSUME FundsOK, AdFundsTypeOK',
         \A b \in Ads : ad[b] # Nil => ad'[b] # Nil,
         \A x \in Orders :
           adStatus'[x] \in Live => adStatus[x] \in Live \/ ad[AdOf[x]] # Nil
  PROVE  FundsOK'
BY AdManagerAssumption DEF FundsOK

LEMMA PayNetTypes ==
  ASSUME AdFundsTypeOK, NEW to \in Parties, NEW net \in Int, NEW fee \in Int,
         PayNet(to, net, fee)
  PROVE  /\ adPaid' \in [Parties -> Int] /\ adCredit' \in [Parties -> Int]
         /\ adVault' \in Int
<1>1. PICK sent \in SUBSET {"recipient", "pool"} :
        LET cut      == IF adPool # Nil THEN fee ELSE 0
            toOf(p)  == IF p = to THEN net ELSE 0
            feeOf(p) == IF p = adPool THEN cut ELSE 0
        IN /\ adPaid' = [p \in Parties |-> adPaid[p]
                           + (IF "recipient" \in sent THEN toOf(p) ELSE 0)
                           + (IF "pool" \in sent THEN feeOf(p) ELSE 0)]
           /\ adCredit' = [p \in Parties |-> adCredit[p]
                             + (IF "recipient" \in sent THEN 0 ELSE toOf(p))
                             + (IF "pool" \in sent THEN 0 ELSE feeOf(p))]
           /\ adVault' = adVault - (IF "recipient" \in sent THEN net ELSE 0)
                                 - (IF "pool" \in sent THEN cut ELSE 0)
  BY DEF PayNet
<1>2. /\ adPaid \in [Parties -> Int] /\ adCredit \in [Parties -> Int]
      /\ adVault \in Int
  BY DEF AdFundsTypeOK
<1> QED
  BY <1>1, <1>2

LEMMA ReleaseToRecipientTypes ==
  ASSUME FundsOK, NEW o \in Orders, NEW fee \in Nat, adStatus[o] \in Live,
         ReleaseToRecipient(o, fee)
  PROVE  AdFundsTypeOK' /\ \A b \in Ads : ad[b] # Nil => ad'[b] # Nil
<1>1. /\ AdOf[o] \in Ads /\ RecipientOf[o] \in Parties
      /\ Amount[o] \in Nat /\ ProtocolFee(o) \in Nat
  BY AmountTypes
<1>2. ad[AdOf[o]] \in Ad
  BY <1>1 DEF FundsOK, AdFundsTypeOK
<1>3. LeavesAd(o, fee) \in Int /\ Amount[o] - fee - ProtocolFee(o) \in Int
  BY <1>1 DEF LeavesAd
<1>4. PICK j : j = [ad[AdOf[o]] EXCEPT !.locked = @ - Amount[o]]
  OBVIOUS
<1>5. PICK k : k = [j EXCEPT !.balance = @ - LeavesAd(o, fee)]
  OBVIOUS
<1>6. j \in Ad
  BY <1>1, <1>2, <1>4 DEF Ad
<1>7. k \in Ad
  BY <1>3, <1>5, <1>6 DEF Ad
<1>8. ad' = [ad EXCEPT ![AdOf[o]] = k]
  BY <1>1, <1>4, <1>5 DEF ReleaseToRecipient, FundsOK, AdFundsTypeOK
<1>9. /\ ad' \in [Ads -> Ad \cup {Nil}]
      /\ \A b \in Ads : ad[b] # Nil => ad'[b] # Nil
  BY <1>1, <1>7, <1>8, AdRewritten DEF FundsOK
<1>10. /\ adPaid' \in [Parties -> Int] /\ adCredit' \in [Parties -> Int]
       /\ adVault' \in Int
  BY <1>1, <1>3, PayNetTypes DEF ReleaseToRecipient, FundsOK
<1> QED
  BY <1>9, <1>10 DEF ReleaseToRecipient, FundsOK, AdFundsTypeOK

LEMMA ReleaseToAdTypes ==
  ASSUME FundsOK, NEW o \in Orders, adStatus[o] \in Live, ReleaseToAd(o)
  PROVE  AdFundsTypeOK' /\ \A b \in Ads : ad[b] # Nil => ad'[b] # Nil
<1>1. AdOf[o] \in Ads /\ Amount[o] \in Nat
  BY AmountTypes
<1>2. ad[AdOf[o]] \in Ad
  BY <1>1 DEF FundsOK, AdFundsTypeOK
<1>3. PICK k : k = [ad[AdOf[o]] EXCEPT !.locked = @ - Amount[o]]
  OBVIOUS
<1>4. k \in Ad
  BY <1>1, <1>2, <1>3 DEF Ad
<1>5. ad' = [ad EXCEPT ![AdOf[o]] = k]
  BY <1>3 DEF ReleaseToAd
<1> QED
  BY <1>1, <1>4, <1>5, AdRewritten DEF ReleaseToAd, FundsOK, AdFundsTypeOK

LEMMA LockFunds ==
  ASSUME LegTypes, FundsOK, NEW o \in Orders, NEW pin \in SlotIds,
         LockForOrder(o, pin)
  PROVE  FundsOK'
<1>1. AdOf[o] \in Ads /\ Amount[o] \in Nat
  BY AmountTypes
<1>2. ad[AdOf[o]] # Nil /\ ad[AdOf[o]] \in Ad
  BY <1>1 DEF FundsOK, AdFundsTypeOK, LockForOrder
<1>3. PICK k : k = [ad[AdOf[o]] EXCEPT !.locked = @ + Amount[o]]
  OBVIOUS
<1>4. k \in Ad
  BY <1>1, <1>2, <1>3 DEF Ad
<1>5. ad' = [ad EXCEPT ![AdOf[o]] = k]
  BY <1>3 DEF LockForOrder
<1>6. AdFundsTypeOK' /\ \A b \in Ads : ad[b] # Nil => ad'[b] # Nil
  BY <1>1, <1>4, <1>5, AdRewritten DEF LockForOrder, FundsOK, AdFundsTypeOK
<1>7. \A x \in Orders \ {o} : adStatus'[x] = adStatus[x]
  BY DEF LockForOrder, LegTypes, AdLegsTypeOK
<1> QED
  BY <1>2, <1>6, <1>7, FundsStay

LEMMA EndFunds ==
  ASSUME LegTypes, FundsOK, NEW o \in Orders, NEW status \in Terminal,
         adStatus[o] \in Live, EndLeg(o, status),
         \/ \E fee \in Nat : ReleaseToRecipient(o, fee)
         \/ ReleaseToAd(o)
  PROVE  FundsOK'
<1>1. AdFundsTypeOK' /\ \A b \in Ads : ad[b] # Nil => ad'[b] # Nil
  BY ReleaseToRecipientTypes, ReleaseToAdTypes
<1>2. \A x \in Orders : adStatus'[x] \in Live => adStatus[x] \in Live
  BY DEF EndLeg, LegTypes, AdLegsTypeOK, Terminal, Live
<1> QED
  BY <1>1, <1>2, FundsStay

\* A step that moves one leg and no token.
LEMMA FundsKept ==
  ASSUME FundsOK, UNCHANGED adFunds,
         \A x \in Orders : adStatus'[x] \in Live => adStatus[x] \in Live
  PROVE  FundsOK'
BY DEF FundsOK, AdFundsTypeOK, adFunds

LEMMA FundsMove ==
  ASSUME LegTypes, FundsOK, UNCHANGED adFunds, NEW o \in Orders, NEW status,
         adStatus' = [adStatus EXCEPT ![o] = status],
         status \in Live => adStatus[o] \in Live
  PROVE  FundsOK'
<1>1. \A x \in Orders : adStatus'[x] \in Live => adStatus[x] \in Live
  BY DEF LegTypes, AdLegsTypeOK
<1> QED
  BY <1>1, FundsKept

\* The maker's operations on an ad.
LEMMA MakerFunds ==
  ASSUME FundsOK, AdMakerNext
  PROVE  FundsOK'
<1>0. /\ AdFundsTypeOK /\ Deposits \subseteq Nat
      /\ UNCHANGED adStatus
  BY AdManagerAssumption DEF FundsOK, AdMakerNext, adLegs
<1> SUFFICES AdFundsTypeOK' /\ \A b \in Ads : ad[b] # Nil => ad'[b] # Nil
  BY <1>0, FundsStay
<1>1. ASSUME NEW a \in Ads, NEW n \in Deposits, NEW s \in Signers, CreateAd(a, n, s)
      PROVE  AdFundsTypeOK' /\ \A b \in Ads : ad[b] # Nil => ad'[b] # Nil
  <2>1. PICK k : k = [balance |-> n, locked |-> 0, open |-> TRUE, signer |-> s]
    OBVIOUS
  <2>2. k \in Ad
    BY <1>0, <2>1 DEF Ad
  <2>3. ad' = [ad EXCEPT ![a] = k]
    BY <1>1, <2>1 DEF CreateAd
  <2>4. /\ ad' \in [Ads -> Ad \cup {Nil}]
        /\ \A b \in Ads : ad[b] # Nil => ad'[b] # Nil
    BY <1>0, <2>2, <2>3, AdRewritten
  <2> QED
    BY <1>0, <1>1, <2>4 DEF CreateAd, AdFundsTypeOK
<1>2. ASSUME NEW a \in Ads, NEW n \in Deposits, FundAd(a, n)
      PROVE  AdFundsTypeOK' /\ \A b \in Ads : ad[b] # Nil => ad'[b] # Nil
  <2>0. ad[a] \in Ad /\ n \in Nat
    BY <1>0, <1>2 DEF FundAd, AdFundsTypeOK
  <2>1. PICK k : k = [ad[a] EXCEPT !.balance = @ + n]
    OBVIOUS
  <2>2. k \in Ad
    BY <2>0, <2>1 DEF Ad
  <2>3. ad' = [ad EXCEPT ![a] = k]
    BY <1>2, <2>1 DEF FundAd
  <2>4. /\ ad' \in [Ads -> Ad \cup {Nil}]
        /\ \A b \in Ads : ad[b] # Nil => ad'[b] # Nil
    BY <1>0, <2>2, <2>3, AdRewritten
  <2> QED
    BY <1>0, <1>2, <2>4 DEF FundAd, AdFundsTypeOK
<1>3. ASSUME NEW a \in Ads, NEW n \in Deposits, WithdrawFromAd(a, n)
      PROVE  AdFundsTypeOK' /\ \A b \in Ads : ad[b] # Nil => ad'[b] # Nil
  <2>0. ad[a] \in Ad /\ n \in Nat
    BY <1>0, <1>3 DEF WithdrawFromAd, AdFundsTypeOK
  <2>1. PICK k : k = [ad[a] EXCEPT !.balance = @ - n]
    OBVIOUS
  <2>2. k \in Ad
    BY <2>0, <2>1 DEF Ad
  <2>3. ad' = [ad EXCEPT ![a] = k]
    BY <1>3, <2>1 DEF WithdrawFromAd
  <2>4. /\ ad' \in [Ads -> Ad \cup {Nil}]
        /\ \A b \in Ads : ad[b] # Nil => ad'[b] # Nil
    BY <1>0, <2>2, <2>3, AdRewritten
  <2> QED
    BY <1>0, <1>3, <2>4 DEF WithdrawFromAd, AdFundsTypeOK
<1>4. ASSUME NEW a \in Ads, CloseAd(a)
      PROVE  AdFundsTypeOK' /\ \A b \in Ads : ad[b] # Nil => ad'[b] # Nil
  <2>0. ad[a] \in Ad
    BY <1>0, <1>4 DEF CloseAd, AdFundsTypeOK
  <2>1. PICK j : j = [ad[a] EXCEPT !.balance = 0]
    OBVIOUS
  <2>2. PICK k : k = [j EXCEPT !.open = FALSE]
    OBVIOUS
  <2>3. j \in Ad
    BY <2>0, <2>1 DEF Ad
  <2>4. k \in Ad
    BY <2>2, <2>3 DEF Ad
  <2>5. ad' = [ad EXCEPT ![a] = k]
    BY <1>0, <1>4, <2>1, <2>2 DEF CloseAd, AdFundsTypeOK
  <2>6. /\ ad' \in [Ads -> Ad \cup {Nil}]
        /\ \A b \in Ads : ad[b] # Nil => ad'[b] # Nil
    BY <1>0, <2>4, <2>5, AdRewritten
  <2>7. ad[a].balance \in Int
    BY <2>0 DEF Ad
  <2> QED
    BY <1>0, <1>4, <2>6, <2>7 DEF CloseAd, AdFundsTypeOK
<1>5. ASSUME NEW a \in Ads, NEW s \in Signers, SetSettlementSigner(a, s)
      PROVE  AdFundsTypeOK' /\ \A b \in Ads : ad[b] # Nil => ad'[b] # Nil
  <2>0. ad[a] \in Ad
    BY <1>0, <1>5 DEF SetSettlementSigner, AdFundsTypeOK
  <2>1. PICK k : k = [ad[a] EXCEPT !.signer = s]
    OBVIOUS
  <2>2. k \in Ad
    BY <2>0, <2>1 DEF Ad
  <2>3. ad' = [ad EXCEPT ![a] = k]
    BY <1>5, <2>1 DEF SetSettlementSigner
  <2>4. /\ ad' \in [Ads -> Ad \cup {Nil}]
        /\ \A b \in Ads : ad[b] # Nil => ad'[b] # Nil
    BY <1>0, <2>2, <2>3, AdRewritten
  <2> QED
    BY <1>0, <1>5, <2>4 DEF SetSettlementSigner, AdFundsTypeOK
<1> QED
  BY <1>1, <1>2, <1>3, <1>4, <1>5 DEF AdMakerNext

LEMMA ClaimFunds ==
  ASSUME FundsOK, AdClaimNext
  PROVE  FundsOK'
<1>1. PICK p \in Parties : ClaimPayout(p)
  BY DEF AdClaimNext
<1>2. /\ AdFundsTypeOK /\ adCredit[p] \in Int /\ adPaid[p] \in Int
      /\ UNCHANGED <<adStatus, ad>>
  BY <1>1 DEF FundsOK, AdFundsTypeOK, ClaimPayout, adLegs
<1>3. AdFundsTypeOK'
  BY <1>1, <1>2 DEF ClaimPayout, AdFundsTypeOK
<1> QED
  BY <1>2, <1>3, FundsStay

LEMMA FundsStep ==
  ASSUME LegInv, FundsOK, [AdNext]_adChainVars
  PROVE  FundsOK'
<1>0. LegTypes
  BY DEF LegInv
<1>1. CASE UNCHANGED <<adStatus, adFunds>>
  BY <1>1, FundsKept
<1>2. CASE AdOrderNext
  <2>1. ASSUME NEW o \in Orders, NEW pin \in SlotIds, LockForOrder(o, pin)
        PROVE  FundsOK'
    BY <1>0, <2>1, LockFunds
  <2>2. ASSUME NEW o \in Orders, PresentSettled(o)
        PROVE  FundsOK'
    BY <1>0, <2>2, EndFunds, AmountTypes DEF PresentSettled, AdPresentable, Terminal
  <2>3. ASSUME NEW o \in Orders, RecordSettled(o) \/ RepinOrder(o)
        PROVE  FundsOK'
    BY <1>1, <2>3 DEF RecordSettled, RepinOrder, adLegs
  <2>4. ASSUME NEW o \in Orders, ClaimCancel(o)
        PROVE  FundsOK'
    BY <1>0, <2>4, FundsMove DEF ClaimCancel, Live
  <2>5. ASSUME NEW o \in Orders, FinalizeCancel(o)
        PROVE  FundsOK'
    BY <1>0, <2>5, EndFunds DEF FinalizeCancel, Terminal, Live
  <2>6. ASSUME NEW o \in Orders, CancelNeverLocked(o)
        PROVE  FundsOK'
    BY <1>0, <2>6, FundsMove DEF CancelNeverLocked, Live
  <2>7. ASSUME NEW o \in Orders, NEW p \in Parties, Dispute(o, p)
        PROVE  FundsOK'
    BY <1>0, <2>7, FundsMove DEF Dispute, Live
  <2>8. ASSUME NEW o \in Orders, NEW p \in Parties, RespondToDispute(o, p)
        PROVE  FundsOK'
    BY <1>1, <2>8 DEF RespondToDispute, adLegs
  <2>9. ASSUME NEW o \in Orders, FinalizeDispute(o)
        PROVE  FundsOK'
    <3>1. ReleaseToRecipient(o, 0) \/ ReleaseToAd(o)
      BY <2>9 DEF FinalizeDispute
    <3> QED
      BY <1>0, <2>9, <3>1, EndFunds DEF FinalizeDispute, Terminal, Live
  <2> QED
    BY <1>2, <2>1, <2>2, <2>3, <2>4, <2>5, <2>6, <2>7, <2>8, <2>9 DEF AdOrderNext
<1>3. ASSUME NEW o \in Orders, AdUnlockNext(o)
      PROVE  FundsOK'
  BY <1>0, <1>3, EndFunds, AmountTypes
  DEF AdUnlockNext, Unlock, AdPresentable, Terminal
<1>4. CASE AdAdminNext \/ AdAnchorNext \/ AdHaltNext
  BY <1>1, <1>4 DEF AdAdminNext, AdAnchorNext, AdHaltNext, adLegs
<1>5. CASE AdRegistryNext \/ AdModuleNext \/ AdTickNext \/ UNCHANGED adChainVars
  BY <1>1, <1>5
  DEF AdRegistryNext, AdModuleNext, AdTickNext, adChainVars, adVars, adLegs
<1>6. ASSUME NEW leaf \in OrderChainLeaves, AdAnchorLeafNext(leaf)
      PROVE  FundsOK'
  BY <1>1, <1>6 DEF AdAnchorLeafNext, adLegs
<1> QED
  BY <1>2, <1>3, <1>4, <1>5, <1>6, MakerFunds, ClaimFunds DEF AdNext, AdLocalNext

LEMMA FundsInit ==
  ASSUME AdInit
  PROVE  FundsOK
BY DEF AdInit, AdManagerInit, FundsOK, AdFundsTypeOK, Live

\* Every variable of the ad chain holds a value of its type, whatever is locked,
\* paid, disputed, rewired or shown to it, and a live order's ad exists.
THEOREM AdManagerTypeCorrect == AdSpec => []AdManagerTypeOK
<1>1. LegInv /\ FundsOK => AdManagerTypeOK
  BY DEF LegInv, LegTypes, DisputeStateOK, FundsOK, AdManagerTypeOK
<1>2. AdSpec => []FundsOK
  BY FundsInit, FundsStep, LegInvariant, PTL DEF AdSpec
<1> QED
  BY <1>1, <1>2, LegInvariant, PTL

-----------------------------------------------------------------------------
(* The ad chain's money.  An order's fees never exceed its amount; a payout  *)
(* takes from the vault and adds to the credits what it takes from the ad,   *)
(* and a protocol fee is owed only where a pool is there to be paid.         *)

\* Each fee is at most 1%, rounded down.
LEMMA BpsFit ==
  ASSUME NEW x \in Nat, NEW b \in 0..100
  PROVE  100 * BpsOf(x, b) <= x
<1>1. PICK n : n = x * b
  OBVIOUS
<1>2. n \in Nat /\ n <= x * 100
  BY <1>1
<1>3. PICK q : q = n \div 10000
  OBVIOUS
<1>4. q \in Nat /\ 10000 * q <= n
  BY <1>2, <1>3
<1>5. 100 * q <= x
  BY <1>2, <1>4
<1> QED
  BY <1>1, <1>3, <1>5 DEF BpsOf

LEMMA FeesFit ==
  ASSUME NEW o \in Orders
  PROVE  LpFee(o) + ProtocolFee(o) <= Amount[o]
<1>1. /\ Amount[o] \in Nat /\ LpFee(o) \in Nat /\ ProtocolFee(o) \in Nat
      /\ FeesOf[o].lp_bps \in 0..100 /\ FeesOf[o].protocol_bps \in 0..100
  BY AmountTypes, AdManagerAssumption DEF Fees
<1>2. 100 * LpFee(o) <= Amount[o] /\ 100 * ProtocolFee(o) <= Amount[o]
  BY <1>1, BpsFit DEF LpFee, ProtocolFee
<1> QED
  BY <1>1, <1>2

LEMMA NoBpsNoFee ==
  ASSUME NEW o \in Orders, FeesOf[o].protocol_bps = 0
  PROVE  ProtocolFee(o) = 0
<1>1. Amount[o] * 0 = 0
  BY AmountTypes
<1>2. 0 \div 10000 = 0
  OBVIOUS
<1> QED
  BY <1>1, <1>2 DEF ProtocolFee, BpsOf

PurseTypes ==
  adCredit \in [Parties -> Nat] /\ adPaid \in [Parties -> Nat] /\ adVault \in Int

\* pay_net: whatever arrives, the recipient and the pool receive what they are
\* owed, and the vault keeps exactly what it still owes them.
LEMMA PayNetMoney ==
  ASSUME PurseTypes, adPool \in AdPools \cup {Nil},
         NEW to \in Parties, NEW net \in Nat, NEW fee \in Nat,
         fee # 0 => adPool # Nil, PayNet(to, net, fee)
  PROVE  /\ PurseTypes'
         /\ \A p \in Parties :
              AdReceived[p]' = AdReceived[p] + (IF p = to THEN net ELSE 0)
                                 + (IF p = adPool THEN fee ELSE 0)
         /\ adVault' - SumOver(Parties, adCredit')
              = adVault - SumOver(Parties, adCredit) - net - fee
<1>1. PICK sent \in SUBSET {"recipient", "pool"} :
        LET cut      == IF adPool # Nil THEN fee ELSE 0
            toOf(p)  == IF p = to THEN net ELSE 0
            feeOf(p) == IF p = adPool THEN cut ELSE 0
        IN /\ adPaid' = [p \in Parties |-> adPaid[p]
                           + (IF "recipient" \in sent THEN toOf(p) ELSE 0)
                           + (IF "pool" \in sent THEN feeOf(p) ELSE 0)]
           /\ adCredit' = [p \in Parties |-> adCredit[p]
                             + (IF "recipient" \in sent THEN 0 ELSE toOf(p))
                             + (IF "pool" \in sent THEN 0 ELSE feeOf(p))]
           /\ adVault' = adVault - (IF "recipient" \in sent THEN net ELSE 0)
                                 - (IF "pool" \in sent THEN cut ELSE 0)
  BY DEF PayNet
<1>2. PICK rc : rc = IF "recipient" \in sent THEN 0 ELSE net
  OBVIOUS
<1>3. PICK pc : pc = IF "pool" \in sent THEN 0 ELSE fee
  OBVIOUS
<1>4. rc \in Nat /\ pc \in Nat /\ rc <= net /\ pc <= fee /\ (pc # 0 => adPool # Nil)
  BY <1>2, <1>3
<1>5. adCredit' = [p \in Parties |-> adCredit[p] + (IF p = to THEN rc ELSE 0)
                                                  + (IF p = adPool THEN pc ELSE 0)]
  BY <1>1, <1>2, <1>3 DEF PurseTypes
<1>6. adPaid' = [p \in Parties |-> adPaid[p] + (IF p = to THEN net - rc ELSE 0)
                                              + (IF p = adPool THEN fee - pc ELSE 0)]
  BY <1>1, <1>2, <1>3 DEF PurseTypes
<1>7. adVault' = adVault - (net - rc) - (fee - pc)
  BY <1>1, <1>2, <1>3 DEF PurseTypes
<1>8. PurseTypes'
  <2>1. adCredit' \in [Parties -> Nat]
    BY <1>4, <1>5 DEF PurseTypes
  <2>2. net - rc \in Nat /\ fee - pc \in Nat
    BY <1>4
  <2>3. adPaid' \in [Parties -> Nat]
    BY <1>6, <2>2 DEF PurseTypes
  <2> QED
    BY <1>4, <1>7, <2>1, <2>3 DEF PurseTypes
<1>9. ASSUME NEW p \in Parties
      PROVE  AdReceived[p]' = AdReceived[p] + (IF p = to THEN net ELSE 0)
                                + (IF p = adPool THEN fee ELSE 0)
  <2>1. adPaid[p] \in Nat /\ adCredit[p] \in Nat
    BY DEF PurseTypes
  <2>2. /\ adCredit'[p] = adCredit[p] + (IF p = to THEN rc ELSE 0)
                                       + (IF p = adPool THEN pc ELSE 0)
        /\ adPaid'[p] = adPaid[p] + (IF p = to THEN net - rc ELSE 0)
                                   + (IF p = adPool THEN fee - pc ELSE 0)
    BY <1>5, <1>6
  <2>3. AdReceived[p]' = adPaid'[p] + adCredit'[p] /\ AdReceived[p] = adPaid[p] + adCredit[p]
    BY DEF AdReceived
  <2> QED
    BY <1>4, <2>1, <2>2, <2>3
<1>10. PICK c : c = adCredit'
  OBVIOUS
<1>11. PICK g : g = [p \in Parties |-> adCredit[p] + (IF p = to THEN rc ELSE 0)]
  OBVIOUS
<1>12. AmountsOn(Parties, adCredit) /\ AmountsOn(Parties, g)
  BY <1>4, <1>11 DEF PurseTypes, AmountsOn
<1>13. SumOver(Parties, adCredit) \in Nat
  BY <1>12, FiniteParties, SumType
<1>14. SumOver(Parties, g) = SumOver(Parties, adCredit) + rc
  <2>1. Raised(Parties, adCredit, g, to, rc)
    BY <1>11 DEF Raised
  <2> QED
    BY <1>4, <1>12, <2>1, FiniteParties, SumRaised
<1>15. SumOver(Parties, c) = SumOver(Parties, g) + pc
  <2>1. PICK q : q = adPool
    OBVIOUS
  <2>2. Raised(Parties, g, c, q, pc)
    BY <1>5, <1>10, <1>11, <2>1 DEF Raised
  <2>3. /\ q \in Parties => SumOver(Parties, c) = SumOver(Parties, g) + pc
        /\ q \notin Parties => SumOver(Parties, c) = SumOver(Parties, g)
    BY <1>4, <1>12, <2>2, FiniteParties, SumRaised
  <2>4. pc # 0 => q \in Parties
    BY <1>4, <2>1, AdManagerAssumption
  <2>5. SumOver(Parties, g) \in Nat
    BY <1>12, FiniteParties, SumType
  <2> QED
    BY <1>4, <2>3, <2>4, <2>5
<1>16. adVault' - SumOver(Parties, adCredit')
         = adVault - SumOver(Parties, adCredit) - net - fee
  BY <1>4, <1>7, <1>10, <1>13, <1>14, <1>15 DEF PurseTypes
<1> QED
  BY <1>8, <1>9, <1>16

\* A protocol fee is owed only with a pool to pay it: by the live rates, and by
\* every order that may still be paid.  Neither survives the pool being unset,
\* which no operation does.
PoolSet ==
  /\ adFees.protocol_bps # 0 => adPool # Nil
  /\ \A o \in Orders :
       adStatus[o] \in Live /\ FeesOf[o].protocol_bps # 0 => adPool # Nil

\* The inductive invariant.
MoneyOK ==
  PurseTypes /\ PoolSet /\ LockedMatchesOrders /\ VaultBacked /\ AdPaidOnce

LEMMA LiveOfTypes ==
  ASSUME NEW a
  PROVE  /\ IsFiniteSet(LiveOf(a)) /\ AmountsOn(LiveOf(a), Amount)
         /\ SumOver(LiveOf(a), Amount) \in Nat
<1>1. LiveOf(a) \subseteq Orders
  BY DEF LiveOf
<1>2. IsFiniteSet(LiveOf(a))
  BY <1>1, FiniteOrders, FS_Subset
<1>3. AmountsOn(LiveOf(a), Amount)
  BY <1>1, AmountTypes DEF AmountsOn
<1> QED
  BY <1>2, <1>3, SumType

\* What is locked is a sum of amounts, so no balance is below zero.
LEMMA LockedTypes ==
  ASSUME FundsOK, LockedMatchesOrders
  PROVE  /\ \A a \in Ads : ad[a] # Nil =>
              ad[a] \in Ad /\ ad[a].locked \in Nat /\ ad[a].balance \in Nat
         /\ AmountsOn(Ads, AdBalance) /\ SumOver(Ads, AdBalance) \in Nat
<1>1. ASSUME NEW a \in Ads, ad[a] # Nil
      PROVE  ad[a] \in Ad /\ ad[a].locked \in Nat /\ ad[a].balance \in Nat
  <2>1. ad[a] \in Ad /\ ad[a].balance \in Int
    BY <1>1 DEF FundsOK, AdFundsTypeOK, Ad
  <2>2. ad[a].locked \in Nat /\ ad[a].locked <= ad[a].balance
    BY <1>1, LiveOfTypes DEF LockedMatchesOrders
  <2> QED
    BY <2>1, <2>2
<1>2. AmountsOn(Ads, AdBalance)
  BY <1>1 DEF AmountsOn, AdBalance
<1> QED
  BY <1>1, <1>2, SumType, FiniteAds

\* One ad rewritten, the sum of the balances changes by that ad's.
LEMMA BalanceChange ==
  ASSUME FundsOK, LockedMatchesOrders, NEW a \in Ads, NEW k \in Ad,
         k.balance \in Nat, ad' = [ad EXCEPT ![a] = k]
  PROVE  SumOver(Ads, AdBalance)' = SumOver(Ads, AdBalance) - AdBalance[a] + k.balance
<1>1. PICK f : f = AdBalance
  OBVIOUS
<1>2. PICK g : g = AdBalance'
  OBVIOUS
<1>3. AmountsOn(Ads, f)
  BY <1>1, LockedTypes
<1>4. k # Nil
  BY AdManagerAssumption
<1>5. ad'[a] = k /\ \A b \in Ads \ {a} : ad'[b] = ad[b]
  BY DEF FundsOK, AdFundsTypeOK
<1>6. g[a] = k.balance /\ \A b \in Ads \ {a} : g[b] = f[b]
  BY <1>1, <1>2, <1>4, <1>5 DEF AdBalance
<1>7. SumOver(Ads, g) = SumOver(Ads, f) - f[a] + g[a]
  BY <1>3, <1>6, FiniteAds, SumChange
<1> QED
  BY <1>1, <1>2, <1>6, <1>7

LEMMA PoolKept ==
  ASSUME PoolSet, UNCHANGED <<adFees, adPool>>,
         \A x \in Orders : adStatus'[x] \in Live => adStatus[x] \in Live
  PROVE  PoolSet'
BY DEF PoolSet

\* An order owes what it owed while it neither is filled nor has its maker
\* forfeit.
LEMMA OwedSame ==
  ASSUME NEW o \in Orders,
         adStatus'[o] = "Filled" <=> adStatus[o] = "Filled",
         Forfeited(o)' <=> Forfeited(o)
  PROVE  NetOf'[o] = NetOf[o] /\ PoolCut'[o] = PoolCut[o]
BY DEF NetOf, PoolCut, LpFee, ProtocolFee

LEMMA PaidSame ==
  ASSUME AdPaidOnce, \A p \in Parties : AdReceived[p]' = AdReceived[p],
         \A o \in Orders : NetOf'[o] = NetOf[o] /\ PoolCut'[o] = PoolCut[o]
  PROVE  AdPaidOnce'
<1>1. AdReceived' = AdReceived
  BY DEF AdReceived
<1>2. NetOf' = NetOf
  BY DEF NetOf
<1>3. PoolCut' = PoolCut
  BY DEF PoolCut
<1>4. \A P : OrdersFor(P)' = OrdersFor(P)
  BY DEF OrdersFor
<1> QED
  BY <1>1, <1>2, <1>3, <1>4 DEF AdPaidOnce

\* A step that moves no token and leaves what every order has locked and owes.
LEMMA MoneyKept ==
  ASSUME MoneyOK, UNCHANGED <<ad, adVault, adCredit, adPaid>>, PoolSet',
         \A o \in Orders :
           /\ adStatus'[o] \in Live <=> adStatus[o] \in Live
           /\ adStatus'[o] = "Filled" <=> adStatus[o] = "Filled"
           /\ Forfeited(o)' <=> Forfeited(o)
  PROVE  MoneyOK'
<1>1. \A a : LiveOf(a)' = LiveOf(a)
  BY DEF LiveOf
<1>2. LockedMatchesOrders'
  BY <1>1 DEF MoneyOK, LockedMatchesOrders
<1>3. AdBalance' = AdBalance
  BY DEF AdBalance
<1>4. VaultBacked'
  BY <1>3 DEF MoneyOK, VaultBacked
<1>5. \A p \in Parties : AdReceived[p]' = AdReceived[p]
  BY DEF AdReceived
<1>6. AdPaidOnce'
  BY <1>5, OwedSame, PaidSame DEF MoneyOK
<1> QED
  BY <1>2, <1>4, <1>6 DEF MoneyOK, PurseTypes

\* One ad rewritten, with what its live orders reserved.
LEMMA LockedRewritten ==
  ASSUME FundsOK, LockedMatchesOrders, NEW a \in Ads, NEW k \in Ad,
         ad' = [ad EXCEPT ![a] = k],
         \A b \in Ads \ {a} : LiveOf(b)' = LiveOf(b),
         k.locked = SumOver(LiveOf(a)', Amount), k.locked <= k.balance
  PROVE  LockedMatchesOrders'
<1>1. ad'[a] = k /\ \A b \in Ads \ {a} : ad'[b] = ad[b]
  BY DEF FundsOK, AdFundsTypeOK
<1>2. ASSUME NEW b \in Ads, ad'[b] # Nil
      PROVE  ad'[b].locked = SumOver(LiveOf(b)', Amount) /\ ad'[b].locked <= ad'[b].balance
  <2>1. CASE b = a
    BY <1>1, <2>1
  <2>2. CASE b # a
    <3>1. ad'[b] = ad[b] /\ LiveOf(b)' = LiveOf(b)
      BY <1>1, <2>2
    <3> QED
      BY <1>2, <3>1 DEF LockedMatchesOrders
  <2> QED
    BY <2>1, <2>2
<1> QED
  BY <1>2 DEF LockedMatchesOrders

LEMMA LockMoney ==
  ASSUME LegTypes, FundsOK, MoneyOK, UNCHANGED adConfig,
         NEW o \in Orders, NEW pin \in SlotIds, LockForOrder(o, pin)
  PROVE  MoneyOK'
<1>1. /\ AdOf[o] \in Ads /\ Amount[o] \in Nat
      /\ ad[AdOf[o]] # Nil /\ Amount[o] <= ad[AdOf[o]].balance - ad[AdOf[o]].locked
      /\ adStatus[o] = "None" /\ adStatus' = [adStatus EXCEPT ![o] = "Open"]
      /\ FeesOf[o] = adFees
  BY AmountTypes DEF LockForOrder, Free
<1>2. /\ ad[AdOf[o]] \in Ad
      /\ ad[AdOf[o]].locked \in Nat /\ ad[AdOf[o]].balance \in Nat
      /\ ad[AdOf[o]].locked = SumOver(LiveOf(AdOf[o]), Amount)
  BY <1>1, LockedTypes DEF MoneyOK, LockedMatchesOrders
<1>3. PICK k : k = [ad[AdOf[o]] EXCEPT !.locked = @ + Amount[o]]
  OBVIOUS
<1>4. /\ k \in Ad /\ k.balance = ad[AdOf[o]].balance
      /\ k.locked = ad[AdOf[o]].locked + Amount[o]
  BY <1>1, <1>2, <1>3 DEF Ad
<1>5. ad' = [ad EXCEPT ![AdOf[o]] = k]
  BY <1>3 DEF LockForOrder
<1>6. /\ adStatus'[o] = "Open"
      /\ \A x \in Orders \ {o} : adStatus'[x] = adStatus[x]
  BY <1>1 DEF LegTypes, AdLegsTypeOK
<1>7. /\ LiveOf(AdOf[o])' = LiveOf(AdOf[o]) \cup {o} /\ o \notin LiveOf(AdOf[o])
      /\ \A b \in Ads \ {AdOf[o]} : LiveOf(b)' = LiveOf(b)
  BY <1>1, <1>6 DEF LiveOf, Live
<1>8. LockedMatchesOrders'
  <2>1. SumOver(LiveOf(AdOf[o])', Amount) = SumOver(LiveOf(AdOf[o]), Amount) + Amount[o]
    <3>1. PICK L : L = LiveOf(AdOf[o])
      OBVIOUS
    <3>2. IsFiniteSet(L) /\ AmountsOn(L, Amount) /\ o \notin L
      BY <1>7, <3>1, LiveOfTypes
    <3>3. SumOver(L \cup {o}, Amount) = SumOver(L, Amount) + Amount[o]
      BY <1>1, <3>2, SumAdd
    <3> QED
      BY <1>7, <3>1, <3>3
  <2>2. k.locked = SumOver(LiveOf(AdOf[o])', Amount) /\ k.locked <= k.balance
    BY <1>1, <1>2, <1>4, <2>1
  <2> QED
    BY <1>1, <1>4, <1>5, <1>7, <2>2, LockedRewritten DEF MoneyOK
<1>9. VaultBacked'
  <2>1. SumOver(Ads, AdBalance)' = SumOver(Ads, AdBalance) - AdBalance[AdOf[o]] + k.balance
    BY <1>1, <1>2, <1>4, <1>5, BalanceChange DEF MoneyOK
  <2>2. AdBalance[AdOf[o]] = k.balance /\ k.balance \in Nat /\ SumOver(Ads, AdBalance) \in Nat
    BY <1>1, <1>2, <1>4, LockedTypes DEF AdBalance, MoneyOK
  <2>3. UNCHANGED <<adVault, adCredit>>
    BY DEF LockForOrder
  <2>4. SumOver(Ads, AdBalance)' = SumOver(Ads, AdBalance)
    BY <2>1, <2>2
  <2> QED
    BY <2>3, <2>4 DEF MoneyOK, VaultBacked
<1>10. AdPaidOnce'
  <2>1. \A p \in Parties : AdReceived[p]' = AdReceived[p]
    BY DEF AdReceived, LockForOrder
  <2>2. \A x \in Orders : /\ adStatus'[x] = "Filled" <=> adStatus[x] = "Filled"
                          /\ Forfeited(x)' <=> Forfeited(x)
    BY <1>1, <1>6 DEF Forfeited, LockForOrder
  <2> QED
    BY <2>1, <2>2, OwedSame, PaidSame DEF MoneyOK
<1>11. PoolSet'
  BY <1>1, <1>6 DEF PoolSet, MoneyOK, adConfig
<1>12. PurseTypes'
  BY DEF LockForOrder, MoneyOK, PurseTypes
<1> QED
  BY <1>8, <1>9, <1>10, <1>11, <1>12 DEF MoneyOK

\* A leg that ends unlocks what it locked.
LEMMA EndLocked ==
  ASSUME LegTypes, FundsOK, LockedMatchesOrders, NEW o \in Orders,
         NEW status \in Terminal, adStatus[o] \in Live, EndLeg(o, status),
         NEW k \in Ad, ad' = [ad EXCEPT ![AdOf[o]] = k],
         k.locked = ad[AdOf[o]].locked - Amount[o], k.locked <= k.balance
  PROVE  LockedMatchesOrders'
<1>1. AdOf[o] \in Ads /\ Amount[o] \in Nat /\ ad[AdOf[o]] # Nil
  BY AmountTypes DEF FundsOK
<1>2. ad[AdOf[o]].locked = SumOver(LiveOf(AdOf[o]), Amount)
  BY <1>1 DEF LockedMatchesOrders
<1>3. /\ adStatus'[o] = status
      /\ \A x \in Orders \ {o} : adStatus'[x] = adStatus[x]
  BY DEF EndLeg, LegTypes, AdLegsTypeOK
<1>4. /\ LiveOf(AdOf[o])' = LiveOf(AdOf[o]) \ {o} /\ o \in LiveOf(AdOf[o])
      /\ \A b \in Ads \ {AdOf[o]} : LiveOf(b)' = LiveOf(b)
  BY <1>1, <1>3 DEF LiveOf, Live, Terminal
<1>5. SumOver(LiveOf(AdOf[o]), Amount) = Amount[o] + SumOver(LiveOf(AdOf[o])', Amount)
      /\ SumOver(LiveOf(AdOf[o])', Amount) \in Nat
  <2>1. PICK L : L = LiveOf(AdOf[o])
    OBVIOUS
  <2>2. IsFiniteSet(L) /\ AmountsOn(L, Amount) /\ o \in L
    BY <1>4, <2>1, LiveOfTypes
  <2>3. /\ SumOver(L, Amount) = Amount[o] + SumOver(L \ {o}, Amount)
        /\ SumOver(L \ {o}, Amount) \in Nat
    BY <2>2, SumSplit
  <2> QED
    BY <1>4, <2>1, <2>3
<1>6. k.locked = SumOver(LiveOf(AdOf[o])', Amount)
  BY <1>1, <1>2, <1>5
<1> QED
  BY <1>1, <1>4, <1>6, LockedRewritten

LEMMA ReturnMoney ==
  ASSUME LegTypes, FundsOK, MoneyOK, UNCHANGED adConfig,
         NEW o \in Orders, NEW status \in Terminal, adStatus[o] \in Live,
         EndLeg(o, status), ReleaseToAd(o), status # "Filled", ~Forfeited(o)',
         \A x \in Orders \ {o} : ruledAs'[x] = ruledAs[x]
  PROVE  MoneyOK'
<1>1. AdOf[o] \in Ads /\ Amount[o] \in Nat /\ ad[AdOf[o]] # Nil
  BY AmountTypes DEF FundsOK
<1>2. /\ ad[AdOf[o]] \in Ad
      /\ ad[AdOf[o]].locked \in Nat /\ ad[AdOf[o]].balance \in Nat
      /\ ad[AdOf[o]].locked <= ad[AdOf[o]].balance
  BY <1>1, LockedTypes DEF MoneyOK, LockedMatchesOrders
<1>3. PICK k : k = [ad[AdOf[o]] EXCEPT !.locked = @ - Amount[o]]
  OBVIOUS
<1>4. /\ k \in Ad /\ k.balance = ad[AdOf[o]].balance
      /\ k.locked = ad[AdOf[o]].locked - Amount[o]
  BY <1>1, <1>2, <1>3 DEF Ad
<1>5. ad' = [ad EXCEPT ![AdOf[o]] = k]
  BY <1>3 DEF ReleaseToAd
<1>6. /\ adStatus'[o] = status
      /\ \A x \in Orders \ {o} : adStatus'[x] = adStatus[x]
  BY DEF EndLeg, LegTypes, AdLegsTypeOK
<1>7. LockedMatchesOrders'
  <2>1. k.locked <= k.balance
    BY <1>1, <1>2, <1>4
  <2> QED
    BY <1>4, <1>5, <2>1, EndLocked DEF MoneyOK
<1>8. VaultBacked'
  <2>1. SumOver(Ads, AdBalance)' = SumOver(Ads, AdBalance) - AdBalance[AdOf[o]] + k.balance
    BY <1>1, <1>2, <1>4, <1>5, BalanceChange DEF MoneyOK
  <2>2. AdBalance[AdOf[o]] = k.balance /\ k.balance \in Nat /\ SumOver(Ads, AdBalance) \in Nat
    BY <1>1, <1>2, <1>4, LockedTypes DEF AdBalance, MoneyOK
  <2>3. UNCHANGED <<adVault, adCredit>>
    BY DEF ReleaseToAd
  <2>4. SumOver(Ads, AdBalance)' = SumOver(Ads, AdBalance)
    BY <2>1, <2>2
  <2> QED
    BY <2>3, <2>4 DEF MoneyOK, VaultBacked
<1>9. AdPaidOnce'
  <2>1. \A p \in Parties : AdReceived[p]' = AdReceived[p]
    BY DEF AdReceived, ReleaseToAd
  <2>2. \A x \in Orders : /\ adStatus'[x] = "Filled" <=> adStatus[x] = "Filled"
                          /\ Forfeited(x)' <=> Forfeited(x)
    BY <1>6 DEF Forfeited, Live
  <2> QED
    BY <2>1, <2>2, OwedSame, PaidSame DEF MoneyOK
<1>10. PoolSet'
  BY <1>6, PoolKept DEF MoneyOK, adConfig, Terminal, Live
<1>11. PurseTypes'
  BY DEF ReleaseToAd, MoneyOK, PurseTypes
<1> QED
  BY <1>7, <1>8, <1>9, <1>10, <1>11 DEF MoneyOK

LEMMA OwedTypes ==
  ASSUME TRUE
  PROVE  AmountsOn(Orders, NetOf) /\ AmountsOn(Orders, PoolCut)
<1>1. ASSUME NEW o \in Orders
      PROVE  NetOf[o] \in Nat /\ PoolCut[o] \in Nat
  <2>1. /\ Amount[o] \in Nat /\ LpFee(o) \in Nat /\ ProtocolFee(o) \in Nat
        /\ LpFee(o) + ProtocolFee(o) <= Amount[o]
    BY AmountTypes, FeesFit
  <2>2. /\ Amount[o] - LpFee(o) - ProtocolFee(o) \in Nat
        /\ Amount[o] - ProtocolFee(o) \in Nat
    BY <2>1
  <2> QED
    BY <2>1, <2>2 DEF NetOf, PoolCut, LpFee
<1> QED
  BY <1>1 DEF AmountsOn

\* One order comes to owe its recipient and the pool, which receive just that.
LEMMA OrderPaid ==
  ASSUME PurseTypes, AdPaidOnce, adPool \in AdPools \cup {Nil},
         NEW o \in Orders, NEW net \in Nat, NEW fee \in Nat, fee # 0 => adPool # Nil,
         NetOf[o] = 0, PoolCut[o] = 0, NetOf'[o] = net, PoolCut'[o] = fee,
         \A x \in Orders \ {o} : NetOf'[x] = NetOf[x] /\ PoolCut'[x] = PoolCut[x],
         \A p \in Parties :
           AdReceived[p]' = AdReceived[p] + (IF p = RecipientOf[o] THEN net ELSE 0)
                              + (IF p = adPool THEN fee ELSE 0)
  PROVE  AdPaidOnce'
<1>1. PICK n : n = NetOf
  OBVIOUS
<1>2. PICK n2 : n2 = NetOf'
  OBVIOUS
<1>3. PICK c : c = PoolCut
  OBVIOUS
<1>4. PICK c2 : c2 = PoolCut'
  OBVIOUS
<1>5. PICK r : r = AdReceived
  OBVIOUS
<1>6. PICK r2 : r2 = AdReceived'
  OBVIOUS
<1>7. PICK q : q = adPool
  OBVIOUS
<1>8. PICK to : to = RecipientOf[o]
  OBVIOUS
<1>9. /\ to \in Parties /\ q \in AdPools \cup {Nil} /\ AdPools \subseteq Parties
      /\ Nil \notin Parties /\ (fee # 0 => q # Nil)
  BY <1>7, <1>8, AdManagerAssumption
<1>10. /\ AmountsOn(Orders, n) /\ AmountsOn(Orders, c)
  BY <1>1, <1>3, OwedTypes
<1>11. Raised(Orders, n, n2, o, net) /\ Raised(Orders, c, c2, o, fee)
  BY <1>1, <1>2, <1>3, <1>4, <1>10 DEF AmountsOn, Raised
<1>12. \A p \in Parties : r[p] \in Nat
  BY <1>5 DEF AdReceived, PurseTypes
<1>13. \A p \in Parties : r2[p] = r[p] + (IF p = to THEN net ELSE 0)
                                       + (IF p = q THEN fee ELSE 0)
  BY <1>5, <1>6, <1>7, <1>8 DEF AdReceived
\* The orders made out to P, for any P.
<1>14. ASSUME NEW P
       PROVE  /\ SumOver(OrdersFor(P), n2) = SumOver(OrdersFor(P), n)
                                              + (IF to \in P THEN net ELSE 0)
              /\ SumOver(OrdersFor(P), n) \in Nat
  <2>1. PICK S : S = OrdersFor(P)
    OBVIOUS
  <2>2. S \subseteq Orders /\ (o \in S <=> to \in P)
    BY <1>8, <2>1 DEF OrdersFor
  <2>3. IsFiniteSet(S) /\ AmountsOn(S, n)
    BY <1>10, <2>2, FiniteOrders, FS_Subset DEF AmountsOn
  <2>4. Raised(S, n, n2, o, net)
    BY <1>11, <2>2 DEF Raised
  <2>5. /\ o \in S => SumOver(S, n2) = SumOver(S, n) + net
        /\ o \notin S => SumOver(S, n2) = SumOver(S, n)
    BY <2>3, <2>4, SumRaised
  <2>6. SumOver(S, n) \in Nat
    BY <2>3, SumType
  <2> QED
    BY <2>1, <2>2, <2>5, <2>6
<1>15. SumOver(Orders, c2) = SumOver(Orders, c) + fee /\ SumOver(Orders, c) \in Nat
  <2>1. SumOver(Orders, c2) = SumOver(Orders, c) + fee
    BY <1>10, <1>11, FiniteOrders, SumRaised
  <2> QED
    BY <1>10, <2>1, FiniteOrders, SumType
<1>16. SumOver(AdPools, r2) = SumOver(AdPools, r)
         + (IF to \in AdPools THEN net ELSE 0) + fee
  <2>1. IsFiniteSet(AdPools) /\ AmountsOn(AdPools, r)
    BY <1>9, <1>12, FiniteParties, FS_Subset DEF AmountsOn
  <2>2. PICK g : g = [p \in Parties |-> r[p] + (IF p = to THEN net ELSE 0)]
    OBVIOUS
  <2>3. AmountsOn(AdPools, g)
    BY <1>9, <1>12, <2>2 DEF AmountsOn
  <2>4. Raised(AdPools, r, g, to, net)
    BY <1>9, <2>2 DEF Raised
  <2>5. /\ to \in AdPools => SumOver(AdPools, g) = SumOver(AdPools, r) + net
        /\ to \notin AdPools => SumOver(AdPools, g) = SumOver(AdPools, r)
    BY <2>1, <2>4, SumRaised
  <2>6. Raised(AdPools, g, r2, q, fee)
    BY <1>9, <1>13, <2>2 DEF Raised
  <2>7. /\ q \in AdPools => SumOver(AdPools, r2) = SumOver(AdPools, g) + fee
        /\ q \notin AdPools => SumOver(AdPools, r2) = SumOver(AdPools, g)
    BY <2>1, <2>3, <2>6, SumRaised
  <2>8. q \notin AdPools => fee = 0
    BY <1>9
  <2>9. SumOver(AdPools, r) \in Nat
    BY <2>1, SumType
  <2> QED
    BY <2>5, <2>7, <2>8, <2>9
<1>17. ASSUME NEW p \in Parties \ AdPools
       PROVE  r2[p] = SumOver(OrdersFor({p}), n2)
  <2>1. r[p] = SumOver(OrdersFor({p}), n)
    BY <1>1, <1>5 DEF AdPaidOnce
  <2>2. r2[p] = r[p] + (IF p = to THEN net ELSE 0)
    BY <1>9, <1>12, <1>13
  <2> QED
    BY <1>14, <2>1, <2>2
<1>18. SumOver(AdPools, r2) = SumOver(OrdersFor(AdPools), n2) + SumOver(Orders, c2)
  <2>1. SumOver(AdPools, r) = SumOver(OrdersFor(AdPools), n) + SumOver(Orders, c)
    BY <1>1, <1>3, <1>5 DEF AdPaidOnce
  <2> QED
    BY <1>14, <1>15, <1>16, <2>1
<1>19. \A P : OrdersFor(P)' = OrdersFor(P)
  BY DEF OrdersFor
<1> QED
  BY <1>2, <1>4, <1>6, <1>17, <1>18, <1>19 DEF AdPaidOnce

\* A payout takes from the ad what the recipient and the pool are owed for it.
LEMMA PayMoney ==
  ASSUME LegTypes, FundsOK, MoneyOK, UNCHANGED adConfig,
         NEW o \in Orders, NEW status \in Terminal, adStatus[o] \in Live,
         EndLeg(o, status), NEW lpFee \in {0, LpFee(o)}, ReleaseToRecipient(o, lpFee),
         NetOf'[o] = Amount[o] - lpFee - ProtocolFee(o), PoolCut'[o] = ProtocolFee(o),
         \A x \in Orders \ {o} : ruledAs'[x] = ruledAs[x]
  PROVE  MoneyOK'
<1>1. /\ AdOf[o] \in Ads /\ RecipientOf[o] \in Parties /\ ad[AdOf[o]] # Nil
      /\ Amount[o] \in Nat /\ lpFee \in Nat /\ ProtocolFee(o) \in Nat
      /\ lpFee + ProtocolFee(o) <= Amount[o]
  BY AmountTypes, FeesFit DEF FundsOK
<1>2. /\ ad[AdOf[o]] \in Ad
      /\ ad[AdOf[o]].locked \in Nat /\ ad[AdOf[o]].balance \in Nat
      /\ ad[AdOf[o]].locked <= ad[AdOf[o]].balance
      /\ ad[AdOf[o]].locked = SumOver(LiveOf(AdOf[o]), Amount)
  BY <1>1, LockedTypes DEF MoneyOK, LockedMatchesOrders
<1>3. Amount[o] <= ad[AdOf[o]].locked
  <2>1. PICK L : L = LiveOf(AdOf[o])
    OBVIOUS
  <2>2. o \in L /\ IsFiniteSet(L) /\ AmountsOn(L, Amount)
    BY <2>1, LiveOfTypes DEF LiveOf
  <2>3. Amount[o] <= SumOver(L, Amount)
    BY <2>2, SumBoundsTerm
  <2> QED
    BY <1>2, <2>1, <2>3
<1>4. PICK j : j = [ad[AdOf[o]] EXCEPT !.locked = @ - Amount[o]]
  OBVIOUS
<1>5. PICK k : k = [j EXCEPT !.balance = @ - LeavesAd(o, lpFee)]
  OBVIOUS
<1>6. /\ j \in Ad /\ j.balance = ad[AdOf[o]].balance
      /\ j.locked = ad[AdOf[o]].locked - Amount[o]
  <2>1. j \in Ad
    BY <1>1, <1>2, <1>4 DEF Ad
  <2>2. j.balance = ad[AdOf[o]].balance
    BY <1>2, <1>4 DEF Ad
  <2>3. j.locked = ad[AdOf[o]].locked - Amount[o]
    BY <1>2, <1>4 DEF Ad
  <2> QED
    BY <2>1, <2>2, <2>3
<1>7. /\ k \in Ad /\ k.locked = ad[AdOf[o]].locked - Amount[o]
      /\ k.balance = ad[AdOf[o]].balance - (Amount[o] - lpFee)
  BY <1>1, <1>2, <1>5, <1>6 DEF Ad, LeavesAd
<1>8. ad' = [ad EXCEPT ![AdOf[o]] = k]
  BY <1>1, <1>4, <1>5 DEF ReleaseToRecipient, FundsOK, AdFundsTypeOK
<1>9. k.balance \in Nat /\ k.locked <= k.balance
  BY <1>1, <1>2, <1>3, <1>7
<1>10. LockedMatchesOrders'
  BY <1>7, <1>8, <1>9, EndLocked DEF MoneyOK
<1>11. PICK net \in Nat : net = Amount[o] - lpFee - ProtocolFee(o)
  BY <1>1
<1>12. adPool \in AdPools \cup {Nil} /\ (ProtocolFee(o) # 0 => adPool # Nil)
  BY NoBpsNoFee DEF MoneyOK, PoolSet, LegTypes, AdConfigTypeOK
<1>13. /\ PurseTypes'
       /\ \A p \in Parties :
            AdReceived[p]' = AdReceived[p] + (IF p = RecipientOf[o] THEN net ELSE 0)
                               + (IF p = adPool THEN ProtocolFee(o) ELSE 0)
       /\ adVault' - SumOver(Parties, adCredit')
            = adVault - SumOver(Parties, adCredit) - net - ProtocolFee(o)
  <2>1. PayNet(RecipientOf[o], net, ProtocolFee(o))
    BY <1>11 DEF ReleaseToRecipient
  <2>2. PICK fee \in Nat : fee = ProtocolFee(o)
    BY <1>1
  <2>3. PICK to \in Parties : to = RecipientOf[o]
    BY <1>1
  <2>4. PurseTypes /\ PayNet(to, net, fee) /\ (fee # 0 => adPool # Nil)
    BY <1>12, <2>1, <2>2, <2>3 DEF MoneyOK
  <2> QED
    BY <1>12, <2>2, <2>3, <2>4, PayNetMoney
<1>14. VaultBacked'
  <2>1. PICK c : c = adCredit'
    OBVIOUS
  <2>2. AmountsOn(Parties, adCredit) /\ AmountsOn(Parties, c)
    BY <1>13, <2>1 DEF MoneyOK, PurseTypes, AmountsOn
  <2>3. SumOver(Parties, adCredit) \in Nat /\ SumOver(Parties, c) \in Nat
    BY <2>2, FiniteParties, SumType
  <2>4. /\ SumOver(Ads, AdBalance)' = SumOver(Ads, AdBalance) - AdBalance[AdOf[o]] + k.balance
        /\ AdBalance[AdOf[o]] = ad[AdOf[o]].balance /\ SumOver(Ads, AdBalance) \in Nat
    BY <1>1, <1>7, <1>8, <1>9, BalanceChange, LockedTypes DEF MoneyOK, AdBalance
  <2>5. adVault = SumOver(Ads, AdBalance) + SumOver(Parties, adCredit)
    BY DEF MoneyOK, VaultBacked
  <2>6. adVault' \in Int
    BY <1>13 DEF PurseTypes
  <2>7. adVault' - SumOver(Parties, c)
          = adVault - SumOver(Parties, adCredit) - net - ProtocolFee(o)
    BY <1>13, <2>1
  <2>8. PICK B \in Nat : B = SumOver(Ads, AdBalance)
    BY <2>4
  <2>9. PICK B2 : B2 = SumOver(Ads, AdBalance)'
    OBVIOUS
  <2>10. B2 = B - (Amount[o] - lpFee)
    <3>1. B2 = B - ad[AdOf[o]].balance + k.balance
      BY <2>4, <2>8, <2>9
    <3> QED
      BY <1>1, <1>2, <1>7, <1>9, <2>8, <3>1
  <2>11. adVault' = B2 + SumOver(Parties, c)
    <3>1. adVault = B + SumOver(Parties, adCredit)
      BY <2>5, <2>8
    <3>2. net + ProtocolFee(o) = Amount[o] - lpFee
      BY <1>1, <1>11
    <3> QED
      BY <1>1, <1>11, <2>3, <2>6, <2>7, <2>8, <2>10, <3>1, <3>2
  <2> QED
    BY <2>1, <2>9, <2>11 DEF VaultBacked
<1>15. /\ adStatus'[o] = status
       /\ \A x \in Orders \ {o} : adStatus'[x] = adStatus[x]
  BY DEF EndLeg, LegTypes, AdLegsTypeOK
<1>16. AdPaidOnce'
  <2>1. NetOf[o] = 0 /\ PoolCut[o] = 0
    BY DEF NetOf, PoolCut, Forfeited, Live
  <2>2. \A x \in Orders \ {o} : NetOf'[x] = NetOf[x] /\ PoolCut'[x] = PoolCut[x]
    BY <1>15, OwedSame DEF Forfeited
  <2>3. PICK fee \in Nat : fee = ProtocolFee(o)
    BY <1>1
  <2>4. NetOf'[o] = net /\ PoolCut'[o] = fee
    BY <1>11, <2>3
  <2>5. /\ fee # 0 => adPool # Nil
        /\ \A p \in Parties :
             AdReceived[p]' = AdReceived[p] + (IF p = RecipientOf[o] THEN net ELSE 0)
                                + (IF p = adPool THEN fee ELSE 0)
    BY <1>12, <1>13, <2>3
  <2> QED
    BY <1>12, <2>1, <2>2, <2>4, <2>5, OrderPaid DEF MoneyOK
<1>17. PoolSet'
  BY <1>15, PoolKept DEF MoneyOK, adConfig, Terminal, Live
<1> QED
  BY <1>10, <1>13, <1>14, <1>16, <1>17 DEF MoneyOK

\* The maker's operations: what its ad gains or loses, the vault does.
LEMMA AdFunded ==
  ASSUME FundsOK, MoneyOK, NEW a \in Ads, NEW k \in Ad, ad' = [ad EXCEPT ![a] = k],
         k.locked = SumOver(LiveOf(a), Amount), k.locked <= k.balance,
         adVault' = adVault - AdBalance[a] + k.balance,
         UNCHANGED <<adCredit, adPaid, adStatus, ruledAs, adFees, adPool>>
  PROVE  MoneyOK'
<1>1. k.balance \in Nat
  BY LiveOfTypes DEF Ad
<1>2. \A b : LiveOf(b)' = LiveOf(b)
  BY DEF LiveOf
<1>3. LockedMatchesOrders'
  BY <1>2, LockedRewritten DEF MoneyOK
<1>4. VaultBacked'
  <2>1. SumOver(Ads, AdBalance)' = SumOver(Ads, AdBalance) - AdBalance[a] + k.balance
    BY <1>1, BalanceChange DEF MoneyOK
  <2>2. AdBalance[a] \in Nat /\ SumOver(Ads, AdBalance) \in Nat
    BY LockedTypes DEF MoneyOK, AmountsOn
  <2>3. AmountsOn(Parties, adCredit)
    BY DEF MoneyOK, PurseTypes, AmountsOn
  <2>4. SumOver(Parties, adCredit) \in Nat
    BY <2>3, FiniteParties, SumType
  <2>5. PICK B \in Nat : B = SumOver(Ads, AdBalance)
    BY <2>2
  <2>6. PICK C \in Nat : C = SumOver(Parties, adCredit)
    BY <2>4
  <2>7. adVault = B + C /\ SumOver(Ads, AdBalance)' = B - AdBalance[a] + k.balance
    BY <2>1, <2>5, <2>6 DEF MoneyOK, VaultBacked
  <2>8. adVault' = SumOver(Ads, AdBalance)' + C
    BY <1>1, <2>2, <2>7
  <2> QED
    BY <2>6, <2>8 DEF VaultBacked
<1>5. AdPaidOnce'
  <2>1. \A p \in Parties : AdReceived[p]' = AdReceived[p]
    BY DEF AdReceived
  <2> QED
    BY <2>1, OwedSame, PaidSame DEF MoneyOK, Forfeited
<1>6. PurseTypes'
  BY <1>1, LockedTypes DEF MoneyOK, PurseTypes, AmountsOn
<1>7. PoolSet'
  BY PoolKept DEF MoneyOK
<1> QED
  BY <1>3, <1>4, <1>5, <1>6, <1>7 DEF MoneyOK

LEMMA MakerMoney ==
  ASSUME FundsOK, MoneyOK, AdMakerNext
  PROVE  MoneyOK'
<1>0. /\ Deposits \subseteq Nat
      /\ UNCHANGED <<adStatus, ruledAs, adFees, adPool>>
  BY AdManagerAssumption DEF AdMakerNext, adLegs, adConfig
<1>1. \A a \in Ads : ad[a] # Nil =>
        /\ ad[a] \in Ad /\ ad[a].locked \in Nat /\ ad[a].balance \in Nat
        /\ ad[a].locked = SumOver(LiveOf(a), Amount)
        /\ ad[a].locked <= ad[a].balance
        /\ AdBalance[a] = ad[a].balance
  BY LockedTypes DEF MoneyOK, LockedMatchesOrders, AdBalance
<1>2. adVault \in Int
  BY DEF MoneyOK, PurseTypes
<1>3. ASSUME NEW a \in Ads, NEW n \in Deposits, NEW s \in Signers, CreateAd(a, n, s)
      PROVE  MoneyOK'
  <2>1. PICK k : k = [balance |-> n, locked |-> 0, open |-> TRUE, signer |-> s]
    OBVIOUS
  <2>2. k \in Ad /\ k.balance = n /\ k.locked = 0 /\ n \in Nat
    BY <1>0, <2>1 DEF Ad
  <2>3. ad' = [ad EXCEPT ![a] = k] /\ ad[a] = Nil
    BY <1>3, <2>1 DEF CreateAd
  <2>4. SumOver(LiveOf(a), Amount) = 0 /\ AdBalance[a] = 0
    <3>1. LiveOf(a) = {}
      BY <2>3 DEF FundsOK, LiveOf
    <3> QED
      BY <2>3, <3>1, SumEmpty DEF AdBalance
  <2>5. /\ adVault' = adVault - AdBalance[a] + k.balance
        /\ UNCHANGED <<adCredit, adPaid>>
    BY <1>2, <1>3, <2>2, <2>4 DEF CreateAd
  <2>6. k.locked = SumOver(LiveOf(a), Amount) /\ k.locked <= k.balance
    BY <2>2, <2>4
  <2> QED
    BY <1>0, <2>2, <2>3, <2>5, <2>6, AdFunded
<1>4. ASSUME NEW a \in Ads, NEW n \in Deposits, FundAd(a, n)
      PROVE  MoneyOK'
  <2>0. ad[a] # Nil /\ n \in Nat
    BY <1>0, <1>4 DEF FundAd
  <2>1. PICK k : k = [ad[a] EXCEPT !.balance = @ + n]
    OBVIOUS
  <2>2. k \in Ad /\ k.balance = ad[a].balance + n /\ k.locked = ad[a].locked
    BY <1>1, <2>0, <2>1 DEF Ad
  <2>3. ad' = [ad EXCEPT ![a] = k]
    BY <1>4, <2>1 DEF FundAd
  <2>4. /\ adVault' = adVault - AdBalance[a] + k.balance
        /\ UNCHANGED <<adCredit, adPaid>>
    BY <1>1, <1>2, <1>4, <2>0, <2>2 DEF FundAd
  <2>5. k.locked = SumOver(LiveOf(a), Amount) /\ k.locked <= k.balance
    BY <1>1, <2>0, <2>2
  <2> QED
    BY <1>0, <2>2, <2>3, <2>4, <2>5, AdFunded
<1>5. ASSUME NEW a \in Ads, NEW n \in Deposits, WithdrawFromAd(a, n)
      PROVE  MoneyOK'
  <2>0. ad[a] # Nil /\ n \in Nat /\ n <= ad[a].balance - ad[a].locked
    BY <1>0, <1>5 DEF WithdrawFromAd, Free
  <2>1. PICK k : k = [ad[a] EXCEPT !.balance = @ - n]
    OBVIOUS
  <2>2. k \in Ad /\ k.balance = ad[a].balance - n /\ k.locked = ad[a].locked
    BY <1>1, <2>0, <2>1 DEF Ad
  <2>3. ad' = [ad EXCEPT ![a] = k]
    BY <1>5, <2>1 DEF WithdrawFromAd
  <2>4. /\ adVault' = adVault - AdBalance[a] + k.balance
        /\ UNCHANGED <<adCredit, adPaid>>
    BY <1>1, <1>2, <1>5, <2>0, <2>2 DEF WithdrawFromAd
  <2>5. k.locked = SumOver(LiveOf(a), Amount) /\ k.locked <= k.balance
    BY <1>1, <2>0, <2>2
  <2> QED
    BY <1>0, <2>2, <2>3, <2>4, <2>5, AdFunded
<1>6. ASSUME NEW a \in Ads, CloseAd(a)
      PROVE  MoneyOK'
  <2>0. ad[a] # Nil /\ ad[a].locked = 0
    BY <1>6 DEF CloseAd
  <2>1. PICK j : j = [ad[a] EXCEPT !.balance = 0]
    OBVIOUS
  <2>2. PICK k : k = [j EXCEPT !.open = FALSE]
    OBVIOUS
  <2>3. j \in Ad /\ j.balance = 0 /\ j.locked = ad[a].locked
    BY <1>1, <2>0, <2>1 DEF Ad
  <2>4. k \in Ad /\ k.balance = 0 /\ k.locked = ad[a].locked
    BY <2>2, <2>3 DEF Ad
  <2>5. ad' = [ad EXCEPT ![a] = k]
    BY <1>6, <2>1, <2>2 DEF CloseAd, FundsOK, AdFundsTypeOK
  <2>6. /\ adVault' = adVault - AdBalance[a] + k.balance
        /\ UNCHANGED <<adCredit, adPaid>>
    BY <1>1, <1>2, <1>6, <2>0, <2>4 DEF CloseAd
  <2>7. k.locked = SumOver(LiveOf(a), Amount) /\ k.locked <= k.balance
    BY <1>1, <2>0, <2>4
  <2> QED
    BY <1>0, <2>4, <2>5, <2>6, <2>7, AdFunded
<1>7. ASSUME NEW a \in Ads, NEW s \in Signers, SetSettlementSigner(a, s)
      PROVE  MoneyOK'
  <2>0. ad[a] # Nil
    BY <1>7 DEF SetSettlementSigner
  <2>1. PICK k : k = [ad[a] EXCEPT !.signer = s]
    OBVIOUS
  <2>2. k \in Ad /\ k.balance = ad[a].balance /\ k.locked = ad[a].locked
    BY <1>1, <2>0, <2>1 DEF Ad
  <2>3. ad' = [ad EXCEPT ![a] = k]
    BY <1>7, <2>1 DEF SetSettlementSigner
  <2>4. /\ adVault' = adVault - AdBalance[a] + k.balance
        /\ UNCHANGED <<adCredit, adPaid>>
    BY <1>1, <1>2, <1>7, <2>0, <2>2 DEF SetSettlementSigner
  <2>5. k.locked = SumOver(LiveOf(a), Amount) /\ k.locked <= k.balance
    BY <1>1, <2>0, <2>2
  <2> QED
    BY <1>0, <2>2, <2>3, <2>4, <2>5, AdFunded
<1> QED
  BY <1>3, <1>4, <1>5, <1>6, <1>7 DEF AdMakerNext

\* claim: a credit is paid out, and no longer owed.
LEMMA ClaimMoney ==
  ASSUME FundsOK, MoneyOK, AdClaimNext
  PROVE  MoneyOK'
<1>1. PICK p \in Parties : ClaimPayout(p)
  BY DEF AdClaimNext
<1>2. /\ adPaid' = [adPaid EXCEPT ![p] = @ + adCredit[p]]
      /\ adCredit' = [adCredit EXCEPT ![p] = 0]
      /\ adVault' = adVault - adCredit[p]
      /\ UNCHANGED <<ad, adStatus, ruledAs, adFees, adPool>>
  BY <1>1 DEF ClaimPayout, AdClaimNext, adLegs, adConfig
<1>3. PurseTypes /\ adCredit[p] \in Nat /\ adPaid[p] \in Nat
  BY DEF MoneyOK, PurseTypes
<1>4. PurseTypes'
  BY <1>2, <1>3 DEF PurseTypes
<1>5. LockedMatchesOrders' /\ UNCHANGED AdBalance
  <2>1. \A b : LiveOf(b)' = LiveOf(b)
    BY <1>2 DEF LiveOf
  <2> QED
    BY <1>2, <2>1 DEF MoneyOK, LockedMatchesOrders, AdBalance
<1>6. VaultBacked'
  <2>1. PICK c : c = adCredit'
    OBVIOUS
  <2>2. PICK e : e = adCredit
    OBVIOUS
  <2>3. c[p] \in Nat /\ c[p] = 0 /\ \A q \in Parties \ {p} : c[q] = e[q]
    BY <1>2, <1>3, <2>1, <2>2 DEF PurseTypes
  <2>4. AmountsOn(Parties, e)
    BY <1>3, <2>2 DEF PurseTypes, AmountsOn
  <2>5. SumOver(Parties, c) = SumOver(Parties, e) - e[p] + c[p]
    BY <2>3, <2>4, FiniteParties, SumChange
  <2>6. SumOver(Parties, adCredit) \in Nat
    BY <2>2, <2>4, FiniteParties, SumType
  <2>7. PICK B : B = SumOver(Ads, AdBalance)
    OBVIOUS
  <2>8. adVault = B + SumOver(Parties, adCredit) /\ B = SumOver(Ads, AdBalance)'
    BY <1>5, <2>7 DEF MoneyOK, VaultBacked
  <2>9. B \in Int
    BY <2>7, LockedTypes DEF MoneyOK
  <2>10. adVault' = B + SumOver(Parties, c)
    BY <1>2, <1>3, <2>2, <2>3, <2>5, <2>6, <2>8, <2>9
  <2> QED
    BY <2>1, <2>8, <2>10 DEF VaultBacked
<1>7. AdPaidOnce'
  <2>1. \A q \in Parties : AdReceived[q]' = AdReceived[q]
    BY <1>2, <1>3 DEF AdReceived, PurseTypes
  <2> QED
    BY <1>2, <2>1, OwedSame, PaidSame DEF MoneyOK, Forfeited
<1>8. PoolSet'
  BY <1>2, PoolKept DEF MoneyOK
<1> QED
  BY <1>4, <1>5, <1>6, <1>7, <1>8 DEF MoneyOK

\* The admin moves no token, and never leaves a protocol fee without a pool.
LEMMA AdminMoney ==
  ASSUME MoneyOK, AdAdminNext
  PROVE  MoneyOK'
<1>1. UNCHANGED <<ad, adVault, adCredit, adPaid, adStatus, ruledAs>>
  BY DEF AdAdminNext, adFunds, adLegs
<1>2. PoolSet'
  <2>1. ASSUME NEW f \in FeeChoices, SetFeeBps(f) PROVE PoolSet'
    BY <1>1, <2>1 DEF SetFeeBps, MoneyOK, PoolSet
  <2>2. ASSUME NEW p \in AdPools, SetAdPool(p) PROVE PoolSet'
    BY <1>1, <2>2, AdManagerAssumption DEF SetAdPool, MoneyOK, PoolSet
  <2>3. CASE UNCHANGED <<adFees, adPool>>
    BY <1>1, <2>3, PoolKept DEF MoneyOK
  <2> QED
    BY <2>1, <2>2, <2>3
    DEF AdAdminNext, AdPause, SetRouteTiming, SetChain, SetTokenRoute,
        SetDisputeManager, SetKeyRegistry, SetRootVerifier, SetAnchorDelay
<1> QED
  BY <1>1, <1>2, MoneyKept DEF Forfeited

\* A step that leaves the orders and the money alone.
LEMMA AdMoneyStays ==
  ASSUME MoneyOK,
         UNCHANGED <<ad, adVault, adCredit, adPaid, adStatus, ruledAs, adFees, adPool>>
  PROVE  MoneyOK'
<1>1. PoolSet'
  BY PoolKept DEF MoneyOK
<1> QED
  BY <1>1, MoneyKept DEF Forfeited

\* A step that moves one leg, neither in nor out of Live or Filled.
LEMMA MoneyMove ==
  ASSUME LegTypes, MoneyOK, NEW o \in Orders, NEW status,
         UNCHANGED <<ad, adVault, adCredit, adPaid, ruledAs, adFees, adPool>>,
         adStatus' = [adStatus EXCEPT ![o] = status],
         status \in Live <=> adStatus[o] \in Live,
         status \notin {"Filled", "Resolved"}, adStatus[o] \notin {"Filled", "Resolved"}
  PROVE  MoneyOK'
<1>1. \A x \in Orders : /\ adStatus'[x] \in Live <=> adStatus[x] \in Live
                        /\ adStatus'[x] = "Filled" <=> adStatus[x] = "Filled"
                        /\ adStatus'[x] = "Resolved" <=> adStatus[x] = "Resolved"
  BY DEF LegTypes, AdLegsTypeOK
<1>2. PoolSet'
  BY <1>1, PoolKept DEF MoneyOK
<1> QED
  BY <1>1, <1>2, MoneyKept DEF Forfeited

\* unlock and present_settled
LEMMA FilledMoney ==
  ASSUME LegTypes, FundsOK, MoneyOK, UNCHANGED <<adConfig, ruledAs>>,
         NEW o \in Orders, adStatus[o] \in Live, EndLeg(o, "Filled"),
         ReleaseToRecipient(o, LpFee(o))
  PROVE  MoneyOK'
<1>1. adStatus'[o] = "Filled"
  BY DEF EndLeg, LegTypes, AdLegsTypeOK
<1>2. /\ NetOf'[o] = Amount[o] - LpFee(o) - ProtocolFee(o)
      /\ PoolCut'[o] = ProtocolFee(o)
  BY <1>1 DEF NetOf, PoolCut, LpFee, ProtocolFee
<1> QED
  BY <1>2, PayMoney DEF Terminal

LEMMA FinalizeDisputeMoney ==
  ASSUME LegTypes, FundsOK, MoneyOK, UNCHANGED adConfig,
         NEW o \in Orders, FinalizeDispute(o)
  PROVE  MoneyOK'
<1>1. PICK outcome : outcome = SettledOutcome(orderModule[o], o)
  OBVIOUS
<1>2. /\ adStatus[o] \in Live /\ EndLeg(o, "Resolved")
      /\ ruledAs' = [ruledAs EXCEPT ![o] = outcome]
      /\ IF outcome = "MakerForfeit" THEN ReleaseToRecipient(o, 0) ELSE ReleaseToAd(o)
  BY <1>1 DEF FinalizeDispute, Live
<1>3. /\ adStatus'[o] = "Resolved" /\ ruledAs'[o] = outcome
      /\ \A x \in Orders \ {o} : ruledAs'[x] = ruledAs[x]
  BY <1>2 DEF EndLeg, LegTypes, AdLegsTypeOK
<1>4. CASE outcome = "MakerForfeit"
  <2>1. NetOf'[o] = Amount[o] - 0 - ProtocolFee(o) /\ PoolCut'[o] = ProtocolFee(o)
    <3>1. NetOf'[o] = Amount[o] - ProtocolFee(o) /\ PoolCut'[o] = ProtocolFee(o)
      BY <1>3, <1>4 DEF NetOf, PoolCut, Forfeited, LpFee, ProtocolFee
    <3> QED
      BY <3>1, AmountTypes
  <2> QED
    BY <1>2, <1>3, <1>4, <2>1, PayMoney DEF Terminal
<1>5. CASE outcome # "MakerForfeit"
  <2>1. ~Forfeited(o)'
    BY <1>3, <1>5 DEF Forfeited
  <2> QED
    BY <1>2, <1>3, <1>5, <2>1, ReturnMoney DEF Terminal
<1> QED
  BY <1>4, <1>5

LEMMA MoneyStep ==
  ASSUME LegInv, FundsOK, MoneyOK, [AdNext]_adChainVars
  PROVE  MoneyOK'
<1>0. LegTypes
  BY DEF LegInv
<1>1. CASE UNCHANGED <<adStatus, adFunds, ruledAs, adFees, adPool>>
  BY <1>1, AdMoneyStays DEF adFunds
<1>2. CASE AdOrderNext
  <2>0. UNCHANGED adConfig /\ UNCHANGED <<adFees, adPool>>
    BY <1>2 DEF AdOrderNext, adConfig
  <2>1. ASSUME NEW o \in Orders, NEW pin \in SlotIds, LockForOrder(o, pin)
        PROVE  MoneyOK'
    BY <1>0, <2>0, <2>1, LockMoney
  <2>2. ASSUME NEW o \in Orders, PresentSettled(o)
        PROVE  MoneyOK'
    BY <1>0, <2>0, <2>2, FilledMoney DEF PresentSettled, AdPresentable
  <2>3. ASSUME NEW o \in Orders, RecordSettled(o) \/ RepinOrder(o)
        PROVE  MoneyOK'
    BY <1>1, <2>0, <2>3 DEF RecordSettled, RepinOrder, adLegs
  <2>4. ASSUME NEW o \in Orders, ClaimCancel(o)
        PROVE  MoneyOK'
    BY <1>0, <2>0, <2>4, MoneyMove DEF ClaimCancel, Live, adFunds
  <2>5. ASSUME NEW o \in Orders, FinalizeCancel(o)
        PROVE  MoneyOK'
    <3>1. ~Forfeited(o)'
      BY <1>0, <2>5 DEF FinalizeCancel, EndLeg, Forfeited, LegTypes, AdLegsTypeOK
    <3> QED
      BY <1>0, <2>0, <2>5, <3>1, ReturnMoney DEF FinalizeCancel, Terminal, Live
  <2>6. ASSUME NEW o \in Orders, CancelNeverLocked(o)
        PROVE  MoneyOK'
    BY <1>0, <2>0, <2>6, MoneyMove DEF CancelNeverLocked, Live, adFunds
  <2>7. ASSUME NEW o \in Orders, NEW p \in Parties, Dispute(o, p)
        PROVE  MoneyOK'
    BY <1>0, <2>0, <2>7, MoneyMove DEF Dispute, Live, adFunds
  <2>8. ASSUME NEW o \in Orders, NEW p \in Parties, RespondToDispute(o, p)
        PROVE  MoneyOK'
    BY <1>1, <2>0, <2>8 DEF RespondToDispute, adLegs
  <2>9. ASSUME NEW o \in Orders, FinalizeDispute(o)
        PROVE  MoneyOK'
    BY <1>0, <2>0, <2>9, FinalizeDisputeMoney
  <2> QED
    BY <1>2, <2>1, <2>2, <2>3, <2>4, <2>5, <2>6, <2>7, <2>8, <2>9 DEF AdOrderNext
<1>3. ASSUME NEW o \in Orders, AdUnlockNext(o)
      PROVE  MoneyOK'
  BY <1>0, <1>3, FilledMoney DEF AdUnlockNext, Unlock, AdPresentable
<1>4. CASE AdAnchorNext \/ AdHaltNext
  BY <1>1, <1>4
  DEF AdAnchorNext, AdHaltNext, SetRootAnchor, adLegs, adConfig
<1>5. CASE AdRegistryNext \/ AdModuleNext \/ AdTickNext \/ UNCHANGED adChainVars
  BY <1>1, <1>5
  DEF AdRegistryNext, AdModuleNext, AdTickNext, adChainVars, adVars, adLegs, adConfig
<1>6. ASSUME NEW leaf \in OrderChainLeaves, AdAnchorLeafNext(leaf)
      PROVE  MoneyOK'
  BY <1>1, <1>6 DEF AdAnchorLeafNext, adLegs, adConfig
<1> QED
  BY <1>2, <1>3, <1>4, <1>5, <1>6, AdminMoney, MakerMoney, ClaimMoney
  DEF AdNext, AdLocalNext

LEMMA MoneyInit ==
  ASSUME AdInit
  PROVE  MoneyOK
<1>1. /\ ad = [a \in Ads |-> Nil] /\ adVault = 0
      /\ adCredit = [p \in Parties |-> 0] /\ adPaid = [p \in Parties |-> 0]
      /\ adStatus = [o \in Orders |-> "None"]
      /\ adFees.protocol_bps # 0 => adPool # Nil
  BY DEF AdInit, AdManagerInit
<1>2. PurseTypes /\ PoolSet /\ LockedMatchesOrders
  BY <1>1 DEF PurseTypes, PoolSet, LockedMatchesOrders, Live
<1>3. VaultBacked
  <2>1. SumOver(Ads, AdBalance) = 0
    BY <1>1, FiniteAds, SumZero DEF AdBalance
  <2>2. SumOver(Parties, adCredit) = 0
    BY <1>1, FiniteParties, SumZero
  <2> QED
    BY <1>1, <2>1, <2>2 DEF VaultBacked
<1>4. AdPaidOnce
  <2>1. \A o \in Orders : NetOf[o] = 0 /\ PoolCut[o] = 0
    BY <1>1 DEF NetOf, PoolCut, Forfeited
  <2>2. \A p \in Parties : AdReceived[p] = 0
    BY <1>1 DEF AdReceived
  <2>3. \A P : OrdersFor(P) \subseteq Orders /\ IsFiniteSet(OrdersFor(P))
    BY FiniteOrders, FS_Subset DEF OrdersFor
  <2>4. \A P : SumOver(OrdersFor(P), NetOf) = 0
    BY <2>1, <2>3, SumZero
  <2>5. SumOver(Orders, PoolCut) = 0
    BY <2>1, FiniteOrders, SumZero
  <2>6. SumOver(AdPools, AdReceived) = 0
    BY <2>2, AdManagerAssumption, FiniteParties, FS_Subset, SumZero
  <2> QED
    BY <2>2, <2>4, <2>5, <2>6 DEF AdPaidOnce
<1> QED
  BY <1>2, <1>3, <1>4 DEF MoneyOK

LEMMA MoneyInvariant == AdSpec => []MoneyOK
<1>1. AdSpec => []FundsOK
  BY FundsInit, FundsStep, LegInvariant, PTL DEF AdSpec
<1> QED
  BY <1>1, MoneyInit, MoneyStep, LegInvariant, PTL DEF AdSpec

\* What an ad has locked is what its live orders reserved, and it holds as much:
\* the maker cannot withdraw, nor another order draw, what an order was promised.
THEOREM LocksAreBacked == AdSpec => []LockedMatchesOrders
<1>1. MoneyOK => LockedMatchesOrders
  BY DEF MoneyOK
<1> QED
  BY <1>1, MoneyInvariant, PTL

\* The vault holds the ads' balances and the credits owed, to the unit, through
\* fees, failed transfers, forfeits and changes of pool.
THEOREM AdVaultIsBacked == AdSpec => []VaultBacked
<1>1. MoneyOK => VaultBacked
  BY DEF MoneyOK
<1> QED
  BY <1>1, MoneyInvariant, PTL

\* Every recipient receives exactly what its orders owe it, and the pools their
\* fees, by whichever exit and whether or not a transfer failed.
THEOREM PayoutsArePaidOnce == AdSpec => []AdPaidOnce
<1>1. MoneyOK => AdPaidOnce
  BY DEF MoneyOK
<1> QED
  BY <1>1, MoneyInvariant, PTL

-----------------------------------------------------------------------------
(* The dispute modules under this escrow's calls: an order's bond is settled *)
(* in the module it was filed with, or not at all.                           *)

LEMMA OwnSettleBonds ==
  ASSUME LegInv, LegInv', BondsCovered, NEW o \in Orders, NEW m \in Modules,
         NEW outcome, NEW b, NEW f, SettleBond(m, ThisEscrow, o, outcome, b, f)
  PROVE  BondsCovered'
BY SettleBondBonds, AdManagerAssumption
   DEF LegInv, LegTypes, DisputeStateOK

LEMMA CloseDisputeBonds ==
  ASSUME LegInv, LegInv', BondsCovered, NEW o \in Orders, NEW outcome,
         CloseDispute(o, outcome)
  PROVE  BondsCovered'
<1>1. CASE orderModule[o] # Nil /\ Disputed(orderModule[o], o)
  <2>1. orderModule[o] \in Modules
    BY <1>1 DEF LegInv, LegTypes, AdLegsTypeOK
  <2>2. PICK b, f : SettleBond(orderModule[o], ThisEscrow, o, outcome, b, f)
    BY <1>1 DEF CloseDispute
  <2> QED
    BY <2>1, <2>2, OwnSettleBonds
<1>2. CASE ~(orderModule[o] # Nil /\ Disputed(orderModule[o], o))
  BY <1>2, BondsStay DEF CloseDispute, dmVars, BondIn, Disputed
<1> QED
  BY <1>1, <1>2

LEMMA DisputeBonds ==
  ASSUME LegInv, LegInv', BondsCovered, NEW o \in Orders, NEW p \in Parties,
         Dispute(o, p)
  PROVE  BondsCovered'
<1>1. LegTypes /\ adStatus[o] \in Live /\ disputeManager \in Modules
  BY DEF LegInv, LegTypes, AdConfigTypeOK, Dispute, Live
<1>2. OrderTiming(o).buffer \in Nat /\ Deadline[o] \in Nat /\ Amount[o] \in Nat
  BY <1>1, LiveTiming, CoreAssumption DEF LegInv, LegOK, ClockOK
<1>3. OpenDispute(disputeManager, ThisEscrow, o, p, Deadline[o],
                  OrderTiming(o).buffer, Amount[o])
  BY DEF Dispute
<1>4. /\ DisputeStateOK /\ AdLedgerTypeOK /\ DisputeManagerTypeOK'
      /\ ThisEscrow \in Escrows
  BY AdManagerAssumption DEF LegInv, LegTypes, DisputeStateOK
<1> QED
  BY <1>1, <1>2, <1>3, <1>4, OpenDisputeBonds

LEMMA RespondBonds ==
  ASSUME LegInv, LegInv', BondsCovered, NEW o \in Orders, NEW p \in Parties,
         RespondToDispute(o, p)
  PROVE  BondsCovered'
<1>1. orderModule[o] \in Modules
  BY DEF RespondToDispute, LegInv, LegOK, RecordOK, LegTypes, AdLegsTypeOK
<1> QED
  BY <1>1, RecordResponseBonds, AdManagerAssumption
  DEF RespondToDispute, LegInv, LegTypes

LEMMA FinalizeDisputeBonds ==
  ASSUME LegInv, LegInv', BondsCovered, NEW o \in Orders, FinalizeDispute(o)
  PROVE  BondsCovered'
<1>1. orderModule[o] \in Modules
  BY DEF FinalizeDispute, LegInv, LegOK, RecordOK, LegTypes, AdLegsTypeOK
<1>2. PICK outcome, b, f : SettleBond(orderModule[o], ThisEscrow, o, outcome, b, f)
  BY DEF FinalizeDispute
<1> QED
  BY <1>1, <1>2, OwnSettleBonds

LEMMA AdBondsStep ==
  ASSUME LegInv, LegInv', BondsCovered, [AdNext]_adChainVars
  PROVE  BondsCovered'
<1>1. CASE UNCHANGED dmVars
  BY <1>1, BondsStay DEF dmVars, BondIn, Disputed
<1>2. CASE AdOrderNext
  <2>1. ASSUME NEW o \in Orders,
               \/ \E pin \in SlotIds : LockForOrder(o, pin)
               \/ RecordSettled(o) \/ ClaimCancel(o)
               \/ FinalizeCancel(o) \/ CancelNeverLocked(o) \/ RepinOrder(o)
        PROVE  BondsCovered'
    BY <1>1, <2>1 DEF LockForOrder, RecordSettled, ClaimCancel, FinalizeCancel,
                      CancelNeverLocked, RepinOrder
  <2>2. ASSUME NEW o \in Orders, PresentSettled(o)
        PROVE  BondsCovered'
    BY <2>2, CloseDisputeBonds DEF PresentSettled
  <2> QED
    BY <1>2, <2>1, <2>2, DisputeBonds, RespondBonds, FinalizeDisputeBonds
    DEF AdOrderNext
<1>3. ASSUME NEW o \in Orders, AdUnlockNext(o)
      PROVE  BondsCovered'
  BY <1>3, CloseDisputeBonds DEF AdUnlockNext, Unlock
<1>4. CASE AdModuleNext
  BY <1>4, AdminBonds, PublicBonds
  DEF AdModuleNext, LegInv, LegTypes, DisputeStateOK
<1>5. CASE AdAdminNext \/ AdAnchorNext \/ AdMakerNext \/ AdHaltNext \/ AdRegistryNext
  BY <1>1, <1>5 DEF AdAdminNext, AdAnchorNext, AdMakerNext, AdHaltNext, AdRegistryNext
<1>6. CASE AdClaimNext \/ AdTickNext \/ UNCHANGED adChainVars
  BY <1>1, <1>6 DEF AdClaimNext, ClaimPayout, AdTickNext, adChainVars
<1>7. ASSUME NEW leaf \in OrderChainLeaves, AdAnchorLeafNext(leaf)
      PROVE  BondsCovered'
  BY <1>1, <1>7 DEF AdAnchorLeafNext
<1> QED
  BY <1>2, <1>3, <1>4, <1>5, <1>6, <1>7 DEF AdNext, AdLocalNext

\* Whatever this escrow files, answers and settles, and wherever the admin
\* points it while disputes are open (set_dispute_manager), each module holds
\* exactly the bonds of its open disputes and what it owes.
THEOREM EscrowKeepsBondsCovered == AdSpec => []BondsCovered
<1>1. AdInit => BondsCovered
  BY BondsInit DEF AdInit
<1>2. LegInv /\ LegInv' /\ BondsCovered /\ [AdNext]_adChainVars => BondsCovered'
  BY AdBondsStep
<1> QED
  BY <1>1, <1>2, LegInvariant, PTL DEF AdSpec
=============================================================================
