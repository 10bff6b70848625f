--------------------------- MODULE AdDenialProofs ---------------------------
(***************************************************************************)
(* No refusal is missed, proved for any number of orders, keys, registries *)
(* and timings.  co_sign_denied reads stamps: the halt's, the verifier's,  *)
(* the re-pin's, and the expiry of the pinned slot, which lives in another *)
(* contract and is pruned there.  The proof is that each refusal leaves a  *)
(* mark (Denied) that no later step of anybody removes while the order is  *)
(* live, except by outliving it: a slot is pruned only so late that the    *)
(* grace it would have earned is over (GRACE_PERIOD).                      *)
(***************************************************************************)
EXTENDS AdDenial, AdManagerProofs

\* The slot an order pinned, in the registry it was locked under.
PinnedSlot(o) == slot[adOrder[o].registry][SignerOf[o]][adOrder[o].pinned_slot]

PastGrace(o) == adNow > adOrder[o].locked_at + GracePeriod

\* A slot's two dates agree, and the second is never later than both the first
\* and now; an id once given is never given again.
SlotOK(r, s, i) ==
  slot[r][s][i] # Nil =>
    /\ i < nextSlot[r][s]
    /\ slot[r][s][i].valid_until = 0 <=> slot[r][s][i].expired_at = 0
    /\ slot[r][s][i].valid_until <= slot[r][s][i].expired_at
    /\ slot[r][s][i].expired_at <= Later(slot[r][s][i].valid_until, adNow)

SlotsOK ==
  \A r \in Registries, s \in Signers, i \in SlotIds : SlotOK(r, s, i)

\* The pinned slot is there, and did not stop before the order's lock.
PinHeld(o) ==
  /\ PinnedSlot(o) # Nil
  /\ PinnedSlot(o).expired_at # 0 => PinnedSlot(o).expired_at >= adOrder[o].locked_at

\* What a live order was stamped with.
StampOK(o) ==
  adStatus[o] \in Live =>
    /\ adOrder[o].registry \in Registries
    /\ adOrder[o].locked_at <= adNow
    /\ Deadline[o] <= adOrder[o].locked_at + MaxOrderWindow
    /\ adOrder[o].anchor_delay \in Delays
    /\ PinHeld(o) \/ PastGrace(o)

\* The mark a refusal leaves: the denial rule finds it, or the grace is over.
Denied(o) ==
  \/ PastGrace(o)
  \/ adOrder[o].repinned
  \/ adOrder[o].locked_at < adNow /\ CoSignDenied(o, PresentationCutoff(o))

\* The lock was handed back over the refusal.
HandedBack(o) ==
  \/ adStatus[o] = "Cancelled"
  \/ adStatus[o] = "Resolved" /\ ruledAs[o] # "MakerForfeit"

RefusalOK(o) ==
  /\ adStatus[o] # "None" /\ adOrder[o].timing_version # 0
  /\ adStatus[o] \in Live => Denied(o)
  /\ HandedBack(o) => adNow >= GraceEnd(o)

\* The inductive invariant.
DenialInv ==
  /\ LegInv /\ CountsOK
  /\ anchorDelay \in Delays
  /\ SlotsOK /\ \A o \in Orders : StampOK(o)
  /\ refused \subseteq Orders
  /\ \A o \in refused : RefusalOK(o)

-----------------------------------------------------------------------------
(* The clocks of a stamped order *)

LEMMA BufferBound ==
  ASSUME NEW v \in Versions, v # 0
  PROVE  /\ Timings[v].buffer \in Nat /\ Timings[v].margin \in Nat
         /\ Timings[v].buffer <= MaxBuffer
<1>1. v \in 1..Len(Timings)
  BY CoreAssumption DEF Versions
<1>2. ValidTiming(Timings[v])
  BY <1>1, CoreAssumption
<1> QED
  BY <1>2, TimingType DEF ValidTiming

\* Past the grace of the pinned slot, the grace of the refused payout is over,
\* and the presentation window was over before.
LEMMA GraceCovered ==
  ASSUME LegTypes, NEW o \in Orders, adOrder[o].timing_version # 0,
         adOrder[o].anchor_delay \in Delays,
         Deadline[o] <= adOrder[o].locked_at + MaxOrderWindow
  PROVE  /\ GraceEnd(o) \in Nat
         /\ PastGrace(o) => adNow >= GraceEnd(o) /\ adNow > FixedEnd(o)
<1>1. /\ adOrder[o].timing_version \in Versions /\ adOrder[o].locked_at \in Nat
      /\ adNow \in Nat
  BY DEF LegTypes, AdLegsTypeOK, OrderRecord, AdLedgerTypeOK
<1>2. OrderTiming(o).buffer \in Nat /\ OrderTiming(o).buffer <= MaxBuffer
  BY <1>1, BufferBound DEF OrderTiming
<1>3. /\ GracePeriod >= MaxOrderWindow + 2 * MaxBuffer + adOrder[o].anchor_delay
      /\ adOrder[o].anchor_delay \in Nat
  BY AdDenialAssumption, AdManagerAssumption
<1>4. /\ GracePeriod \in Nat /\ MaxOrderWindow \in Nat /\ MaxBuffer \in Nat
      /\ Deadline[o] \in Nat
  BY CoreAssumption, BLSKeyRegistryAssumption
<1> QED
  BY <1>1, <1>2, <1>3, <1>4 DEF GraceEnd, FixedEnd, PastGrace

LEMMA GraceTypes ==
  ASSUME LegInv, NEW o \in Orders, adStatus[o] \in Live
  PROVE  /\ OrderTiming(o).buffer \in Nat /\ OrderTiming(o).margin \in Nat
         /\ Deadline[o] \in Nat /\ adNow \in Nat
         /\ adOrder[o].anchor_delay \in Nat
         /\ EvidenceGrace(o) \in Nat
         /\ EvidenceGrace(o) >= adOrder[o].anchor_delay + OrderTiming(o).buffer
         /\ GraceEnd(o) \in Nat
         /\ FixedEnd(o) + EvidenceGrace(o) >= GraceEnd(o)
<1>1. /\ adOrder[o].timing_version \in Versions /\ adOrder[o].timing_version # 0
      /\ adOrder[o].anchor_delay \in Nat
      /\ adNow \in Nat /\ anchorDelay \in Nat
  BY DEF LegInv, LegOK, ClockOK, LegTypes, AdLegsTypeOK, OrderRecord,
         AdLedgerTypeOK, AdConfigTypeOK
<1>2. OrderTiming(o).buffer \in Nat /\ OrderTiming(o).margin \in Nat
  BY <1>1, TimingType DEF OrderTiming
<1>3. Deadline[o] \in Nat
  BY CoreAssumption
<1>4. /\ EvidenceGrace(o) \in Nat
      /\ EvidenceGrace(o) >= adOrder[o].anchor_delay + OrderTiming(o).buffer
  BY <1>1, <1>2 DEF EvidenceGrace, Later
<1> QED
  BY <1>1, <1>2, <1>3, <1>4 DEF GraceEnd, FixedEnd

LEMMA CutoffInWindow ==
  ASSUME LegInv, NEW o \in Orders, adStatus[o] \in Live
  PROVE  PresentationCutoff(o) \in Nat /\ PresentationCutoff(o) <= FixedEnd(o)
<1>1. WindowEnd(o) = FixedEnd(o) /\ FixedEnd(o) \in Nat
  BY LiveWindow
<1> QED
  BY <1>1, GraceTypes DEF PresentationCutoff, SatSub

-----------------------------------------------------------------------------
(* The keys *)

\* What becomes of a slot: nothing, or it stops, not before now, or sooner than
\* it was to; and it goes only when its account has no order open here, or the
\* grace of its expiry is over.
KeyStep(r, s, i) ==
  LET k == slot[r][s][i]  n == slot'[r][s][i] IN
  k # Nil =>
    \/ n = k
    \/ /\ n # Nil /\ n.expired_at # 0
       /\ n.expired_at >= adNow \/ n.expired_at = k.expired_at
       /\ k.expired_at # 0 => n.expired_at <= k.expired_at
    \/ /\ n = Nil
       /\ \/ ~AdOpenPositions(s)
          \/ k.expired_at # 0 /\ adNow > k.expired_at + GracePeriod

LEMMA SlotType ==
  ASSUME BLSKeyRegistryTypeOK, NEW r \in Registries, NEW s \in Signers,
         NEW i \in SlotIds
  PROVE  /\ slot[r][s][i] # Nil => slot[r][s][i] \in KeySlot
         /\ slot[r][s][i] # Nil =>
              slot[r][s][i].valid_until \in Nat /\ slot[r][s][i].expired_at \in Nat
         /\ nextSlot[r][s] \in Nat /\ i \in Nat
<1>1. i \in Nat
  BY BLSKeyRegistryAssumption DEF SlotIds
<1> QED
  BY <1>1 DEF BLSKeyRegistryTypeOK, KeySlot

\* register: the new slot takes an id no slot has; what it makes room by
\* dropping was dead long enough, or nobody has an order open.
LEMMA RegisterKeys ==
  ASSUME LegTypes, SlotsOK, NEW r \in Registries, NEW s \in Signers,
         Register(r, s, AdOpenPositions(s)), adNow' = adNow
  PROVE  \A q \in Registries, t \in Signers, i \in SlotIds :
           SlotOK(q, t, i)' /\ KeyStep(q, t, i)
<1>0. BLSKeyRegistryTypeOK /\ adNow \in Nat
  BY DEF LegTypes, AdLedgerTypeOK
<1> DEFINE full    == Cardinality(LiveSlots(r, s)) >= MaxActiveSlots
           dropped == IF full THEN Prunable(r, s, AdOpenPositions(s)) ELSE {}
           g == [i \in SlotIds |-> IF i \in dropped THEN Nil
                   ELSE IF i = nextSlot[r][s] THEN UnboundedSlot
                   ELSE slot[r][s][i]]
<1>1. /\ slot' = [slot EXCEPT ![r][s] = g]
      /\ nextSlot' = [nextSlot EXCEPT ![r][s] = @ + 1]
  BY DEF Register
<1>2. \A i \in dropped :
        /\ i \in SlotIds /\ slot[r][s][i] # Nil
        /\ slot[r][s][i].expired_at # 0
        /\ \/ ~AdOpenPositions(s)
           \/ adNow > slot[r][s][i].expired_at + GracePeriod
  <2> SUFFICES ASSUME NEW i \in dropped
               PROVE  /\ i \in SlotIds /\ slot[r][s][i] # Nil
                      /\ slot[r][s][i].expired_at # 0
                      /\ \/ ~AdOpenPositions(s)
                         \/ adNow > slot[r][s][i].expired_at + GracePeriod
    OBVIOUS
  <2>1. i \in Prunable(r, s, AdOpenPositions(s))
    OBVIOUS
  <2> QED
    BY <2>1 DEF Prunable, LiveSlots, ExpiredAt
<1> HIDE DEF dropped
<1>3. ASSUME NEW i \in SlotIds
      PROVE  /\ slot'[r][s][i] = g[i]
             /\ nextSlot'[r][s] = nextSlot[r][s] + 1
  BY <1>0, <1>1 DEF BLSKeyRegistryTypeOK
<1>4. ASSUME NEW q \in Registries, NEW t \in Signers, NEW i \in SlotIds,
             q # r \/ t # s
      PROVE  slot'[q][t][i] = slot[q][t][i] /\ nextSlot'[q][t] = nextSlot[q][t]
  BY <1>0, <1>1, <1>4 DEF BLSKeyRegistryTypeOK
<1>5. ASSUME NEW i \in SlotIds
      PROVE  SlotOK(r, s, i)' /\ KeyStep(r, s, i)
  <2>0. SlotOK(r, s, i) /\ nextSlot[r][s] \in Nat /\ i \in Nat
    BY <1>0, SlotType DEF SlotsOK
  <2>1. CASE i \in dropped
    <3>1. slot'[r][s][i] = Nil
      BY <1>3, <2>1
    <3> QED
      BY <1>2, <2>1, <3>1 DEF SlotOK, KeyStep
  <2>2. CASE i \notin dropped /\ i = nextSlot[r][s]
    <3>1. slot'[r][s][i] = UnboundedSlot /\ nextSlot'[r][s] = i + 1
      BY <1>3, <2>2
    <3>2. slot[r][s][i] = Nil
      BY <2>0, <2>2 DEF SlotOK
    <3>3. /\ slot'[r][s][i].valid_until = 0 /\ slot'[r][s][i].expired_at = 0
      BY <3>1 DEF UnboundedSlot
    <3>4. i < nextSlot'[r][s]
      BY <2>0, <3>1
    <3>5. Later(0, adNow) \in Nat
      BY <1>0 DEF Later
    <3> QED
      BY <3>2, <3>3, <3>4, <3>5 DEF SlotOK, KeyStep
  <2>3. CASE i \notin dropped /\ i # nextSlot[r][s]
    <3>1. slot'[r][s][i] = slot[r][s][i] /\ nextSlot'[r][s] = nextSlot[r][s] + 1
      BY <1>3, <2>3
    <3> QED
      BY <2>0, <3>1 DEF SlotOK, KeyStep, Later
  <2> QED
    BY <2>1, <2>2, <2>3
<1>6. ASSUME NEW q \in Registries, NEW t \in Signers, NEW i \in SlotIds,
             q # r \/ t # s
      PROVE  SlotOK(q, t, i)' /\ KeyStep(q, t, i)
  BY <1>4, <1>6 DEF SlotsOK, SlotOK, KeyStep, Later
<1> QED
  BY <1>5, <1>6

\* set_valid_until: the expiry recorded is never before now, nor after the one
\* recorded before.
LEMMA ShortenKeys ==
  ASSUME LegTypes, SlotsOK, NEW r \in Registries, NEW s \in Signers,
         NEW j \in SlotIds, NEW u \in 1..MaxTime, SetValidUntil(r, s, j, u),
         adNow' = adNow
  PROVE  \A q \in Registries, t \in Signers, i \in SlotIds :
           SlotOK(q, t, i)' /\ KeyStep(q, t, i)
<1>0. BLSKeyRegistryTypeOK /\ adNow \in Nat /\ u \in Nat
  BY CoreAssumption DEF LegTypes, AdLedgerTypeOK
<1> DEFINE prev == slot[r][s][j].expired_at
           eff  == Later(u, adNow)
           e    == IF prev = 0 \/ eff < prev THEN eff ELSE prev
           k    == [valid_until |-> u, expired_at |-> e]
<1>1. slot' = [slot EXCEPT ![r][s][j] = k] /\ UNCHANGED nextSlot
  BY DEF SetValidUntil
<1>2. /\ slot[r][s][j] # Nil /\ u # 0
      /\ slot[r][s][j].valid_until = 0 \/ u < slot[r][s][j].valid_until
  BY DEF SetValidUntil
<1>3. slot[r][s][j].valid_until \in Nat /\ prev \in Nat
  BY <1>0, <1>2, SlotType
<1>4. SlotOK(r, s, j)
  BY DEF SlotsOK
<1>5. eff \in Nat /\ eff >= u /\ eff >= adNow
  BY <1>0 DEF Later
<1>6. /\ e \in Nat /\ e # 0 /\ u <= e /\ e <= Later(u, adNow)
      /\ e >= adNow \/ e = prev
      /\ prev # 0 => e <= prev
  BY <1>0, <1>2, <1>3, <1>4, <1>5 DEF SlotOK
<1> HIDE DEF e
<1>7. k \in KeySlot /\ k.valid_until = u /\ k.expired_at = e
  BY <1>0, <1>6 DEF KeySlot
<1> HIDE DEF k
<1>8. slot'[r][s][j] = k
  BY <1>0, <1>1 DEF BLSKeyRegistryTypeOK
<1>9. SlotOK(r, s, j)' /\ KeyStep(r, s, j)
  <2>1. k # Nil
    BY <1>7, BLSKeyRegistryAssumption
  <2> QED
    BY <1>1, <1>2, <1>4, <1>6, <1>7, <1>8, <2>1 DEF SlotOK, KeyStep, Later
<1>10. ASSUME NEW q \in Registries, NEW t \in Signers, NEW i \in SlotIds,
              q # r \/ t # s \/ i # j
       PROVE  SlotOK(q, t, i)' /\ KeyStep(q, t, i)
  <2>1. slot'[q][t][i] = slot[q][t][i]
    BY <1>0, <1>1, <1>10 DEF BLSKeyRegistryTypeOK
  <2> QED
    BY <1>1, <2>1 DEF SlotsOK, SlotOK, KeyStep, Later
<1> QED
  BY <1>9, <1>10

\* revoke: every slot goes, and there were none or nobody has an order open.
LEMMA RevokeKeys ==
  ASSUME LegTypes, SlotsOK, NEW r \in Registries, NEW s \in Signers,
         Revoke(r, s, AdOpenPositions(s)), adNow' = adNow
  PROVE  \A q \in Registries, t \in Signers, i \in SlotIds :
           SlotOK(q, t, i)' /\ KeyStep(q, t, i)
<1>0. BLSKeyRegistryTypeOK
  BY DEF LegTypes
<1>1. /\ slot' = [slot EXCEPT ![r][s] = [i \in SlotIds |-> Nil]]
      /\ UNCHANGED nextSlot
      /\ \A i \in SlotIds : slot[r][s][i] # Nil => ~AdOpenPositions(s)
  BY DEF Revoke, LiveSlots
<1>2. ASSUME NEW i \in SlotIds
      PROVE  SlotOK(r, s, i)' /\ KeyStep(r, s, i)
  <2>1. slot'[r][s][i] = Nil
    BY <1>0, <1>1 DEF BLSKeyRegistryTypeOK
  <2> QED
    BY <1>1, <2>1 DEF SlotOK, KeyStep
<1>3. ASSUME NEW q \in Registries, NEW t \in Signers, NEW i \in SlotIds,
             q # r \/ t # s
      PROVE  SlotOK(q, t, i)' /\ KeyStep(q, t, i)
  <2>1. slot'[q][t][i] = slot[q][t][i]
    BY <1>0, <1>1, <1>3 DEF BLSKeyRegistryTypeOK
  <2> QED
    BY <1>1, <2>1 DEF SlotsOK, SlotOK, KeyStep, Later
<1> QED
  BY <1>2, <1>3

\* A step the registries take no part in.
LEMMA SameKeys ==
  ASSUME LegTypes, SlotsOK, UNCHANGED <<slot, nextSlot>>,
         adNow' \in Nat, adNow' >= adNow
  PROVE  \A r \in Registries, s \in Signers, i \in SlotIds :
           SlotOK(r, s, i)' /\ KeyStep(r, s, i)
<1> SUFFICES ASSUME NEW r \in Registries, NEW s \in Signers, NEW i \in SlotIds
             PROVE  SlotOK(r, s, i)' /\ KeyStep(r, s, i)
  OBVIOUS
<1>1. /\ SlotOK(r, s, i) /\ adNow \in Nat
      /\ slot[r][s][i] # Nil =>
           slot[r][s][i].valid_until \in Nat /\ slot[r][s][i].expired_at \in Nat
  BY SlotType DEF SlotsOK, LegTypes, AdLedgerTypeOK
<1> QED
  BY <1>1 DEF SlotOK, KeyStep, Later

LEMMA KeysStep ==
  ASSUME LegInv, LegTypes', SlotsOK, [AdNext]_adChainVars
  PROVE  /\ SlotsOK'
         /\ \A r \in Registries, s \in Signers, i \in SlotIds : KeyStep(r, s, i)
<1> SUFFICES \A r \in Registries, s \in Signers, i \in SlotIds :
               SlotOK(r, s, i)' /\ KeyStep(r, s, i)
  BY DEF SlotsOK
<1>0. LegTypes /\ adNow \in Nat /\ adNow' \in Nat
  BY DEF LegInv, LegTypes, AdLedgerTypeOK
<1>1. CASE AdRegistryNext
  <2>1. adNow' = adNow
    BY <1>1 DEF AdRegistryNext
  <2>2. CASE \E r \in Registries, s \in Signers : Register(r, s, AdOpenPositions(s))
    BY <1>0, <2>1, <2>2, RegisterKeys
  <2>3. CASE \E r \in Registries, s \in Signers, i \in SlotIds, t \in 1..MaxTime :
               SetValidUntil(r, s, i, t)
    BY <1>0, <2>1, <2>3, ShortenKeys
  <2>4. CASE \E r \in Registries, s \in Signers : Revoke(r, s, AdOpenPositions(s))
    BY <1>0, <2>1, <2>4, RevokeKeys
  <2>5. CASE UNCHANGED <<slot, nextSlot>>
    BY <1>0, <2>1, <2>5, SameKeys
  <2> QED
    BY <1>1, <2>2, <2>3, <2>4, <2>5 DEF AdRegistryNext, ApproveMaker, ApproveRepin
<1>2. CASE UNCHANGED registryVars /\ adNow' >= adNow
  BY <1>0, <1>2, SameKeys DEF registryVars
<1>3. CASE AdAdminNext \/ AdAnchorNext \/ AdMakerNext \/ AdHaltNext
  BY <1>0, <1>2, <1>3 DEF AdAdminNext, AdAnchorNext, AdMakerNext, AdHaltNext
<1>4. CASE AdOrderNext \/ AdClaimNext \/ AdModuleNext
  BY <1>0, <1>2, <1>4 DEF AdOrderNext, AdClaimNext, AdModuleNext
<1>5. CASE \/ \E o \in Orders : AdUnlockNext(o)
           \/ \E leaf \in OrderChainLeaves : AdAnchorLeafNext(leaf)
  BY <1>0, <1>2, <1>5 DEF AdUnlockNext, AdAnchorLeafNext
<1>6. CASE AdTickNext \/ UNCHANGED adChainVars
  BY <1>0, <1>2, <1>6 DEF AdTickNext, AdTick, adChainVars
<1> QED
  BY <1>1, <1>3, <1>4, <1>5, <1>6 DEF AdNext, AdLocalNext

\* A slot that can be used did not stop before now.
LEMMA UsableHeld ==
  ASSUME LegTypes, SlotsOK, NEW r \in Registries, NEW s \in Signers,
         NEW i \in SlotIds, SlotUsable(r, s, i)
  PROVE  /\ slot[r][s][i] # Nil
         /\ slot[r][s][i].expired_at # 0 => slot[r][s][i].expired_at >= adNow
<1>1. slot[r][s][i] # Nil
  BY DEF SlotUsable
<1>2. /\ slot[r][s][i].valid_until \in Nat /\ slot[r][s][i].expired_at \in Nat
      /\ SlotOK(r, s, i) /\ adNow \in Nat
  BY <1>1, SlotType DEF SlotsOK, LegTypes, AdLedgerTypeOK
<1> QED
  BY <1>1, <1>2 DEF SlotUsable, SlotOK

-----------------------------------------------------------------------------
(* What a step does to an order *)

\* Nothing it is judged by, one of the operations on it, or a move within its
\* life that leaves what it was stamped with.
OrderMove(o) ==
  \/ adStatus'[o] = adStatus[o] /\ adOrder'[o] = adOrder[o]
  \/ /\ UNCHANGED <<adNow, registryVars, adConfig, halt>>
     /\ \/ \E pin \in SlotIds : LockForOrder(o, pin)
        \/ RepinOrder(o)
        \/ FinalizeCancel(o)
        \/ FinalizeDispute(o)
        \/ /\ adStatus[o] \in Live /\ adStatus'[o] \in Live \cup {"Filled"}
           /\ adOrder'[o] = adOrder[o]
        \/ adStatus[o] = "None" /\ adStatus'[o] = "Cancelled"

LEMMA OrderMoves ==
  ASSUME LegTypes, [AdNext]_adChainVars, NEW o \in Orders
  PROVE  OrderMove(o)
<1>0. /\ adStatus \in [Orders -> Status] /\ adOrder \in [Orders -> OrderRecord]
  BY DEF LegTypes, AdLegsTypeOK
<1>1. CASE UNCHANGED adLegs
  BY <1>1 DEF adLegs, OrderMove
<1>2. CASE AdOrderNext
  <2>0. UNCHANGED <<adNow, registryVars, adConfig, halt>>
    BY <1>2 DEF AdOrderNext
  <2>1. ASSUME NEW x \in Orders, NEW pin \in SlotIds, LockForOrder(x, pin)
        PROVE  OrderMove(o)
    <3>1. x # o => adStatus'[o] = adStatus[o] /\ adOrder'[o] = adOrder[o]
      BY <1>0, <2>1 DEF LockForOrder
    <3> QED
      BY <2>0, <2>1, <3>1 DEF OrderMove
  <2>2. ASSUME NEW x \in Orders, PresentSettled(x)
        PROVE  OrderMove(o)
    BY <1>0, <2>0, <2>2 DEF PresentSettled, AdPresentable, EndLeg, OrderMove
  <2>3. ASSUME NEW x \in Orders, RecordSettled(x)
        PROVE  OrderMove(o)
    BY <2>3 DEF RecordSettled, adLegs, OrderMove
  <2>4. ASSUME NEW x \in Orders, ClaimCancel(x)
        PROVE  OrderMove(o)
    BY <1>0, <2>0, <2>4 DEF ClaimCancel, Live, OrderMove
  <2>5. ASSUME NEW x \in Orders, FinalizeCancel(x)
        PROVE  OrderMove(o)
    BY <1>0, <2>0, <2>5 DEF FinalizeCancel, EndLeg, OrderMove
  <2>6. ASSUME NEW x \in Orders, CancelNeverLocked(x)
        PROVE  OrderMove(o)
    BY <1>0, <2>0, <2>6 DEF CancelNeverLocked, OrderMove
  <2>7. ASSUME NEW x \in Orders, NEW p \in Parties,
               Dispute(x, p) \/ RespondToDispute(x, p)
        PROVE  OrderMove(o)
    BY <1>0, <2>0, <2>7 DEF Dispute, RespondToDispute, adLegs, Live, OrderMove
  <2>8. ASSUME NEW x \in Orders, FinalizeDispute(x)
        PROVE  OrderMove(o)
    BY <1>0, <2>0, <2>8 DEF FinalizeDispute, EndLeg, OrderMove
  <2>9. ASSUME NEW x \in Orders, RepinOrder(x)
        PROVE  OrderMove(o)
    <3>1. x # o => adStatus'[o] = adStatus[o] /\ adOrder'[o] = adOrder[o]
      BY <1>0, <2>9 DEF RepinOrder
    <3> QED
      BY <2>0, <2>9, <3>1 DEF OrderMove
  <2> QED
    BY <1>2, <2>1, <2>2, <2>3, <2>4, <2>5, <2>6, <2>7, <2>8, <2>9 DEF AdOrderNext
<1>3. ASSUME NEW x \in Orders, AdUnlockNext(x)
      PROVE  OrderMove(o)
  BY <1>0, <1>3 DEF AdUnlockNext, Unlock, AdPresentable, EndLeg, OrderMove
<1>4. CASE AdAdminNext \/ AdAnchorNext \/ AdMakerNext \/ AdHaltNext
  BY <1>1, <1>4 DEF AdAdminNext, AdAnchorNext, AdMakerNext, AdHaltNext
<1>5. CASE AdRegistryNext \/ AdModuleNext \/ AdTickNext \/ UNCHANGED adChainVars
  BY <1>1, <1>5 DEF AdRegistryNext, AdModuleNext, AdTickNext, adChainVars, adVars
<1>6. CASE AdClaimNext
  BY <1>1, <1>6 DEF AdClaimNext, ClaimPayout
<1>7. ASSUME NEW leaf \in OrderChainLeaves, AdAnchorLeafNext(leaf)
      PROVE  OrderMove(o)
  BY <1>1, <1>7 DEF AdAnchorLeafNext
<1> QED
  BY <1>2, <1>3, <1>4, <1>5, <1>6, <1>7 DEF AdNext, AdLocalNext

\* What a step does to the stamps the denial rule reads besides the slots'.
LEMMA LeversStep ==
  ASSUME LegTypes, [AdNext]_adChainVars, anchorDelay \in Delays
  PROVE  /\ adNow' \in Nat /\ adNow' >= adNow
         /\ anchorDelay' \in Delays
         /\ \/ UNCHANGED <<adVerifier, verifierChangedAt>>
            \/ verifierChangedAt' = adNow
         /\ \A mk \in Makers :
              \/ halt'[mk] = halt[mk]
              \/ /\ halt'[mk].halted
                 /\ halt'[mk].last_resumed_at = halt[mk].last_resumed_at
              \/ halt'[mk].last_resumed_at = adNow
<1>0. adNow \in Nat /\ halt \in [Makers -> Halt]
  BY DEF LegTypes, AdLedgerTypeOK, AdConfigTypeOK
<1>1. CASE AdAdminNext
  BY <1>0, <1>1
  DEF AdAdminNext, AdPause, SetFeeBps, SetAdPool, SetRouteTiming, SetChain,
      SetTokenRoute, SetDisputeManager, SetKeyRegistry, SetRootVerifier,
      SetAnchorDelay
<1>2. CASE AdAnchorNext
  BY <1>0, <1>2 DEF AdAnchorNext, SetRootAnchor
<1>3. CASE AdHaltNext
  <2>1. PICK mk \in Makers : HaltSettlement(mk) \/ ResumeSettlement(mk)
    BY <1>3 DEF AdHaltNext
  <2>2. halt[mk] \in Halt
    BY <1>0
  <2>3. UNCHANGED <<adNow, adConfig>>
    BY <1>3 DEF AdHaltNext
  <2>4. ASSUME NEW x \in Makers
        PROVE  \/ halt'[x] = halt[x]
               \/ /\ halt'[x].halted
                  /\ halt'[x].last_resumed_at = halt[x].last_resumed_at
               \/ halt'[x].last_resumed_at = adNow
    <3>1. CASE x # mk
      BY <1>0, <2>1, <3>1 DEF HaltSettlement, ResumeSettlement
    <3>2. CASE x = mk /\ HaltSettlement(mk)
      <4>1. halt'[mk] = [halt[mk] EXCEPT !.halted = TRUE]
        BY <1>0, <3>2 DEF HaltSettlement
      <4> QED
        BY <2>2, <3>2, <4>1 DEF Halt
    <3>3. CASE x = mk /\ ResumeSettlement(mk)
      <4>1. halt'[mk] = [halted |-> FALSE, last_resumed_at |-> adNow]
        BY <1>0, <3>3 DEF ResumeSettlement
      <4> QED
        BY <3>3, <4>1
    <3> QED
      BY <2>1, <3>1, <3>2, <3>3
  <2> QED
    BY <1>0, <2>3, <2>4 DEF adConfig
<1>4. CASE UNCHANGED <<adConfig, halt>> /\ adNow' \in Nat /\ adNow' >= adNow
  BY <1>4 DEF adConfig
<1>5. CASE AdMakerNext \/ AdOrderNext \/ AdClaimNext
  BY <1>0, <1>4, <1>5 DEF AdMakerNext, AdOrderNext, AdClaimNext
<1>6. CASE AdRegistryNext \/ AdModuleNext \/ AdTickNext \/ UNCHANGED adChainVars
  BY <1>0, <1>4, <1>6
  DEF AdRegistryNext, AdModuleNext, AdTickNext, AdTick, adChainVars, adVars
<1>7. CASE \/ \E o \in Orders : AdUnlockNext(o)
           \/ \E leaf \in OrderChainLeaves : AdAnchorLeafNext(leaf)
  BY <1>0, <1>4, <1>7 DEF AdUnlockNext, AdAnchorLeafNext
<1> QED
  BY <1>1, <1>2, <1>3, <1>5, <1>6, <1>7 DEF AdNext, AdLocalNext

-----------------------------------------------------------------------------
(* The stamps *)

\* An order with a live leg keeps the position guard's answer at yes.
LEMMA LiveIsOpen ==
  ASSUME CountsOK, NEW o \in Orders, adStatus[o] \in Live
  PROVE  AdOpenPositions(SignerOf[o])
<1>1. SignerOf[o] \in Signers
  BY AdManagerAssumption
<1>2. o \in LiveFor(SignerOf[o])
  BY DEF LiveFor
<1>3. /\ IsFiniteSet(LiveFor(SignerOf[o]))
      /\ adInFlight[SignerOf[o]] = Cardinality(LiveFor(SignerOf[o]))
  BY <1>1 DEF CountsOK
<1>4. /\ Cardinality(LiveFor(SignerOf[o])) \in Nat
      /\ Cardinality(LiveFor(SignerOf[o])) # 0
  BY <1>2, <1>3, FS_EmptySet, FS_CardinalityType
<1> QED
  BY <1>3, <1>4 DEF AdOpenPositions

\* The pin is read where it was, whatever else the step does.
LEMMA PinHeldStep ==
  ASSUME LegTypes, LegTypes', CountsOK, NEW o \in Orders, adStatus[o] \in Live,
         StampOK(o), adOrder'[o] = adOrder[o], adNow' >= adNow,
         \A r \in Registries, s \in Signers, i \in SlotIds : KeyStep(r, s, i)
  PROVE  PinHeld(o)' \/ PastGrace(o)'
<1> DEFINE r == adOrder[o].registry  s == SignerOf[o]  i == adOrder[o].pinned_slot
<1>1. r \in Registries /\ s \in Signers /\ i \in SlotIds
  BY AdManagerAssumption DEF StampOK, LegTypes, AdLegsTypeOK, OrderRecord
<1>2. /\ adOrder[o].locked_at \in Nat /\ adOrder[o].locked_at <= adNow
      /\ adNow \in Nat /\ adNow' \in Nat /\ GracePeriod \in Nat
  BY BLSKeyRegistryAssumption
  DEF StampOK, LegTypes, AdLegsTypeOK, OrderRecord, AdLedgerTypeOK
<1>3. PastGrace(o) => PastGrace(o)'
  BY <1>2 DEF PastGrace
<1>4. PinnedSlot(o) = slot[r][s][i] /\ PinnedSlot(o)' = slot'[r][s][i]
  BY DEF PinnedSlot
<1>5. KeyStep(r, s, i) /\ AdOpenPositions(s)
  BY <1>1, LiveIsOpen
<1>6. CASE PinHeld(o)
  <2>1. slot[r][s][i] # Nil /\ slot[r][s][i].expired_at \in Nat
    BY <1>1, <1>4, <1>6, SlotType DEF PinHeld, LegTypes
  <2>2. slot[r][s][i].expired_at # 0 => slot[r][s][i].expired_at >= adOrder[o].locked_at
    BY <1>4, <1>6 DEF PinHeld
  <2> HIDE DEF r, s, i
  <2>3. CASE slot'[r][s][i] = slot[r][s][i]
    BY <1>4, <2>1, <2>2, <2>3 DEF PinHeld
  <2>4. CASE /\ slot'[r][s][i] # Nil /\ slot'[r][s][i].expired_at # 0
             /\ \/ slot'[r][s][i].expired_at >= adNow
                \/ slot'[r][s][i].expired_at = slot[r][s][i].expired_at
    <3>0. slot'[r][s][i].expired_at \in Nat
      BY <1>1, <2>4 DEF LegTypes, BLSKeyRegistryTypeOK, KeySlot
    <3>1. slot'[r][s][i].expired_at >= adOrder[o].locked_at
      BY <1>2, <2>2, <2>4, <3>0
    <3> QED
      BY <1>4, <2>4, <3>1 DEF PinHeld
  <2>5. CASE slot[r][s][i].expired_at # 0 /\ adNow > slot[r][s][i].expired_at + GracePeriod
    <3>1. adNow' > adOrder[o].locked_at + GracePeriod
      BY <1>2, <2>1, <2>2, <2>5
    <3> QED
      BY <3>1 DEF PastGrace
  <2> QED
    BY <1>5, <2>1, <2>3, <2>4, <2>5 DEF KeyStep
<1> QED
  BY <1>3, <1>6 DEF StampOK

\* What lock_for_order stamps, and what a re-pin moves the pin to.
LEMMA StampStep ==
  ASSUME LegInv, LegInv', CountsOK, SlotsOK, anchorDelay \in Delays,
         [AdNext]_adChainVars, NEW o \in Orders, StampOK(o)
  PROVE  StampOK(o)'
<1>0. /\ LegTypes /\ LegTypes' /\ adNow \in Nat /\ adNow' \in Nat
      /\ adOrder \in [Orders -> OrderRecord] /\ adStatus \in [Orders -> Status]
  BY DEF LegInv, LegTypes, AdLedgerTypeOK, AdLegsTypeOK
<1>1. adNow' >= adNow
  BY <1>0, LeversStep
<1>2. \A r \in Registries, s \in Signers, i \in SlotIds : KeyStep(r, s, i)
  BY <1>0, KeysStep
<1>3. SignerOf[o] \in Signers
  BY AdManagerAssumption
<1> SUFFICES ASSUME adStatus'[o] \in Live
             PROVE  StampOK(o)'
  BY DEF StampOK
<1>4. CASE adStatus[o] \in Live /\ adOrder'[o] = adOrder[o]
  <2>1. PinHeld(o)' \/ PastGrace(o)'
    BY <1>0, <1>1, <1>2, <1>4, PinHeldStep
  <2>2. adOrder[o].locked_at \in Nat
    BY <1>0 DEF OrderRecord
  <2> QED
    BY <1>0, <1>1, <1>4, <2>1, <2>2 DEF StampOK
<1>5. ASSUME NEW pin \in SlotIds, LockForOrder(o, pin),
             UNCHANGED <<adNow, registryVars, adConfig, halt>>
      PROVE  StampOK(o)'
  <2>1. adOrder'[o] = OpenOrder(pin)
    BY <1>0, <1>5 DEF LockForOrder
  <2>2. keyRegistry \in Registries
    BY <1>0 DEF LegTypes, AdConfigTypeOK
  <2>3. /\ slot[keyRegistry][SignerOf[o]][pin] # Nil
        /\ slot[keyRegistry][SignerOf[o]][pin].expired_at # 0 =>
             slot[keyRegistry][SignerOf[o]][pin].expired_at >= adNow
    BY <1>0, <1>3, <1>5, <2>2, UsableHeld DEF LockForOrder
  <2>4. UNCHANGED slot
    BY <1>5 DEF registryVars
  <2>5. PinHeld(o)'
    BY <2>1, <2>3, <2>4 DEF PinHeld, PinnedSlot, OpenOrder
  <2> QED
    BY <1>0, <1>5, <2>1, <2>2, <2>5 DEF StampOK, LockForOrder, OpenOrder
<1>6. ASSUME RepinOrder(o), UNCHANGED <<adNow, registryVars, adConfig, halt>>
      PROVE  StampOK(o)'
  <2> DEFINE r == adOrder[o].registry  i == repin[r][o].to
  <2>1. adStatus[o] \in Live /\ r \in Registries
    BY <1>6 DEF RepinOrder, Live, StampOK
  <2>2. i \in SlotIds
    BY <1>0, <2>1 DEF LegTypes, BLSKeyRegistryTypeOK, RepinApproval
  <2>3. /\ slot[r][SignerOf[o]][i] # Nil
        /\ slot[r][SignerOf[o]][i].expired_at # 0 =>
             slot[r][SignerOf[o]][i].expired_at >= adNow
    BY <1>0, <1>3, <1>6, <2>1, <2>2, UsableHeld DEF RepinOrder
  <2>4. UNCHANGED slot
    BY <1>6 DEF registryVars
  <2>5. PICK a : a = [adOrder[o] EXCEPT !.pinned_slot = i]
    OBVIOUS
  <2>6. PICK b : b = [a EXCEPT !.repinned = TRUE]
    OBVIOUS
  <2>7. adOrder'[o] = b
    BY <1>0, <1>6, <2>5, <2>6 DEF RepinOrder
  <2>8. adOrder[o] \in OrderRecord
    BY <1>0
  <2>9. /\ a.registry = r /\ a.locked_at = adOrder[o].locked_at
        /\ a.anchor_delay = adOrder[o].anchor_delay /\ a.pinned_slot = i
        /\ a \in OrderRecord
    BY <2>2, <2>5, <2>8 DEF OrderRecord
  <2>10. /\ b.registry = r /\ b.locked_at = adOrder[o].locked_at
         /\ b.anchor_delay = adOrder[o].anchor_delay /\ b.pinned_slot = i
    BY <2>6, <2>9 DEF OrderRecord
  <2> HIDE DEF r, i
  <2>11. adOrder[o].locked_at <= adNow /\ adOrder[o].locked_at \in Nat
    BY <2>1, <2>8 DEF StampOK, OrderRecord
  <2>12. slot[r][SignerOf[o]][i].expired_at \in Nat
    BY <1>0, <1>3, <2>1, <2>2, <2>3, SlotType DEF LegTypes
  <2>13. PinHeld(o)'
    BY <1>0, <2>3, <2>4, <2>7, <2>10, <2>11, <2>12 DEF PinHeld, PinnedSlot
  <2> QED
    BY <1>6, <2>1, <2>7, <2>10, <2>13 DEF StampOK
<1> QED
  BY <1>0, <1>4, <1>5, <1>6, OrderMoves
  DEF OrderMove, FinalizeCancel, FinalizeDispute, EndLeg, Live

-----------------------------------------------------------------------------
(* The marks *)

\* No step of anybody's takes a refusal's mark away while the order is live.
LEMMA MarkStays ==
  ASSUME LegInv, LegInv', CountsOK, SlotsOK, anchorDelay \in Delays,
         [AdNext]_adChainVars, NEW o \in Orders, LegStep(o), StampOK(o),
         adStatus[o] \in Live, adStatus'[o] \in Live,
         CoSignDenied(o, PresentationCutoff(o)), adOrder[o].locked_at < adNow,
         adOrder'[o] = adOrder[o]
  PROVE  CoSignDenied(o, PresentationCutoff(o))' \/ PastGrace(o)'
<1> DEFINE r == adOrder[o].registry  s == SignerOf[o]  i == adOrder[o].pinned_slot
<1>1. /\ LegTypes /\ LegTypes' /\ adNow \in Nat /\ adNow' \in Nat
      /\ adOrder[o].locked_at \in Nat
  BY DEF LegInv, LegTypes, AdLedgerTypeOK, AdLegsTypeOK, OrderRecord
<1>2. r \in Registries /\ r # Nil /\ s \in Signers /\ i \in SlotIds
  BY <1>1, AdManagerAssumption DEF StampOK, LegTypes, AdLegsTypeOK, OrderRecord
<1>3. /\ adNow' >= adNow
      /\ UNCHANGED <<adVerifier, verifierChangedAt>> \/ verifierChangedAt' = adNow
      /\ \A mk \in Makers :
           \/ halt'[mk] = halt[mk]
           \/ /\ halt'[mk].halted
              /\ halt'[mk].last_resumed_at = halt[mk].last_resumed_at
           \/ halt'[mk].last_resumed_at = adNow
  BY <1>1, LeversStep
<1>4. PresentationCutoff(o)' = PresentationCutoff(o)
  BY DEF LegStep, PresentationCutoff, OrderTiming
<1>5. CASE adOrder[o].repinned
  BY <1>5 DEF CoSignDenied
<1>6. CASE HaltedSinceLock(o)
  <2>1. Maker(o) \in Makers
    BY AdManagerAssumption DEF Maker
  <2> HIDE DEF r, s, i
  <2>2. \/ halt'[Maker(o)] = halt[Maker(o)]
        \/ halt'[Maker(o)].halted
        \/ halt'[Maker(o)].last_resumed_at = adNow
    BY <1>3, <2>1
  <2>3. HaltedSinceLock(o)'
    BY <1>1, <1>6, <2>2 DEF HaltedSinceLock, Maker
  <2> QED
    BY <2>3 DEF CoSignDenied
<1>7. CASE VerifierGap(o) \/ RegistrySplit(r)
  <2>1. CASE verifierChangedAt' = adNow
    BY <2>1 DEF VerifierGap, CoSignDenied
  <2>2. CASE UNCHANGED <<adVerifier, verifierChangedAt>>
    BY <1>2, <1>7, <2>2 DEF VerifierGap, RegistrySplit, CoSignDenied
  <2> QED
    BY <1>3, <2>1, <2>2
<1>8. CASE PinExpiresBy(o, PresentationCutoff(o))
  <2>1. /\ slot[r][s][i] # Nil /\ slot[r][s][i].expired_at # 0
        /\ slot[r][s][i].expired_at <= PresentationCutoff(o)
    BY <1>8 DEF PinExpiresBy, ExpiredAt
  <2>2. KeyStep(r, s, i) /\ AdOpenPositions(s)
    BY <1>1, <1>2, KeysStep, LiveIsOpen
  <2>3. slot[r][s][i].expired_at \in Nat
    BY <1>1, <1>2, <2>1, SlotType DEF LegTypes
  <2>4. slot'[r][s][i] # Nil => slot'[r][s][i].expired_at \in Nat
    BY <1>1, <1>2 DEF LegTypes, BLSKeyRegistryTypeOK, KeySlot
  <2>5. PresentationCutoff(o) \in Int
    <3>1. WindowEnd(o) \in Nat
      BY LiveWindow
    <3>2. OrderTiming(o).margin \in Nat
      BY <1>1, TimingType
      DEF LegInv, LegOK, ClockOK, LegTypes, AdLegsTypeOK, OrderRecord, OrderTiming
    <3> QED
      BY <3>1, <3>2 DEF PresentationCutoff, SatSub
  <2>6. CASE slot'[r][s][i] # Nil
    <3>0. \/ slot'[r][s][i] = slot[r][s][i]
          \/ /\ slot'[r][s][i].expired_at # 0
             /\ slot'[r][s][i].expired_at <= slot[r][s][i].expired_at
      BY <2>1, <2>2, <2>6 DEF KeyStep
    <3> HIDE DEF r, s, i
    <3>a. slot'[r][s][i] = slot[r][s][i] =>
            slot'[r][s][i].expired_at = slot[r][s][i].expired_at
      OBVIOUS
    <3>1. /\ slot'[r][s][i].expired_at # 0
          /\ slot'[r][s][i].expired_at <= PresentationCutoff(o)
      BY <2>1, <2>3, <2>4, <2>5, <2>6, <3>0, <3>a
    <3>2. PinExpiresBy(o, PresentationCutoff(o))'
      BY <1>4, <2>6, <3>1 DEF PinExpiresBy, ExpiredAt, r, s, i
    <3> QED
      BY <1>2, <3>2 DEF CoSignDenied, r
  <2>7. CASE slot'[r][s][i] = Nil
    <3>1. adNow > slot[r][s][i].expired_at + GracePeriod
      BY <2>1, <2>2, <2>7 DEF KeyStep
    <3>2. slot[r][s][i].expired_at >= adOrder[o].locked_at \/ PastGrace(o)
      BY <2>1 DEF StampOK, PinHeld, PinnedSlot
    <3>3. GracePeriod \in Nat
      BY BLSKeyRegistryAssumption
    <3> HIDE DEF r, s, i
    <3>4. adNow > adOrder[o].locked_at + GracePeriod
      BY <1>1, <2>3, <3>1, <3>2, <3>3 DEF PastGrace
    <3> QED
      BY <1>1, <1>3, <3>3, <3>4 DEF PastGrace
  <2> QED
    BY <2>6, <2>7
<1> QED
  BY <1>5, <1>6, <1>7, <1>8 DEF CoSignDenied

\* repin_order leaves its own stamp, and the order's timing as it was.
LEMMA RepinStamps ==
  ASSUME NEW o \in Orders, adOrder \in [Orders -> OrderRecord], RepinOrder(o)
  PROVE  /\ adOrder'[o].repinned
         /\ adOrder'[o].timing_version = adOrder[o].timing_version
<1> DEFINE i == repin[adOrder[o].registry][o].to
<1>1. PICK a : a = [adOrder[o] EXCEPT !.pinned_slot = i]
  OBVIOUS
<1>2. adOrder'[o] = [a EXCEPT !.repinned = TRUE]
  BY <1>1 DEF RepinOrder
<1> HIDE DEF i
<1>3. /\ "repinned" \in DOMAIN a
      /\ a.timing_version = adOrder[o].timing_version
  BY <1>1 DEF OrderRecord
<1> QED
  BY <1>2, <1>3

LEMMA DeniedStays ==
  ASSUME LegInv, LegInv', CountsOK, SlotsOK, anchorDelay \in Delays,
         [AdNext]_adChainVars, NEW o \in Orders, LegStep(o), StampOK(o),
         adStatus[o] \in Live, adStatus'[o] \in Live, Denied(o)
  PROVE  Denied(o)'
<1>1. /\ LegTypes /\ adNow \in Nat /\ adNow' \in Nat /\ adOrder[o] \in OrderRecord
      /\ adOrder \in [Orders -> OrderRecord] /\ GracePeriod \in Nat
  BY BLSKeyRegistryAssumption
  DEF LegInv, LegInv, LegTypes, AdLedgerTypeOK, AdLegsTypeOK
<1>2. adNow' >= adNow /\ adNow' \in Nat /\ adOrder[o].locked_at \in Nat
  BY <1>1, LeversStep DEF OrderRecord
<1>3. CASE adOrder'[o] = adOrder[o]
  <2>1. PastGrace(o) => PastGrace(o)'
    BY <1>1, <1>2, <1>3 DEF PastGrace
  <2>2. adOrder[o].locked_at < adNow => adOrder'[o].locked_at < adNow'
    BY <1>1, <1>2, <1>3
  <2>3. adOrder[o].repinned => adOrder'[o].repinned
    BY <1>3
  <2> QED
    BY <1>3, <2>1, <2>2, <2>3, MarkStays DEF Denied
<1>4. CASE RepinOrder(o)
  <2>1. adOrder'[o].repinned
    BY <1>1, <1>4, RepinStamps
  <2> QED
    BY <2>1 DEF Denied
<1> QED
  BY <1>1, <1>3, <1>4, OrderMoves
  DEF OrderMove, LockForOrder, FinalizeCancel, FinalizeDispute, EndLeg, Live

\* A gate of the co-signed unlock that refuses it.
GateShut(o) ==
  \/ halt[Maker(o)].halted
  \/ adVerifier = Nil
  \/ adVerifier # Nil /\ ~SlotUsable(adVerifier, SignerOf[o], adOrder[o].pinned_slot)

\* A gate that is shut in time leaves its mark, or the grace is over.
Marked(o) ==
  /\ LegInv /\ SlotsOK /\ StampOK(o)
  /\ adStatus[o] \in Live /\ GateShut(o)
  /\ adNow < PresentationCutoff(o) \/ adNow = PresentationCutoff(o)
  => CoSignDenied(o, PresentationCutoff(o)) \/ PastGrace(o)

LEMMA GateMarks == \A o \in Orders : Marked(o)
<1> SUFFICES ASSUME NEW o \in Orders, LegInv, SlotsOK, StampOK(o),
                    adStatus[o] \in Live, GateShut(o),
                    adNow < PresentationCutoff(o) \/ adNow = PresentationCutoff(o)
             PROVE  CoSignDenied(o, PresentationCutoff(o)) \/ PastGrace(o)
  BY DEF Marked
<1> DEFINE s == SignerOf[o]
<1>r. PICK r \in Registries : r = adOrder[o].registry
  BY DEF StampOK
<1>i. PICK i \in SlotIds : i = adOrder[o].pinned_slot
  BY DEF LegInv, LegTypes, AdLegsTypeOK, OrderRecord
<1>2. r # Nil /\ s \in Signers
  BY AdManagerAssumption
<1>3. LegTypes /\ adNow \in Nat
  BY DEF LegInv, LegTypes, AdLedgerTypeOK
<1>4. CASE halt[Maker(o)].halted
  BY <1>4 DEF CoSignDenied, HaltedSinceLock, Maker
<1>5. CASE adVerifier = Nil
  BY <1>5 DEF CoSignDenied, VerifierGap
<1>6. CASE adVerifier # Nil /\ adVerifier # r
  BY <1>2, <1>r, <1>6 DEF CoSignDenied, RegistrySplit
<1>7. CASE adVerifier = r /\ ~SlotUsable(r, s, i) /\ PinHeld(o)
  <2>1. slot[r][s][i] # Nil
    BY <1>7, <1>r, <1>i DEF PinHeld, PinnedSlot
  <2>2. slot[r][s][i].valid_until \in Nat /\ slot[r][s][i].expired_at \in Nat
    BY <1>2, <1>3, <2>1, SlotType DEF LegTypes
  <2>3. SlotOK(r, s, i)
    BY <1>2 DEF SlotsOK
  <2>4. slot[r][s][i].valid_until # 0 /\ adNow >= slot[r][s][i].valid_until
    BY <1>3, <1>7, <2>1, <2>2 DEF SlotUsable
  <2>5. slot[r][s][i].expired_at # 0 /\ slot[r][s][i].expired_at <= adNow
    BY <1>3, <2>1, <2>2, <2>3, <2>4 DEF SlotOK, Later
  <2>6. PresentationCutoff(o) \in Nat
    BY CutoffInWindow
  <2>7. slot[r][s][i].expired_at <= PresentationCutoff(o)
    BY <1>3, <2>2, <2>5, <2>6
  <2>8. PinExpiresBy(o, PresentationCutoff(o))
    BY <1>r, <1>i, <2>1, <2>5, <2>7 DEF PinExpiresBy, ExpiredAt
  <2> QED
    BY <1>2, <1>r, <2>8 DEF CoSignDenied
<1> QED
  <2>1. PinHeld(o) \/ PastGrace(o)
    BY DEF StampOK
  <2>2. \/ halt[Maker(o)].halted \/ adVerifier = Nil
        \/ adVerifier # Nil /\ adVerifier # r
        \/ adVerifier = r /\ ~SlotUsable(r, s, i)
    BY <1>r, <1>i DEF GateShut, SlotUsable
  <2> QED
    BY <1>4, <1>5, <1>6, <1>7, <2>1, <2>2

\* At the next moment as at any.
LEMMA GateMarksNext == (\A o \in Orders : Marked(o))'
<1> QED
  BY GateMarks, PTL

\* A refusal leaves its mark the second it happens.
LEMMA RefusalMarks ==
  ASSUME LegInv', SlotsOK', NEW o \in Orders, StampOK(o)', RefusedNow(o)'
  PROVE  Denied(o)'
<1>1. /\ adStatus'[o] \in Live /\ GateShut(o)'
      /\ adOrder'[o].locked_at < adNow' /\ adNow' < PresentationCutoff(o)'
  BY DEF RefusedNow, GateShut
<1>2. CoSignDenied(o, PresentationCutoff(o))' \/ PastGrace(o)'
  BY <1>1, GateMarksNext DEF Marked
<1> QED
  BY <1>1, <1>2 DEF Denied

-----------------------------------------------------------------------------
(* The grace *)

\* A denial by the cutoff is one by any later moment.
LEMMA DenialMonotone ==
  ASSUME LegTypes, NEW o \in Orders, NEW u \in Nat, NEW v \in Nat, u <= v,
         StampOK(o), adStatus[o] \in Live, CoSignDenied(o, u)
  PROVE  CoSignDenied(o, v)
<1> DEFINE r == adOrder[o].registry  s == SignerOf[o]  i == adOrder[o].pinned_slot
<1>1. r \in Registries /\ s \in Signers /\ i \in SlotIds
  BY AdManagerAssumption DEF StampOK, LegTypes, AdLegsTypeOK, OrderRecord
<1>2. ASSUME PinExpiresBy(o, u)
      PROVE  PinExpiresBy(o, v)
  <2>1. slot[r][s][i] # Nil /\ slot[r][s][i].expired_at # 0
        /\ slot[r][s][i].expired_at <= u
    BY <1>2 DEF PinExpiresBy, ExpiredAt
  <2>2. slot[r][s][i].expired_at \in Nat
    BY <1>1, <2>1, SlotType DEF LegTypes
  <2> HIDE DEF r, s, i
  <2>3. slot[r][s][i].expired_at <= v
    BY <2>1, <2>2
  <2> QED
    BY <2>1, <2>3 DEF PinExpiresBy, ExpiredAt, r, s, i
<1> QED
  BY <1>2 DEF CoSignDenied

\* A mark in force when the order ends is a denial, or the grace is over.
LEMMA MarkOrOver ==
  ASSUME LegInv, NEW o \in Orders, adStatus[o] \in Live, StampOK(o), Denied(o)
  PROVE  CoSignDenied(o, PresentationCutoff(o)) \/ adNow >= GraceEnd(o)
<1>1. adOrder[o].timing_version # 0
  BY DEF LegInv, LegOK, ClockOK
<1>2. PastGrace(o) => adNow >= GraceEnd(o)
  BY <1>1, GraceCovered DEF LegInv, StampOK
<1> QED
  BY <1>2 DEF Denied, CoSignDenied

LEMMA CancelGrace ==
  ASSUME LegInv, NEW o \in Orders, StampOK(o), Denied(o), FinalizeCancel(o)
  PROVE  adNow >= GraceEnd(o)
<1>1. adStatus[o] \in Live /\ adNow >= CancelEnd(o)
  BY DEF FinalizeCancel, Live
<1>2. WindowEnd(o) = FixedEnd(o) /\ FixedEnd(o) \in Nat
  BY <1>1, LiveWindow
<1>3. ASSUME CoSignDenied(o, PresentationCutoff(o))
      PROVE  adNow >= GraceEnd(o)
  <2>1. CancelEnd(o) = FixedEnd(o) + EvidenceGrace(o)
    BY <1>2, <1>3 DEF CancelEnd
  <2> QED
    BY <1>1, <1>2, <2>1, GraceTypes
<1> QED
  BY <1>1, <1>3, MarkOrOver

LEMMA DisputeGrace ==
  ASSUME LegInv, NEW o \in Orders, StampOK(o), Denied(o), FinalizeDispute(o),
         ruledAs'[o] # "MakerForfeit"
  PROVE  adNow >= GraceEnd(o)
<1> DEFINE m == orderModule[o]
           outcome == SettledOutcome(m, o)
           until == dispute[m][o].challenge_deadline
<1>1. /\ adStatus[o] = "Disputed" /\ adStatus[o] \in Live
      /\ adNow >= DisputeEnd(o, outcome)
  BY DEF FinalizeDispute, Live
<1>2. outcome # "MakerForfeit"
  BY DEF FinalizeDispute, LegInv, LegTypes, AdLegsTypeOK
<1>3. RecordOK(o) /\ m \in Modules /\ Disputed(m, o)
  BY <1>1 DEF LegInv, LegOK, RecordOK, LegTypes, AdLegsTypeOK
<1>4. until \in Nat /\ until >= FixedEnd(o)
  <2>1. dispute[m][o] \in DisputeRecord
    BY <1>3 DEF LegInv, LegTypes, DisputeStateOK, DisputeManagerTypeOK, Disputed
  <2>2. until >= dispute[m][o].order_deadline + dispute[m][o].buffer
    BY <1>3 DEF LegInv, LegTypes, DisputeStateOK, DisputeWindowFloor
  <2> QED
    BY <1>3, <2>1, <2>2 DEF RecordOK, FixedEnd, DisputeRecord
<1>5. FixedEnd(o) \in Nat
  BY <1>1, LiveWindow
<1>6. ASSUME CoSignDenied(o, PresentationCutoff(o))
      PROVE  adNow >= GraceEnd(o)
  <2>1. PresentationCutoff(o) \in Nat /\ PresentationCutoff(o) <= until
    BY <1>1, <1>4, <1>5, CutoffInWindow
  <2> HIDE DEF until
  <2>2. CoSignDenied(o, until)
    BY <1>1, <1>4, <1>6, <2>1, DenialMonotone DEF LegInv
  <2>3. DisputeEnd(o, outcome) = until + EvidenceGrace(o)
    BY <1>2, <2>2 DEF DisputeEnd, until
  <2> HIDE DEF outcome
  <2> QED
    BY <1>1, <1>4, <1>5, <2>3, GraceTypes
<1> QED
  BY <1>1, <1>6, MarkOrOver

-----------------------------------------------------------------------------
(* Every order somebody was refused *)

LEMMA RefusalStep ==
  ASSUME DenialInv, LegInv', SlotsOK', [AdNext]_adChainVars,
         NEW o \in Orders, LegStep(o), StampOK(o)',
         \/ RefusalOK(o)
         \/ RefusedNow(o)'
         \/ adStatus[o] \in Live /\ adOrder[o].pinned_slot # adOrder'[o].pinned_slot
  PROVE  RefusalOK(o)'
<1>0. /\ LegInv /\ LegTypes /\ LegTypes' /\ LegOK(o)' /\ CountsOK /\ SlotsOK
      /\ anchorDelay \in Delays /\ StampOK(o)
  BY DEF DenialInv, LegInv
<1>1. /\ adOrder \in [Orders -> OrderRecord] /\ adOrder[o] \in OrderRecord
      /\ adStatus \in [Orders -> Status] /\ adStatus'[o] \in Status
      /\ adNow \in Nat /\ adNow' \in Nat
  BY <1>0 DEF LegTypes, AdLegsTypeOK, AdLedgerTypeOK
<1>2. adNow' >= adNow
  BY <1>0, LeversStep
<1>3. OrderMove(o)
  BY <1>0, OrderMoves
<1>4. adOrder'[o] = adOrder[o] => GraceEnd(o)' = GraceEnd(o)
  BY DEF GraceEnd, OrderTiming
<1>5. CASE adStatus'[o] \in Live
  <2>1. adStatus'[o] # "None" /\ ~HandedBack(o)' /\ adOrder'[o].timing_version # 0
    BY <1>0, <1>5 DEF Live, HandedBack, LegOK, ClockOK
  <2>2. Denied(o)'
    <3>1. CASE RefusedNow(o)'
      BY <1>0, <3>1, RefusalMarks
    <3>2. CASE RefusalOK(o)
      <4>1. adStatus[o] \in Live
        BY <1>1, <1>5, <3>2 DEF LegStep, RefusalOK, Live, Terminal, Status
      <4> QED
        BY <1>0, <1>5, <3>2, <4>1, DeniedStays DEF RefusalOK
    <3>3. CASE adStatus[o] \in Live /\ adOrder[o].pinned_slot # adOrder'[o].pinned_slot
      <4>1. RepinOrder(o)
        BY <1>3, <3>3
        DEF OrderMove, LockForOrder, FinalizeCancel, FinalizeDispute, EndLeg, Live
      <4> QED
        BY <1>1, <4>1, RepinStamps DEF Denied
    <3> QED
      BY <3>1, <3>2, <3>3
  <2> QED
    BY <2>1, <2>2 DEF RefusalOK
<1>6. CASE adStatus'[o] \notin Live
  <2>1. ~RefusedNow(o)'
    BY <1>6 DEF RefusedNow
  <2>2. CASE adStatus[o] \in Live
    <3>1. adOrder'[o] = adOrder[o] /\ adStatus'[o] # "None"
      BY <1>1, <1>3, <1>6, <2>2
      DEF OrderMove, LockForOrder, RepinOrder, FinalizeCancel, FinalizeDispute,
          EndLeg, Live
    <3>2. RefusalOK(o) /\ Denied(o)
      BY <2>1, <2>2, <3>1 DEF RefusalOK
    <3>3. HandedBack(o)' => adNow >= GraceEnd(o) /\ adNow' = adNow
      <4>1. CASE FinalizeCancel(o) /\ adNow' = adNow
        BY <1>0, <3>2, <4>1, CancelGrace
      <4>2. CASE FinalizeDispute(o) /\ adNow' = adNow
        <5>1. adStatus'[o] = "Resolved"
          BY <1>1, <4>2 DEF FinalizeDispute, EndLeg
        <5>2. HandedBack(o)' => ruledAs'[o] # "MakerForfeit"
          BY <5>1 DEF HandedBack
        <5> QED
          BY <1>0, <3>2, <4>2, <5>2, DisputeGrace
      <4>3. CASE adStatus'[o] = "Filled"
        BY <4>3 DEF HandedBack
      <4> QED
        BY <1>1, <1>3, <1>6, <2>2, <4>1, <4>2, <4>3
        DEF OrderMove, LockForOrder, RepinOrder, Live
    <3> QED
      BY <1>4, <1>6, <3>1, <3>2, <3>3 DEF RefusalOK
  <2>3. CASE adStatus[o] \notin Live
    <3>1. RefusalOK(o)
      BY <2>1, <2>3
    <3>2. adStatus[o] \in Terminal
      BY <1>1, <2>3, <3>1 DEF RefusalOK, Live, Terminal, Status
    <3>3. /\ adStatus'[o] = adStatus[o] /\ adOrder'[o] = adOrder[o]
          /\ ruledAs'[o] = ruledAs[o]
      BY <3>2 DEF LegStep
    <3>4. GraceEnd(o) \in Int
      <4>1. /\ adOrder[o].timing_version \in Versions /\ adOrder[o].anchor_delay \in Nat
            /\ Deadline[o] \in Nat
        BY <1>1, CoreAssumption DEF OrderRecord
      <4>2. OrderTiming(o).buffer \in Nat
        BY <3>1, <4>1, TimingType DEF RefusalOK, OrderTiming
      <4> QED
        BY <4>1, <4>2 DEF GraceEnd
    <3>5. HandedBack(o)' <=> HandedBack(o)
      BY <3>3 DEF HandedBack
    <3>6. adNow >= GraceEnd(o) => adNow' >= GraceEnd(o)'
      BY <1>1, <1>2, <1>4, <3>3, <3>4
    <3> QED
      BY <1>6, <3>1, <3>3, <3>5, <3>6 DEF RefusalOK
  <2> QED
    BY <2>2, <2>3
<1> QED
  BY <1>5, <1>6

LEMMA StampsInit ==
  ASSUME AdInit
  PROVE  SlotsOK /\ \A o \in Orders : StampOK(o)
<1>1. ASSUME NEW r \in Registries, NEW s \in Signers, NEW i \in SlotIds
      PROVE  SlotOK(r, s, i)
  <2>1. /\ slot[r][s][i] = (IF i = 0 THEN UnboundedSlot ELSE Nil)
        /\ nextSlot[r][s] = 1 /\ adNow = 1
    BY DEF AdInit, BLSKeyRegistryInit, AdLedgerInit
  <2>2. UnboundedSlot.valid_until = 0 /\ UnboundedSlot.expired_at = 0
    BY DEF UnboundedSlot
  <2> QED
    BY <2>1, <2>2 DEF SlotOK, Later
<1>2. \A o \in Orders : StampOK(o)
  BY DEF AdInit, AdManagerInit, StampOK, Live
<1> QED
  BY <1>1, <1>2 DEF SlotsOK

LEMMA DenialInvInit ==
  ASSUME DenialInit
  PROVE  DenialInv
<1>1. AdInit /\ refused = {}
  BY DEF DenialInit
<1>2. LegInv /\ CountsOK
  BY <1>1, LegInvInit, CountsInit
<1>3. anchorDelay \in Delays
  BY <1>1 DEF AdInit, AdManagerInit
<1>4. SlotsOK /\ \A o \in Orders : StampOK(o)
  BY <1>1, StampsInit
<1> QED
  BY <1>1, <1>2, <1>3, <1>4 DEF DenialInv

LEMMA DenialInvStep ==
  ASSUME DenialInv, [DenialNext]_denialVars
  PROVE  DenialInv'
<1>1. [AdNext]_adChainVars
  BY DEF DenialNext, denialVars
<1>2. LegInv' /\ \A o \in Orders : LegStep(o)
  BY <1>1, LegInvStep DEF DenialInv, LegGoal
<1>3. CountsOK'
  BY <1>1, CountsStep DEF DenialInv
<1>4. anchorDelay' \in Delays
  BY <1>1, LeversStep DEF DenialInv, LegInv
<1>5. SlotsOK'
  BY <1>1, <1>2, KeysStep DEF DenialInv, LegInv
<1>6. \A o \in Orders : StampOK(o)'
  BY <1>1, <1>2, StampStep DEF DenialInv
<1>7. ASSUME NEW o \in refused'
      PROVE  o \in Orders /\ RefusalOK(o)'
  <2>1. CASE DenialNext
    <3>1. /\ o \in Orders
          /\ \/ o \in refused
             \/ RefusedNow(o)'
             \/ adStatus[o] \in Live /\ adOrder[o].pinned_slot # adOrder'[o].pinned_slot
      BY <2>1 DEF DenialNext, DenialInv
    <3>2. o \in refused => RefusalOK(o)
      BY DEF DenialInv
    <3> QED
      BY <1>1, <1>2, <1>5, <1>6, <3>1, <3>2, RefusalStep
  <2>2. CASE UNCHANGED denialVars
    <3>1. o \in refused /\ o \in Orders /\ RefusalOK(o)
      BY <2>2 DEF denialVars, DenialInv
    <3> QED
      BY <1>1, <1>2, <1>5, <1>6, <3>1, RefusalStep
  <2> QED
    BY <2>1, <2>2
<1> QED
  BY <1>2, <1>3, <1>4, <1>5, <1>6, <1>7 DEF DenialInv

\* The denial rule's invariant.
THEOREM DenialInvariant == DenialSpec => []DenialInv
<1> QED
  BY DenialInvInit, DenialInvStep, PTL DEF DenialSpec

\* A live order's pinned slot is in its registry, or the grace since its lock is
\* over: prune and revoke drop none a cancel could still ask about.
THEOREM PinsStay == DenialSpec => []PinnedSlotStays
<1>1. DenialInv => PinnedSlotStays
  BY DEF DenialInv, StampOK, PinHeld, PinnedSlot, PastGrace, PinnedSlotStays
<1> QED
  BY <1>1, DenialInvariant, PTL

\* Whoever was refused a co-signed payout, at whatever second and whatever was
\* released, rewired, pruned or re-pinned since, has had the evidence grace
\* before the maker gets the lock back, by a cancel or by a ruling.
THEOREM RefusalsEarnGrace == DenialSpec => []RefusalEarnsGrace
<1>1. DenialInv => RefusalEarnsGrace
  BY DEF DenialInv, RefusalOK, HandedBack, RefusalEarnsGrace
<1> QED
  BY <1>1, DenialInvariant, PTL
=============================================================================
