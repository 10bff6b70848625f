----------------------------- MODULE AdManager -----------------------------
(***************************************************************************)
(* The ad chain's escrow, the primary leg of every trade.  Makers fund     *)
(* ads; a lock reserves part of an ad for an order; a co-signed unlock or  *)
(* the order chain's SETTLED leaf pays it out; silence after the deadline, *)
(* or a dispute, returns it.  This is the only leg with a cancel clock.    *)
(*                                                                         *)
(* What the ad chain is shown of the order chain is its leaves under roots *)
(* the wired RootAnchor notarized (orderAnchored).  Proofs and signatures  *)
(* are external: an action is enabled where a valid one can be presented.  *)
(***************************************************************************)
EXTENDS DisputeManager, BLSKeyRegistry

CONSTANTS
  Ads,              \* ad ids
  MakerOf,          \* [Ads -> Makers], Ad.maker
  AdOf,             \* [Orders -> Ads], OrderParams.ad_id
  SignerOf,         \* [Orders -> Signers], OrderParams.ad_settlement_signer
  RecipientOf,      \* [Orders -> Parties], OrderParams.order_recipient
  FeesOf,           \* [Orders -> Fees], OrderParams.lp_fee_bps, protocol_fee_bps
  FeeChoices,       \* fee splits an admin may write
  AdPools,          \* the parties an admin may name as the ad chain's fee pool
  Deposits,         \* amounts a maker funds or withdraws
  MaxFunded,        \* bound: liquidity ever put into one ad
  Delays,           \* RootAnchor delays an admin may write
  ThisEscrow,       \* this contract, among Escrows
  HomeRegistry,     \* the registry wired at deployment
  ShownDomains,     \* bound: the leaves of the order chain that get anchored
  Levers            \* bound: the admin and maker levers the run lets anyone pull

VARIABLES
  adPaused,         \* the pause flag: entries only
  adFees,           \* the live fee split
  adPool,           \* the fee pool, or Nil
  adTiming,         \* the route's current timing version, 0 while unset
  adChain,          \* is the order chain supported
  adRoute,          \* is the ad's token routed to the order chain
  disputeManager,   \* the module new filings go to, or Nil
  keyRegistry,      \* the live key registry
  adVerifier,       \* the registry the wired root verifier reads, Nil if unset
  verifierChangedAt,\* when that wiring last changed
  anchorDelay,      \* the RootAnchor's delay for the order chain
  ad,               \* [Ads -> Ad or Nil]
  funded,           \* [Ads -> Nat], liquidity put in so far (for the bound)
  halt,             \* [Makers -> Halt]
  adStatus,         \* [Orders -> Status], OrderRecord.status
  adOrder,          \* [Orders -> OrderRecord], its other fields
  claimEnd,         \* [Orders -> Nat or Nil], ClaimRecord.finalize_at
  orderModule,      \* [Orders -> Modules or Nil], the module it was filed with
  ruledAs,          \* [Orders -> Outcome], the DisputeFinalized event
  adSettled,        \* orders whose SETTLED leaf is recorded
  adNullifiers,     \* co-signed nullifiers spent, each named by its order
  adInFlight,       \* [Signers -> Int], open positions
  adLeaves,         \* the leaves appended to this chain's Merkle manager
  orderAnchored,    \* [Leaves -> Nat], when an order-chain leaf was anchored here
  adVault,          \* the escrow's token balance
  adCredit,         \* [Parties -> Nat], claimable payouts
  adPaid            \* [Parties -> Nat], tokens paid out to recipients and pool

adConfig == <<adPaused, adFees, adPool, adTiming, adChain, adRoute,
              disputeManager, keyRegistry, adVerifier, verifierChangedAt,
              anchorDelay>>
adFunds  == <<ad, funded, adVault, adCredit, adPaid>>
adLegs   == <<adStatus, adOrder, claimEnd, orderModule, ruledAs, adInFlight>>
adProofs == <<adSettled, adNullifiers, adLeaves, orderAnchored>>
adVars   == <<adConfig, adFunds, adLegs, adProofs, halt>>

adChainVars == <<adNow, dmVars, registryVars, adVars>>

Fees == [lp_bps : 0..100, protocol_bps : 0..100]

Ad == [balance : Int, locked : Int, open : BOOLEAN, signer : Signers]

Halt == [halted : BOOLEAN, last_resumed_at : Nat]

OrderRecord ==
  [locked_at : Nat, timing_version : Versions, registry : Registries \cup {Nil},
   anchor_delay : Nat, pinned_slot : SlotIds, repinned : BOOLEAN]

NoOrder == [locked_at |-> 0, timing_version |-> 0, registry |-> Nil,
            anchor_delay |-> 0, pinned_slot |-> 0, repinned |-> FALSE]

-----------------------------------------------------------------------------
(* The clocks *)

Maker(o) == MakerOf[AdOf[o]]

\* Mutant: the clocks of the live tuple.
OrderTimingLive(o) == Timings[adTiming]

\* order_timing: the version the order opened under, never the live one.
OrderTiming(o) == Timings[adOrder[o].timing_version]

\* window_end
WindowEnd(o) ==
  IF adStatus[o] = "Claimed" THEN claimEnd[o]
  ELSE Deadline[o] + OrderTiming(o).buffer

\* presentation_cutoff: the first second the co-signed unlock is refused.
PresentationCutoff(o) == SatSub(WindowEnd(o), OrderTiming(o).margin)

\* registry_split: the wired verifier co-signs against another registry.
RegistrySplit(r) == adVerifier # Nil /\ adVerifier # r

\* Mutant: a halt counts while it is on, and a released one is forgotten.
HaltedNow(o) == halt[Maker(o)].halted

\* A halt in force at any point since the order's lock.
HaltedSinceLock(o) ==
  \/ halt[Maker(o)].halted
  \/ halt[Maker(o)].last_resumed_at >= adOrder[o].locked_at

\* The verifier is unwired, or its wiring changed after the lock's second.
VerifierGap(o) ==
  adVerifier = Nil \/ verifierChangedAt > adOrder[o].locked_at

\* The order's pinned slot stops at or before `until`.
PinExpiresBy(o, until) ==
  LET e == ExpiredAt(adOrder[o].registry, SignerOf[o], adOrder[o].pinned_slot)
  IN e # 0 /\ e <= until

\* co_sign_denied: a maker-side lever refused this order's co-signed payout.
CoSignDenied(o, until) ==
  \/ adOrder[o].repinned
  \/ HaltedSinceLock(o)
  \/ VerifierGap(o)
  \/ adOrder[o].registry # Nil /\ \/ RegistrySplit(adOrder[o].registry)
                                  \/ PinExpiresBy(o, until)

\* Mutant: the grace leaves out the anchor's delay.
EvidenceGraceBuffer(o) == OrderTiming(o).buffer

\* evidence_grace
EvidenceGrace(o) ==
  Later(anchorDelay, adOrder[o].anchor_delay) + OrderTiming(o).buffer

\* Mutant: the grace runs from now, so a denied cancel recedes.
CancelEndRolling(o) == Later(WindowEnd(o), adNow + EvidenceGrace(o))

\* cancel_end
CancelEnd(o) ==
  IF CoSignDenied(o, PresentationCutoff(o))
    THEN WindowEnd(o) + EvidenceGrace(o) ELSE WindowEnd(o)

\* dispute_end
DisputeEnd(o, outcome) ==
  LET until == dispute[orderModule[o]][o].challenge_deadline IN
  IF outcome # "MakerForfeit" /\ CoSignDenied(o, until)
    THEN until + EvidenceGrace(o) ELSE until

\* require_anchored and the leaf's inclusion proof: some root holding the leaf
\* has been anchored for the route's delay.
Provable(leaf) ==
  orderAnchored[leaf] # 0 /\ adNow >= orderAnchored[leaf] + anchorDelay

-----------------------------------------------------------------------------
(* Money *)

BpsOf(amount, bps) == (amount * bps) \div 10000

\* Mutant: the fee is charged at the live rate.
LpFeeLive(o) == BpsOf(Amount[o], adFees.lp_bps)

\* split_fee on the order's own rates
LpFee(o)       == BpsOf(Amount[o], FeesOf[o].lp_bps)
ProtocolFee(o) == BpsOf(Amount[o], FeesOf[o].protocol_bps)

\* pay_net: the recipient's net, then the protocol's fee if a pool is set.
\* Each transfer may fail, and is then credited (pay_or_credit).
PayNet(to, net, protocolFee) ==
  \E sent \in SUBSET {"recipient", "pool"} :
    LET fee      == IF adPool # Nil THEN protocolFee ELSE 0
        toOf(p)  == IF p = to THEN net ELSE 0
        feeOf(p) == IF p = adPool THEN fee ELSE 0
    IN /\ to \notin Unpayable => "recipient" \in sent
       /\ fee = 0 \/ adPool \notin Unpayable => "pool" \in sent
       /\ adPaid' = [p \in Parties |-> adPaid[p]
                       + (IF "recipient" \in sent THEN toOf(p) ELSE 0)
                       + (IF "pool" \in sent THEN feeOf(p) ELSE 0)]
       /\ adCredit' = [p \in Parties |-> adCredit[p]
                         + (IF "recipient" \in sent THEN 0 ELSE toOf(p))
                         + (IF "pool" \in sent THEN 0 ELSE feeOf(p))]
       /\ adVault' = adVault - (IF "recipient" \in sent THEN net ELSE 0)
                             - (IF "pool" \in sent THEN fee ELSE 0)

\* Mutant: the LP fee leaves the ad with the payout.
LeavesAdWhole(o, lpFee) == Amount[o]

\* What a payout takes out of the ad's balance.
LeavesAd(o, lpFee) == Amount[o] - lpFee

\* pay_from_ad and charge_fee: the lock is released, the LP fee stays in the
\* ad, the rest leaves it.  A forfeiting maker keeps no LP fee.
ReleaseToRecipient(o, lpFee) ==
  /\ ad' = [ad EXCEPT ![AdOf[o]].locked = @ - Amount[o],
                      ![AdOf[o]].balance = @ - LeavesAd(o, lpFee)]
  /\ PayNet(RecipientOf[o], Amount[o] - lpFee - ProtocolFee(o), ProtocolFee(o))
  /\ UNCHANGED funded

ReleaseToAd(o) ==
  /\ ad' = [ad EXCEPT ![AdOf[o]].locked = @ - Amount[o]]
  /\ UNCHANGED <<funded, adVault, adCredit, adPaid>>

\* Mutant: the claim record outlives the claim.
EndLegKeepsClaim(o, status) ==
  /\ adStatus' = [adStatus EXCEPT ![o] = status]
  /\ adInFlight' = [adInFlight EXCEPT ![SignerOf[o]] = @ - 1]
  /\ UNCHANGED <<adOrder, orderModule, claimEnd>>

\* Mutant: the position is counted out of the ad's current signer.
EndLegLiveSigner(o, status) ==
  /\ adStatus' = [adStatus EXCEPT ![o] = status]
  /\ claimEnd' = [claimEnd EXCEPT ![o] = Nil]
  /\ adInFlight' = [adInFlight EXCEPT ![ad[AdOf[o]].signer] = @ - 1]
  /\ UNCHANGED <<adOrder, orderModule>>

\* fill, cancel and resolve: the status flips, the claim goes, the position is
\* counted out.
EndLeg(o, status) ==
  /\ adStatus' = [adStatus EXCEPT ![o] = status]
  /\ claimEnd' = [claimEnd EXCEPT ![o] = Nil]
  /\ adInFlight' = [adInFlight EXCEPT ![SignerOf[o]] = @ - 1]
  /\ UNCHANGED <<adOrder, orderModule>>

\* Mutant: the bond is settled in the module new filings go to.
CloseDisputeLive(o, outcome) ==
  IF Disputed(disputeManager, o)
    THEN LET filerIsBridger == dispute[disputeManager][o].initiator # Maker(o)
         IN SettleBond(disputeManager, ThisEscrow, o, outcome, filerIsBridger, FALSE)
    ELSE UNCHANGED dmVars

\* close_dispute: evidence ends any dispute the order has, in the module it was
\* filed with; the bond follows what the proof shows, except that a bridger who
\* filed while the payout was denied gets it back.
CloseDispute(o, outcome) ==
  LET m == orderModule[o] IN
  IF m # Nil /\ Disputed(m, o)
    THEN LET filerIsBridger == dispute[m][o].initiator # Maker(o)
         IN SettleBond(m, ThisEscrow, o, outcome, filerIsBridger,
                       filerIsBridger /\ CoSignDenied(o, PresentationCutoff(o)))
    ELSE UNCHANGED dmVars

\* require_registered
RequireRegistered(signer, maker) ==
  /\ HasUsableSlot(keyRegistry, signer)
  /\ signer = maker \/ IsApprovedMaker(keyRegistry, signer, maker)

\* has_open_positions, as the registries' position guard asks it.
AdOpenPositions(signer) == adInFlight[signer] > 0

-----------------------------------------------------------------------------
(* The deployed and wired escrow, before any ad *)

AdManagerInit ==
  /\ adPaused = FALSE
  /\ adFees \in FeeChoices
  /\ adPool \in AdPools \cup {Nil}
  /\ adFees.protocol_bps # 0 => adPool # Nil
  /\ adTiming = 1
  /\ adChain = TRUE
  /\ adRoute = TRUE
  /\ disputeManager \in Modules
  /\ keyRegistry = HomeRegistry
  /\ adVerifier = HomeRegistry
  /\ verifierChangedAt = adNow
  /\ anchorDelay \in Delays
  /\ ad = [a \in Ads |-> Nil]
  /\ funded = [a \in Ads |-> 0]
  /\ halt = [mk \in Makers |-> [halted |-> FALSE, last_resumed_at |-> 0]]
  /\ adStatus = [o \in Orders |-> "None"]
  /\ adOrder = [o \in Orders |-> NoOrder]
  /\ claimEnd = [o \in Orders |-> Nil]
  /\ orderModule = [o \in Orders |-> Nil]
  /\ ruledAs = [o \in Orders |-> "None"]
  /\ adSettled = {}
  /\ adNullifiers = {}
  /\ adInFlight = [s \in Signers |-> 0]
  /\ adLeaves = {}
  /\ orderAnchored = [leaf \in Leaves |-> 0]
  /\ adVault = 0
  /\ adCredit = [p \in Parties |-> 0]
  /\ adPaid = [p \in Parties |-> 0]

-----------------------------------------------------------------------------
(* The admin.  Each changes the configuration only; the timelock each passes  *)
(* through only delays it.                                                    *)

AdPause(paused) ==
  /\ adPaused' = paused
  /\ UNCHANGED <<adFees, adPool, adTiming, adChain, adRoute, disputeManager,
                 keyRegistry, adVerifier, verifierChangedAt, anchorDelay>>

\* set_fee_bps: a protocol fee needs the pool set.
SetFeeBps(fees) ==
  /\ fees.protocol_bps # 0 => adPool # Nil
  /\ adFees' = fees
  /\ UNCHANGED <<adPaused, adPool, adTiming, adChain, adRoute, disputeManager,
                 keyRegistry, adVerifier, verifierChangedAt, anchorDelay>>

\* set_protocol_fee_pool
SetAdPool(pool) ==
  /\ adPool' = pool
  /\ UNCHANGED <<adPaused, adFees, adTiming, adChain, adRoute, disputeManager,
                 keyRegistry, adVerifier, verifierChangedAt, anchorDelay>>

\* set_route_timing: a new version; no version is ever edited.
SetRouteTiming ==
  /\ adTiming + 1 \in Versions
  /\ adTiming' = adTiming + 1
  /\ UNCHANGED <<adPaused, adFees, adPool, adChain, adRoute, disputeManager,
                 keyRegistry, adVerifier, verifierChangedAt, anchorDelay>>

\* set_chain and remove_chain; removing the chain leaves its route's entry.
SetChain(supported) ==
  /\ adChain' = supported
  /\ UNCHANGED <<adPaused, adFees, adPool, adTiming, adRoute, disputeManager,
                 keyRegistry, adVerifier, verifierChangedAt, anchorDelay>>

\* set_token_route, which needs the chain, and remove_token_route.
SetTokenRoute(routed) ==
  /\ routed => adChain
  /\ adRoute' = routed
  /\ UNCHANGED <<adPaused, adFees, adPool, adTiming, adChain, disputeManager,
                 keyRegistry, adVerifier, verifierChangedAt, anchorDelay>>

\* set_dispute_manager: new filings only (C-11).
SetDisputeManager(m) ==
  /\ disputeManager' = m
  /\ UNCHANGED <<adPaused, adFees, adPool, adTiming, adChain, adRoute,
                 keyRegistry, adVerifier, verifierChangedAt, anchorDelay>>

\* set_key_registry: a new epoch; live orders keep theirs (#465).
SetKeyRegistry(r) ==
  /\ keyRegistry' = r
  /\ UNCHANGED <<adPaused, adFees, adPool, adTiming, adChain, adRoute,
                 disputeManager, adVerifier, verifierChangedAt, anchorDelay>>

\* set_root_verifier to one reading registry r, or unset_root_verifier (Nil).
SetRootVerifier(r) ==
  /\ adVerifier' = r
  /\ verifierChangedAt' = adNow
  /\ UNCHANGED <<adPaused, adFees, adPool, adTiming, adChain, adRoute,
                 disputeManager, keyRegistry, anchorDelay>>

\* RootAnchor.set_anchor_delay
SetAnchorDelay(d) ==
  /\ anchorDelay' = d
  /\ UNCHANGED <<adPaused, adFees, adPool, adTiming, adChain, adRoute,
                 disputeManager, keyRegistry, adVerifier, verifierChangedAt>>

-----------------------------------------------------------------------------
(* The maker *)

\* Mutant: locked liquidity counts as available.
FreeAll(a) == ad[a].balance

\* What no order has locked: available to a lock and to a withdrawal.
Free(a) == ad[a].balance - ad[a].locked

\* create_ad: the initial amount is pulled from the maker.
CreateAd(a, amount, signer) ==
  /\ ~adPaused
  /\ amount # 0
  /\ adRoute
  /\ ad[a] = Nil
  /\ RequireRegistered(signer, MakerOf[a])
  /\ funded[a] + amount <= MaxFunded
  /\ ad' = [ad EXCEPT ![a] =
              [balance |-> amount, locked |-> 0, open |-> TRUE, signer |-> signer]]
  /\ funded' = [funded EXCEPT ![a] = @ + amount]
  /\ adVault' = adVault + amount
  /\ UNCHANGED <<adCredit, adPaid>>

\* fund_ad
FundAd(a, amount) ==
  /\ ~adPaused
  /\ ad[a] # Nil /\ ad[a].open
  /\ amount # 0
  /\ funded[a] + amount <= MaxFunded
  /\ ad' = [ad EXCEPT ![a].balance = @ + amount]
  /\ funded' = [funded EXCEPT ![a] = @ + amount]
  /\ adVault' = adVault + amount
  /\ UNCHANGED <<adCredit, adPaid>>

\* withdraw_from_ad: an exit, never paused.
WithdrawFromAd(a, amount) ==
  /\ ad[a] # Nil
  /\ amount # 0
  /\ amount <= Free(a)
  /\ ad' = [ad EXCEPT ![a].balance = @ - amount]
  /\ adVault' = adVault - amount
  /\ UNCHANGED <<funded, adCredit, adPaid>>

\* close_ad: the whole balance goes back, and only an unlocked ad closes.
CloseAd(a) ==
  /\ ad[a] # Nil
  /\ ad[a].locked = 0
  /\ ad' = [ad EXCEPT ![a].balance = 0, ![a].open = FALSE]
  /\ adVault' = adVault - ad[a].balance
  /\ UNCHANGED <<funded, adCredit, adPaid>>

\* set_settlement_signer: any time; live orders keep the signer in their hash.
SetSettlementSigner(a, signer) ==
  /\ ad[a] # Nil
  /\ RequireRegistered(signer, MakerOf[a])
  /\ ad' = [ad EXCEPT ![a].signer = signer]
  /\ UNCHANGED <<funded, adVault, adCredit, adPaid>>

\* halt_settlement
HaltSettlement(mk) ==
  halt' = [halt EXCEPT ![mk].halted = TRUE]

\* resume_settlement
ResumeSettlement(mk) ==
  /\ halt[mk].halted
  /\ halt' = [halt EXCEPT ![mk] = [halted |-> FALSE, last_resumed_at |-> adNow]]

\* Mutant: the order is stamped with the version after the route's.
OpenOrderNextVersion(pin) ==
  [locked_at |-> adNow, timing_version |-> adTiming + 1,
   registry |-> keyRegistry, anchor_delay |-> anchorDelay,
   pinned_slot |-> pin, repinned |-> FALSE]

\* open_order: what the order will be judged by, whatever is wired later.
OpenOrder(pin) ==
  [locked_at |-> adNow, timing_version |-> adTiming,
   registry |-> keyRegistry, anchor_delay |-> anchorDelay,
   pinned_slot |-> pin, repinned |-> FALSE]

\* lock_for_order: every check of the entry, then the reservation.
LockForOrder(o, pin) ==
  LET a == AdOf[o]  t == Timings[adTiming] IN
  /\ ~adPaused
  /\ ad[a] # Nil /\ ad[a].open
  /\ adChain /\ adRoute
  /\ ad[a].signer = SignerOf[o]
  /\ FeesOf[o] = adFees
  /\ RequireRegistered(SignerOf[o], MakerOf[a])
  /\ SlotUsable(keyRegistry, SignerOf[o], pin)
  /\ adNow + t.min_window <= Deadline[o]
  /\ Deadline[o] <= adNow + MaxOrderWindow
  /\ ~RegistrySplit(keyRegistry)
  /\ Amount[o] <= Free(a)
  /\ adStatus[o] = "None"
  /\ ad' = [ad EXCEPT ![a].locked = @ + Amount[o]]
  /\ adStatus' = [adStatus EXCEPT ![o] = "Open"]
  /\ adOrder' = [adOrder EXCEPT ![o] = OpenOrder(pin)]
  /\ adInFlight' = [adInFlight EXCEPT ![SignerOf[o]] = @ + 1]
  /\ adLeaves' = adLeaves \cup {<<o, "ORDER">>}
  /\ UNCHANGED <<dmVars, funded, adVault, adCredit, adPaid, claimEnd,
                 orderModule, ruledAs, adSettled, adNullifiers, orderAnchored>>

-----------------------------------------------------------------------------
(* Settlement *)

\* Mutant: whatever was locked once may still be presented for.
AdPresentableOnce(o) == adStatus[o] # "None"

\* require_settleable and require_presentable: evidence may still end the order.
AdPresentable(o) == adStatus[o] \in Live

\* unlock: the co-signed payout, valid before the presentation cutoff.  The
\* co-signature the verifier accepts is by the key of the pinned slot.
Unlock(o) ==
  /\ AdPresentable(o)
  /\ o \notin adNullifiers
  /\ adNow < PresentationCutoff(o)
  /\ ~halt[Maker(o)].halted
  /\ adVerifier # Nil
  /\ SlotUsable(adVerifier, SignerOf[o], adOrder[o].pinned_slot)
  /\ adNullifiers' = adNullifiers \cup {o}
  /\ CloseDispute(o, "TradeProceeds")
  /\ EndLeg(o, "Filled")
  /\ ReleaseToRecipient(o, LpFee(o))
  /\ UNCHANGED <<ruledAs, adSettled, adLeaves, orderAnchored>>

\* present_settled: the order leg's SETTLED leaf; no clock, no nullifier.
PresentSettled(o) ==
  /\ AdPresentable(o)
  /\ Provable(<<o, "SETTLED">>)
  /\ CloseDispute(o, "TradeProceeds")
  /\ EndLeg(o, "Filled")
  /\ ReleaseToRecipient(o, LpFee(o))
  /\ UNCHANGED <<ruledAs, adProofs>>

\* Mutant: the order is marked recorded, and no leaf is appended.
RecordSettledNoLeaf(o) ==
  /\ adStatus[o] = "Filled"
  /\ o \notin adSettled
  /\ adSettled' = adSettled \cup {o}
  /\ UNCHANGED <<dmVars, adFunds, adLegs, adNullifiers, adLeaves, orderAnchored>>

\* record_settled: the SETTLED leaf of a filled order, once.
RecordSettled(o) ==
  /\ adStatus[o] = "Filled"
  /\ o \notin adSettled
  /\ adSettled' = adSettled \cup {o}
  /\ adLeaves' = adLeaves \cup {<<o, "SETTLED">>}
  /\ UNCHANGED <<dmVars, adFunds, adLegs, adNullifiers, orderAnchored>>

\* claim: a transfer that fails reverts, so only what arrives clears a credit.
ClaimPayout(p) ==
  /\ adCredit[p] # 0
  /\ adPaid' = [adPaid EXCEPT ![p] = @ + adCredit[p]]
  /\ adCredit' = [adCredit EXCEPT ![p] = 0]
  /\ adVault' = adVault - adCredit[p]
  /\ UNCHANGED <<dmVars, ad, funded, adLegs, adProofs>>

-----------------------------------------------------------------------------
(* Termination *)

\* claim_cancel: the window ends at deadline + buffer whenever the claim lands.
ClaimCancel(o) ==
  /\ adStatus[o] = "Open"
  /\ adNow >= Deadline[o]
  /\ claimEnd' = [claimEnd EXCEPT ![o] = WindowEnd(o)]
  /\ adStatus' = [adStatus EXCEPT ![o] = "Claimed"]
  /\ UNCHANGED <<dmVars, adFunds, adOrder, orderModule, ruledAs, adInFlight,
                 adProofs>>

\* finalize_cancel: an unanswered claim, past its window and any grace.
FinalizeCancel(o) ==
  /\ adStatus[o] = "Claimed"
  /\ adNow >= CancelEnd(o)
  /\ EndLeg(o, "Cancelled")
  /\ ReleaseToAd(o)
  /\ adLeaves' = adLeaves \cup {<<o, "CANCEL">>}
  /\ UNCHANGED <<dmVars, ruledAs, adSettled, adNullifiers, orderAnchored>>

\* cancel_never_locked: an order deposited for, whose deadline passed unlocked.
CancelNeverLocked(o) ==
  /\ adStatus[o] = "None"
  /\ adNow >= Deadline[o]
  /\ adChain
  /\ adTiming # 0
  /\ Provable(<<o, "AD">>)
  /\ adStatus' = [adStatus EXCEPT ![o] = "Cancelled"]
  /\ adLeaves' = adLeaves \cup {<<o, "CANCEL">>}
  /\ UNCHANGED <<dmVars, adFunds, adOrder, claimEnd, orderModule, ruledAs,
                 adInFlight, adSettled, adNullifiers, orderAnchored>>

\* dispute and open_dispute: by a party, inside [lock, window end); the module
\* is remembered, the claim goes.
Dispute(o, filer) ==
  /\ filer \in {Maker(o), RecipientOf[o]}
  /\ adStatus[o] \in {"Open", "Claimed"}
  /\ adNow < WindowEnd(o)
  /\ disputeManager # Nil
  /\ OpenDispute(disputeManager, ThisEscrow, o, filer, Deadline[o],
                 OrderTiming(o).buffer, Amount[o])
  /\ orderModule' = [orderModule EXCEPT ![o] = disputeManager]
  /\ adStatus' = [adStatus EXCEPT ![o] = "Disputed"]
  /\ claimEnd' = [claimEnd EXCEPT ![o] = Nil]
  /\ UNCHANGED <<adFunds, adOrder, ruledAs, adInFlight, adProofs>>

\* respond_to_dispute
RespondToDispute(o, responder) ==
  /\ adStatus[o] = "Disputed"
  /\ responder \in {Maker(o), RecipientOf[o]}
  /\ RecordResponse(orderModule[o], ThisEscrow, o, responder)
  /\ UNCHANGED <<adFunds, adLegs, adProofs>>

\* Mutant: every ruling tells the order chain to refund.
VerdictCancels(outcome) == "CANCEL"

\* What a ruling tells the order chain.
Verdict(outcome) == IF outcome = "BridgerForfeit" THEN "FORFEIT" ELSE "CANCEL"

\* finalize_dispute: applies the ruling, or the mutual refund without one, and
\* tells the order chain which it was.
FinalizeDispute(o) ==
  /\ adStatus[o] = "Disputed"
  /\ WindowOver(orderModule[o], o)
  /\ LET m       == orderModule[o]
         outcome == SettledOutcome(m, o)
     IN /\ adNow >= DisputeEnd(o, outcome)
        /\ IF outcome = "MakerForfeit" THEN ReleaseToRecipient(o, 0)
                                       ELSE ReleaseToAd(o)
        /\ EndLeg(o, "Resolved")
        /\ SettleBond(m, ThisEscrow, o, outcome,
                      dispute[m][o].initiator # Maker(o), FALSE)
        /\ ruledAs' = [ruledAs EXCEPT ![o] = outcome]
        /\ adLeaves' = adLeaves \cup {<<o, Verdict(outcome)>>}
  /\ UNCHANGED <<adSettled, adNullifiers, orderAnchored>>

\* repin_order: applies the signer's consent; the order is stamped re-pinned.
RepinOrder(o) ==
  LET r == adOrder[o].registry  c == repin[r][o] IN
  /\ adStatus[o] = "Open"
  /\ adNow <= SatSub(Deadline[o], OrderTiming(o).claim_stagger)
  /\ c.nonce # 0
  /\ c.from = adOrder[o].pinned_slot
  /\ SlotUsable(r, SignerOf[o], c.to)
  /\ adOrder' = [adOrder EXCEPT ![o].pinned_slot = c.to, ![o].repinned = TRUE]
  /\ UNCHANGED <<dmVars, adFunds, adStatus, claimEnd, orderModule, ruledAs,
                 adInFlight, adProofs>>

-----------------------------------------------------------------------------
(* The order chain, as its anchored roots show it *)

\* RootAnchor.anchor of a root that holds the leaf.  A later anchoring of
\* another such root changes nothing: some root holding it is already known.
AnchorOrderLeaf(leaf) ==
  /\ orderAnchored[leaf] = 0
  /\ orderAnchored' = [orderAnchored EXCEPT ![leaf] = adNow]

\* set_root_anchor to another deployment, which has anchored nothing yet.
SetRootAnchor(d) ==
  /\ anchorDelay' = d
  /\ orderAnchored' = [leaf \in Leaves |-> 0]
  /\ UNCHANGED <<adPaused, adFees, adPool, adTiming, adChain, adRoute,
                 disputeManager, keyRegistry, adVerifier, verifierChangedAt>>

-----------------------------------------------------------------------------
(* Next.  A lever no run pulls is a lever nobody pulls. *)

On(lever) == lever \in Levers

AdAdminNext ==
  /\ \/ On("pause")    /\ \E b \in BOOLEAN : AdPause(b)
     \/ On("fees")     /\ \E f \in FeeChoices : SetFeeBps(f)
     \/ On("fees")     /\ \E p \in AdPools : SetAdPool(p)
     \/ On("timing")   /\ SetRouteTiming
     \/ On("route")    /\ \E b \in BOOLEAN : SetChain(b)
     \/ On("route")    /\ \E b \in BOOLEAN : SetTokenRoute(b)
     \/ On("dispute")  /\ \E m \in Modules : SetDisputeManager(m)
     \/ On("registry") /\ \E r \in Registries : SetKeyRegistry(r)
     \/ On("verifier") /\ \E r \in Registries \cup {Nil} : SetRootVerifier(r)
     \/ On("delay")    /\ \E d \in Delays : SetAnchorDelay(d)
  /\ UNCHANGED <<adNow, dmVars, registryVars, adFunds, adLegs, adProofs, halt>>

AdAnchorNext ==
  /\ On("anchor") /\ \E d \in Delays : SetRootAnchor(d)
  /\ UNCHANGED <<adNow, dmVars, registryVars, adFunds, adLegs, adSettled,
                 adNullifiers, adLeaves, halt>>

AdMakerNext ==
  /\ \/ \E a \in Ads, n \in Deposits, s \in Signers : CreateAd(a, n, s)
     \/ On("funds")  /\ \E a \in Ads, n \in Deposits : FundAd(a, n)
     \/ On("funds")  /\ \E a \in Ads, n \in Deposits : WithdrawFromAd(a, n)
     \/ On("funds")  /\ \E a \in Ads : CloseAd(a)
     \/ On("signer") /\ \E a \in Ads, s \in Signers : SetSettlementSigner(a, s)
  /\ UNCHANGED <<adNow, dmVars, registryVars, adConfig, adLegs, adProofs, halt>>

AdHaltNext ==
  /\ On("halt") /\ \E mk \in Makers : HaltSettlement(mk) \/ ResumeSettlement(mk)
  /\ UNCHANGED <<adNow, dmVars, registryVars, adConfig, adFunds, adLegs, adProofs>>

\* The registry's owner-authorized operations; its position guard asks this
\* escrow.
AdRegistryNext ==
  /\ \/ /\ On("slots")
        /\ \E r \in Registries, s \in Signers :
             \/ Register(r, s, AdOpenPositions(s))
             \/ \E i \in SlotIds, t \in 1..MaxTime : SetValidUntil(r, s, i, t)
             \/ Revoke(r, s, AdOpenPositions(s))
     \/ /\ On("approvals")
        /\ \E r \in Registries, s \in Signers, mk \in Makers, b \in BOOLEAN :
             ApproveMaker(r, s, mk, b)
     \/ /\ On("repin")
        /\ \E r \in Registries, o \in Orders, i, j \in SlotIds :
             ApproveRepin(r, o, i, j)
  /\ UNCHANGED <<adNow, dmVars, adVars>>

\* What moves an order, but for the co-signed unlock.
AdOrderNext ==
  /\ \E o \in Orders :
       \/ \E pin \in SlotIds : LockForOrder(o, pin)
       \/ PresentSettled(o)
       \/ RecordSettled(o)
       \/ ClaimCancel(o)
       \/ FinalizeCancel(o)
       \/ CancelNeverLocked(o)
       \/ \E p \in Parties : Dispute(o, p) \/ RespondToDispute(o, p)
       \/ FinalizeDispute(o)
       \/ RepinOrder(o)
  /\ UNCHANGED <<adNow, registryVars, adConfig, halt>>

AdUnlockNext(o) ==
  Unlock(o) /\ UNCHANGED <<adNow, registryVars, adConfig, halt>>

AdClaimNext ==
  (\E p \in Parties : ClaimPayout(p)) /\ UNCHANGED <<adNow, registryVars, adConfig, halt>>

AdModuleNext ==
  /\ \/ On("module") /\ DisputeManagerAdminNext
     \/ DisputeManagerPublicNext
  /\ UNCHANGED <<adNow, registryVars, adVars>>

AdAnchorLeafNext(leaf) ==
  /\ AnchorOrderLeaf(leaf)
  /\ UNCHANGED <<adNow, dmVars, registryVars, adConfig, adFunds, adLegs,
                 adSettled, adNullifiers, adLeaves, halt>>

OrderChainLeaves == Orders \X ShownDomains

AdTickNext == AdTick /\ UNCHANGED <<dmVars, registryVars, adVars>>

AdLocalNext ==
  \/ AdAdminNext \/ AdAnchorNext \/ AdMakerNext \/ AdHaltNext \/ AdRegistryNext
  \/ AdOrderNext \/ AdClaimNext \/ AdModuleNext

AdInit ==
  AdLedgerInit /\ DisputeManagerInit /\ BLSKeyRegistryInit /\ AdManagerInit

AdNext ==
  \/ AdLocalNext
  \/ \E o \in Orders : AdUnlockNext(o)
  \/ \E leaf \in OrderChainLeaves : AdAnchorLeafNext(leaf)
  \/ AdTickNext

\* The ad chain against an order chain that may show it anything.
AdSpec == AdInit /\ [][AdNext]_adChainVars

-----------------------------------------------------------------------------
(* Properties *)

AdConfigTypeOK ==
  /\ adPaused \in BOOLEAN /\ adFees \in Fees /\ adPool \in AdPools \cup {Nil}
  /\ adTiming \in Versions \ {0}
  /\ adChain \in BOOLEAN /\ adRoute \in BOOLEAN
  /\ disputeManager \in Modules
  /\ keyRegistry \in Registries /\ adVerifier \in Registries \cup {Nil}
  /\ verifierChangedAt \in Nat /\ anchorDelay \in Nat
  /\ halt \in [Makers -> Halt]

AdFundsTypeOK ==
  /\ ad \in [Ads -> Ad \cup {Nil}]
  /\ funded \in [Ads -> Nat]
  /\ adVault \in Int
  /\ adCredit \in [Parties -> Int] /\ adPaid \in [Parties -> Int]

AdLegsTypeOK ==
  /\ adStatus \in [Orders -> Status]
  /\ adOrder \in [Orders -> OrderRecord]
  /\ claimEnd \in [Orders -> Nat \cup {Nil}]
  /\ orderModule \in [Orders -> Modules \cup {Nil}]
  /\ ruledAs \in [Orders -> Outcome]
  /\ adInFlight \in [Signers -> Int]

AdProofsTypeOK ==
  /\ adSettled \subseteq Orders /\ adNullifiers \subseteq Orders
  /\ adLeaves \subseteq Leaves
  /\ orderAnchored \in [Leaves -> Nat]

\* Every variable holds a value of its type.  That no balance goes below zero
\* is more than a type says here: see LockedMatchesOrders and VaultBacked.
AdManagerTypeOK ==
  /\ AdLedgerTypeOK /\ DisputeManagerTypeOK /\ BLSKeyRegistryTypeOK
  /\ AdConfigTypeOK /\ AdFundsTypeOK /\ AdLegsTypeOK /\ AdProofsTypeOK

\* A claimed order, and no other, has a claim, and its window ends where it
\* would have ended unclaimed: claim_cancel, dispute and every exit agree on
\* when ClaimRecord exists, and a late claim shortens nobody's window.
ClaimIffClaimed ==
  \A o \in Orders :
    /\ adStatus[o] = "Claimed" <=> claimEnd[o] # Nil
    /\ claimEnd[o] # Nil => claimEnd[o] = Deadline[o] + OrderTiming(o).buffer

\* An order is Disputed exactly while the module it was filed with holds a
\* record of it, and no other module does.  A Disputed order with no record can
\* never be finalized; a record of an order not Disputed strands its bond.
DisputedIffRecord ==
  \A o \in Orders :
    /\ adStatus[o] = "Disputed" =>
         orderModule[o] # Nil /\ Disputed(orderModule[o], o)
    /\ \A m \in Modules : Disputed(m, o) =>
         /\ adStatus[o] = "Disputed" /\ orderModule[o] = m
         /\ dispute[m][o].escrow = ThisEscrow

\* The leaves tell the order chain one verdict per order, and the one this leg
\* reached: the order leg refunds on CANCEL and pays on SETTLED or FORFEIT, so
\* two leaves of one order would let it do either.
OneVerdict ==
  \A o \in Orders :
    /\ <<o, "CANCEL">> \in adLeaves <=>
         \/ adStatus[o] = "Cancelled"
         \/ adStatus[o] = "Resolved" /\ ruledAs[o] # "BridgerForfeit"
    /\ <<o, "FORFEIT">> \in adLeaves <=>
         adStatus[o] = "Resolved" /\ ruledAs[o] = "BridgerForfeit"
    /\ <<o, "SETTLED">> \in adLeaves => adStatus[o] = "Filled"

\* A lock handed back, by a cancel or by any ruling, was held through the whole
\* presentation window of the timing it opened under, whatever the admin, the
\* maker or the arbiter did meanwhile.
NoEarlyRelease ==
  \A o \in Orders :
    adStatus[o] \in {"Cancelled", "Resolved"} /\ adOrder[o].timing_version # 0 =>
      adNow >= Deadline[o] + OrderTiming(o).buffer

LiveFor(s) == {o \in Orders : SignerOf[o] = s /\ adStatus[o] \in Live}

\* A registry drops no key while its account has an order open here: the
\* counter the position guard reads is the number of live orders it settles.
InFlightCountsLive == \A s \in Signers : adInFlight[s] = Cardinality(LiveFor(s))

\* The live orders that draw on an ad, and what an ad holds.
LiveOf(a) == {o \in Orders : AdOf[o] = a /\ adStatus[o] \in Live}
AdBalance == [a \in Ads |-> IF ad[a] = Nil THEN 0 ELSE ad[a].balance]

\* What an ad has locked is what its live orders reserved, and never more than
\* it holds: every entry that locks has exactly one exit that unlocks.
LockedMatchesOrders ==
  \A a \in Ads : ad[a] # Nil =>
    /\ ad[a].locked = SumOver(LiveOf(a), Amount)
    /\ ad[a].locked <= ad[a].balance

\* The escrow's tokens are exactly the ads' balances and the credits it owes:
\* no fee, bond, failed transfer or forfeit leaks or strands any.
VaultBacked == adVault = SumOver(Ads, AdBalance) + SumOver(Parties, adCredit)

\* What an order paid out to its recipient and to the pool: nothing unless it
\* was filled or its maker forfeited, and the maker keeps an LP fee on a fill only.
Forfeited(o) == adStatus[o] = "Resolved" /\ ruledAs[o] = "MakerForfeit"
NetOf == [o \in Orders |->
  IF adStatus[o] = "Filled"
    THEN Amount[o] - BpsOf(Amount[o], FeesOf[o].lp_bps) - ProtocolFee(o)
  ELSE IF Forfeited(o) THEN Amount[o] - ProtocolFee(o) ELSE 0]
PoolCut == [o \in Orders |->
  IF adStatus[o] = "Filled" \/ Forfeited(o) THEN ProtocolFee(o) ELSE 0]

\* What a party was sent or may claim, and the orders made out to it.
AdReceived == [p \in Parties |-> adPaid[p] + adCredit[p]]
OrdersFor(P) == {o \in Orders : RecipientOf[o] \in P}

\* Every recipient has been paid or credited exactly once for each order that
\* owes it, and the pools, between them, exactly their cut of every order.
AdPaidOnce ==
  /\ \A p \in Parties \ AdPools : AdReceived[p] = SumOver(OrdersFor({p}), NetOf)
  /\ SumOver(AdPools, AdReceived) =
       SumOver(OrdersFor(AdPools), NetOf) + SumOver(Orders, PoolCut)

EndedLegsStay ==
  \A o \in Orders : adStatus[o] \in Terminal =>
    /\ adStatus'[o] = adStatus[o]
    /\ adOrder'[o] = adOrder[o]
    /\ ruledAs'[o] = ruledAs[o]

\* A leg that ended stays as it ended, and its record is what it was judged by:
\* no late claim, dispute, proof, re-pin or second lock reopens it.
TerminalForever == [][EndedLegsStay]_adChainVars

LiveWindowsStay ==
  \A o \in Orders : adStatus[o] \in Live /\ adStatus'[o] \in Live =>
    WindowEnd(o)' = WindowEnd(o)

\* The presentation window of a live order never moves: not by a retiming, a
\* claim, a dispute or a ruling.
WindowFixed == [][LiveWindowsStay]_adChainVars

ASSUME AdManagerAssumption ==
  /\ MakerOf \in [Ads -> Makers]
  /\ AdOf \in [Orders -> Ads]
  /\ SignerOf \in [Orders -> Signers]
  /\ RecipientOf \in [Orders -> Parties]
  /\ \A o \in Orders : RecipientOf[o] # Maker(o)
  /\ Makers \subseteq Parties
  /\ FeesOf \in [Orders -> Fees] /\ FeeChoices \subseteq Fees
  /\ AdPools \subseteq Parties
  /\ Deposits \subseteq Nat /\ MaxFunded \in Nat
  /\ Delays \subseteq Nat
  \* The order portal appends no other.
  /\ ShownDomains \subseteq {"AD", "SETTLED"}
  /\ ThisEscrow \in Escrows
  /\ HomeRegistry \in Registries
  /\ Len(Timings) >= 1
  /\ Nil \notin Modules /\ Nil \notin Registries /\ Nil \notin Parties
  /\ Nil \notin Ad /\ Nil \notin Nat

\* An ad id is a string in a storage key, whose size the ledger bounds: there are
\* finitely many ads to sum over.
ASSUME FiniteAds == IsFiniteSet(Ads)
=============================================================================
