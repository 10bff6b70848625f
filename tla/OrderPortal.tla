---------------------------- MODULE OrderPortal ----------------------------
(***************************************************************************)
(* The order chain's escrow, the follower leg of every trade.  A bridger   *)
(* deposits; the deposit goes to the maker on a co-signed unlock, or on    *)
(* the ad leg's SETTLED or FORFEIT leaf, and back to the bridger only on   *)
(* its CANCEL leaf.  This leg has one clock, the last second of the        *)
(* co-signed unlock, and no cancel, claim or dispute of its own.           *)
(*                                                                         *)
(* What the order chain is shown of the ad chain is its leaves under roots *)
(* the wired RootAnchor notarized (adAnchored).  Proofs and signatures are *)
(* external: an action is enabled where a valid one can be presented.      *)
(***************************************************************************)
EXTENDS ProofBridgeCore

CONSTANTS
  Accounts,         \* accounts on the order chain
  BridgerOf,        \* [Orders -> Accounts], OrderParams.bridger
  AdRecipientOf,    \* [Orders -> Accounts], OrderParams.ad_recipient
  Deposit,          \* [Orders -> Nat], OrderParams.amount, in order-chain units
  OrderDelays,      \* RootAnchor delays an admin may write on this chain
  AdShownDomains,   \* bound: the leaves of the ad chain that get anchored
  OrderLevers       \* bound: the admin levers the run lets anyone pull

VARIABLES
  orderNow,         \* env.ledger().timestamp() on the order chain
  opPaused,         \* the pause flag: create_order only
  opTiming,         \* the route's current timing version, 0 while unset
  opRoute,          \* are the ad chain and the token's route supported
  opVerifier,       \* is the root verifier wired
  opAnchorDelay,    \* the RootAnchor's delay for the ad chain
  opStatus,         \* [Orders -> Status], OrderRecord.status
  opOpenedUnder,    \* [Orders -> Versions], OrderRecord.timing_version
  opSettled,        \* orders marked recorded, with a SETTLED leaf or without
  opNullifiers,     \* co-signed nullifiers spent, each named by its order
  opInFlight,       \* [Accounts -> Int], open positions of bridgers
  opLeaves,         \* the leaves appended to this chain's Merkle manager
  adAnchored,       \* [Leaves -> Nat], when an ad-chain leaf was anchored here
  opVault,          \* the escrow's token balance
  opCredit,         \* [Accounts -> Nat], claimable payouts
  opPaid            \* [Accounts -> Nat], tokens paid out

opConfig == <<opPaused, opTiming, opRoute, opVerifier, opAnchorDelay>>
opLegs   == <<opStatus, opOpenedUnder, opSettled, opNullifiers, opInFlight,
              opLeaves>>
opFunds  == <<opVault, opCredit, opPaid>>

orderChainVars == <<orderNow, opConfig, opLegs, opFunds, adAnchored>>

-----------------------------------------------------------------------------
(* Clocks, proofs and payouts *)

\* order_timing
OpenedTiming(o) == Timings[opOpenedUnder[o]]

\* The last second of the co-signed unlock: it stops claim_stagger before the
\* deadline, so a cancel claim on the ad chain leaves time to land this leg.
LastUnlock(o) == SatSub(Deadline[o], OpenedTiming(o).claim_stagger)

\* Mutant: the proof does not bind the leaf's domain.
AdLeafAnyDomain(leaf) ==
  \E d \in Domain : /\ adAnchored[<<leaf[1], d>>] # 0
                    /\ orderNow >= adAnchored[<<leaf[1], d>>] + opAnchorDelay

\* require_anchored and the leaf's inclusion proof
AdLeafProvable(leaf) ==
  adAnchored[leaf] # 0 /\ orderNow >= adAnchored[leaf] + opAnchorDelay

\* Mutant: an order that ended is still presentable.
OpPresentableOnce(o) == opStatus[o] # "None"

\* require_presentable
Presentable(o) == opStatus[o] \in Live

\* Mutant: a payout that fails is credited, and written off the balance too.
PayAndCredit(to, amount) ==
  /\ opVault' = opVault - amount
  /\ \/ opPaid' = [opPaid EXCEPT ![to] = @ + amount] /\ UNCHANGED opCredit
     \/ /\ to \in Unpayable
        /\ opCredit' = [opCredit EXCEPT ![to] = @ + amount] /\ UNCHANGED opPaid

\* pay_or_credit
PayOrCredit(to, amount) ==
  \/ /\ opPaid' = [opPaid EXCEPT ![to] = @ + amount]
     /\ opVault' = opVault - amount
     /\ UNCHANGED opCredit
  \/ /\ to \in Unpayable
     /\ opCredit' = [opCredit EXCEPT ![to] = @ + amount]
     /\ UNCHANGED <<opPaid, opVault>>

\* fill and cancel: the leg ends and the bridger's position is counted out.
EndOrder(o, status) ==
  /\ opStatus' = [opStatus EXCEPT ![o] = status]
  /\ opInFlight' = [opInFlight EXCEPT ![BridgerOf[o]] = @ - 1]
  /\ UNCHANGED opOpenedUnder

-----------------------------------------------------------------------------
(* The deployed and wired escrow *)

OrderPortalInit ==
  /\ orderNow = 1
  /\ opPaused = FALSE
  /\ opTiming = 1
  /\ opRoute = TRUE
  /\ opVerifier = TRUE
  /\ opAnchorDelay \in OrderDelays
  /\ opStatus = [o \in Orders |-> "None"]
  /\ opOpenedUnder = [o \in Orders |-> 0]
  /\ opSettled = {}
  /\ opNullifiers = {}
  /\ opInFlight = [p \in Accounts |-> 0]
  /\ opLeaves = {}
  /\ adAnchored = [leaf \in Leaves |-> 0]
  /\ opVault = 0
  /\ opCredit = [p \in Accounts |-> 0]
  /\ opPaid = [p \in Accounts |-> 0]

-----------------------------------------------------------------------------
(* The admin *)

OpPause(paused) ==
  opPaused' = paused /\ UNCHANGED <<opTiming, opRoute, opVerifier, opAnchorDelay>>

\* set_route_timing: a new version; live orders keep theirs.
OpSetRouteTiming ==
  /\ opTiming + 1 \in Versions
  /\ opTiming' = opTiming + 1
  /\ UNCHANGED <<opPaused, opRoute, opVerifier, opAnchorDelay>>

\* set_chain, remove_chain, set_token_route, remove_token_route: an order needs
\* both entries, so only whether both are there is kept.
OpSetRoute(supported) ==
  opRoute' = supported /\ UNCHANGED <<opPaused, opTiming, opVerifier, opAnchorDelay>>

\* set_root_verifier and unset_root_verifier
OpSetRootVerifier(wired) ==
  opVerifier' = wired /\ UNCHANGED <<opPaused, opTiming, opRoute, opAnchorDelay>>

\* RootAnchor.set_anchor_delay
OpSetAnchorDelay(d) ==
  opAnchorDelay' = d /\ UNCHANGED <<opPaused, opTiming, opRoute, opVerifier>>

-----------------------------------------------------------------------------
(* The order *)

\* create_order: the deposit is pulled, the AD leaf appended.
CreateOrder(o) ==
  LET t == Timings[opTiming] IN
  /\ ~opPaused
  /\ opRoute
  /\ opTiming # 0
  /\ orderNow + t.min_window <= Deadline[o]
  /\ Deadline[o] <= orderNow + MaxOrderWindow
  /\ opStatus[o] = "None"
  /\ opVault' = opVault + Deposit[o]
  /\ opLeaves' = opLeaves \cup {<<o, "AD">>}
  /\ opStatus' = [opStatus EXCEPT ![o] = "Open"]
  /\ opOpenedUnder' = [opOpenedUnder EXCEPT ![o] = opTiming]
  /\ opInFlight' = [opInFlight EXCEPT ![BridgerOf[o]] = @ + 1]
  /\ UNCHANGED <<opSettled, opNullifiers, opCredit, opPaid>>

\* unlock: the co-signed payout to the maker, on an open order only.
UnlockOrder(o) ==
  /\ opStatus[o] = "Open"
  /\ o \notin opNullifiers
  /\ orderNow <= LastUnlock(o)
  /\ opVerifier
  /\ opNullifiers' = opNullifiers \cup {o}
  /\ EndOrder(o, "Filled")
  /\ PayOrCredit(AdRecipientOf[o], Deposit[o])
  /\ UNCHANGED <<opSettled, opLeaves>>

\* refund_by_cancel: the only refund this leg has, and it reads no clock.
RefundByCancel(o) ==
  /\ Presentable(o)
  /\ AdLeafProvable(<<o, "CANCEL">>)
  /\ EndOrder(o, "Cancelled")
  /\ PayOrCredit(BridgerOf[o], Deposit[o])
  /\ UNCHANGED <<opSettled, opNullifiers, opLeaves>>

\* present_settled: the ad leg paid, so the deposit is the maker's.
PresentAdSettled(o) ==
  /\ Presentable(o)
  /\ AdLeafProvable(<<o, "SETTLED">>)
  /\ EndOrder(o, "Filled")
  /\ PayOrCredit(AdRecipientOf[o], Deposit[o])
  /\ UNCHANGED <<opSettled, opNullifiers, opLeaves>>

\* Mutant: a forfeited deposit is not marked recorded.
PayMakerByForfeitUnmarked(o) ==
  /\ Presentable(o)
  /\ AdLeafProvable(<<o, "FORFEIT">>)
  /\ EndOrder(o, "Filled")
  /\ PayOrCredit(AdRecipientOf[o], Deposit[o])
  /\ UNCHANGED <<opSettled, opNullifiers, opLeaves>>

\* pay_maker_by_forfeit: marked recorded without a leaf, since nothing settled.
PayMakerByForfeit(o) ==
  /\ Presentable(o)
  /\ AdLeafProvable(<<o, "FORFEIT">>)
  /\ EndOrder(o, "Filled")
  /\ opSettled' = opSettled \cup {o}
  /\ PayOrCredit(AdRecipientOf[o], Deposit[o])
  /\ UNCHANGED <<opNullifiers, opLeaves>>

\* record_settled: the SETTLED leaf of a filled order, once.
RecordOrderSettled(o) ==
  /\ opStatus[o] = "Filled"
  /\ o \notin opSettled
  /\ opSettled' = opSettled \cup {o}
  /\ opLeaves' = opLeaves \cup {<<o, "SETTLED">>}
  /\ UNCHANGED <<opStatus, opOpenedUnder, opNullifiers, opInFlight, opFunds>>

\* Mutant: a paid credit is not cleared.
OpClaimAgain(p) ==
  /\ opCredit[p] # 0
  /\ opPaid' = [opPaid EXCEPT ![p] = @ + opCredit[p]]
  /\ opVault' = opVault - opCredit[p]
  /\ UNCHANGED <<opCredit, opLegs>>

\* claim
OpClaim(p) ==
  /\ opCredit[p] # 0
  /\ opPaid' = [opPaid EXCEPT ![p] = @ + opCredit[p]]
  /\ opCredit' = [opCredit EXCEPT ![p] = 0]
  /\ opVault' = opVault - opCredit[p]
  /\ UNCHANGED opLegs

\* RootAnchor.anchor of a root that holds the leaf
AnchorAdLeaf(leaf) ==
  /\ adAnchored[leaf] = 0
  /\ adAnchored' = [adAnchored EXCEPT ![leaf] = orderNow]

-----------------------------------------------------------------------------

OpOn(lever) == lever \in OrderLevers

OpAdminNext ==
  /\ \/ OpOn("pause")    /\ \E b \in BOOLEAN : OpPause(b)
     \/ OpOn("timing")   /\ OpSetRouteTiming
     \/ OpOn("route")    /\ \E b \in BOOLEAN : OpSetRoute(b)
     \/ OpOn("verifier") /\ \E b \in BOOLEAN : OpSetRootVerifier(b)
     \/ OpOn("delay")    /\ \E d \in OrderDelays : OpSetAnchorDelay(d)
  /\ UNCHANGED <<orderNow, opLegs, opFunds, adAnchored>>

\* set_root_anchor to another deployment, which has anchored nothing yet.
OpSetRootAnchor ==
  /\ OpOn("anchor")
  /\ opAnchorDelay' \in OrderDelays
  /\ adAnchored' = [leaf \in Leaves |-> 0]
  /\ UNCHANGED <<orderNow, opPaused, opTiming, opRoute, opVerifier, opLegs, opFunds>>

\* What moves an order, but for the co-signed unlock.
OpOrderNext ==
  /\ \E o \in Orders :
       \/ CreateOrder(o)
       \/ RefundByCancel(o)
       \/ PresentAdSettled(o)
       \/ PayMakerByForfeit(o)
       \/ RecordOrderSettled(o)
  /\ UNCHANGED <<orderNow, opConfig, adAnchored>>

OpUnlockNext(o) == UnlockOrder(o) /\ UNCHANGED <<orderNow, opConfig, adAnchored>>

OpClaimNext ==
  (\E p \in Accounts : OpClaim(p)) /\ UNCHANGED <<orderNow, opConfig, adAnchored>>

OpAnchorLeafNext(leaf) ==
  AnchorAdLeaf(leaf) /\ UNCHANGED <<orderNow, opConfig, opLegs, opFunds>>

OpTickNext ==
  /\ orderNow < MaxTime
  /\ orderNow' = orderNow + 1
  /\ UNCHANGED <<opConfig, opLegs, opFunds, adAnchored>>

OpLocalNext == OpAdminNext \/ OpSetRootAnchor \/ OpOrderNext \/ OpClaimNext

AdChainLeaves == Orders \X AdShownDomains

OpNext ==
  \/ OpLocalNext
  \/ \E o \in Orders : OpUnlockNext(o)
  \/ \E leaf \in AdChainLeaves : OpAnchorLeafNext(leaf)
  \/ OpTickNext

\* The order chain against an ad chain that may show it anything.
OpSpec == OrderPortalInit /\ [][OpNext]_orderChainVars

OrderPortalTypeOK ==
  /\ orderNow \in Nat
  /\ opPaused \in BOOLEAN /\ opRoute \in BOOLEAN /\ opVerifier \in BOOLEAN
  /\ opTiming \in Versions \ {0}
  /\ opAnchorDelay \in Nat
  /\ opStatus \in [Orders -> {"None", "Open", "Filled", "Cancelled"}]
  /\ opOpenedUnder \in [Orders -> Versions]
  /\ opSettled \subseteq Orders /\ opNullifiers \subseteq Orders
  /\ opInFlight \in [Accounts -> Nat]
  /\ opLeaves \subseteq Leaves
  /\ adAnchored \in [Leaves -> Nat]
  /\ opVault \in Nat
  /\ opCredit \in [Accounts -> Nat] /\ opPaid \in [Accounts -> Nat]

OpHeld == {o \in Orders : opStatus[o] \in Live}

\* The orders whose deposit went to p.
OpPaidFor(p) ==
  {o \in Orders : \/ opStatus[o] = "Filled" /\ AdRecipientOf[o] = p
                  \/ opStatus[o] = "Cancelled" /\ BridgerOf[o] = p}

\* The escrow's tokens are exactly its live deposits and the credits it owes.
DepositsBacked ==
  opVault = SumOver(OpHeld, Deposit) + SumOver(Accounts, opCredit)

\* Every account was paid or credited exactly once for each deposit that ended
\* in its favour, whichever proof ended it, and the bridger's open positions,
\* which its registry's guard reads, are its live deposits.
DepositPaidOnce ==
  \A p \in Accounts :
    /\ opPaid[p] + opCredit[p] = SumOver(OpPaidFor(p), Deposit)
    /\ opInFlight[p] = Cardinality({o \in OpHeld : BridgerOf[o] = p})

DepositsStay ==
  \A o \in Orders :
    /\ opStatus[o] \in Terminal => opStatus'[o] = opStatus[o]
    /\ opStatus[o] # "None" => opOpenedUnder'[o] = opOpenedUnder[o]

\* A deposit that went somewhere stays there: neither a late co-signed unlock,
\* nor a proof of the other verdict, nor a second create_order reopens it.
DepositGoesOnce == [][DepositsStay]_orderChainVars

ASSUME OrderPortalAssumption ==
  /\ BridgerOf \in [Orders -> Accounts]
  /\ AdRecipientOf \in [Orders -> Accounts]
  /\ Deposit \in [Orders -> Nat \ {0}]
  /\ OrderDelays \subseteq Nat
  /\ Len(Timings) >= 1
  \* The ORDER leaf is read by the co-signed unlock only, the AD leaf is not there.
  /\ AdShownDomains \subseteq {"CANCEL", "SETTLED", "FORFEIT"}

\* An address is 32 bytes.
ASSUME FiniteAccounts == IsFiniteSet(Accounts)
=============================================================================
