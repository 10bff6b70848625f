---------------------------- MODULE ProofBridge ----------------------------
(***************************************************************************)
(* The two chains of a trade: the ad manager on one, the order portal on   *)
(* the other, each with its own clock.  Nothing passes between them but    *)
(* the co-signed pair, which both legs accept, and the leaves each shows   *)
(* the other under anchored roots.  The anchor's notaries are trusted to   *)
(* sign roots the other chain really had, and a co-signer to sign only a   *)
(* pair of roots that hold both legs; when they do so, and who presents    *)
(* what on which chain and when, is left open.                             *)
(***************************************************************************)
EXTENDS AdManager, OrderPortal

CONSTANTS
  Skew,             \* bound: how far apart the two clocks may be
  LastRuling        \* assumed for liveness only: no arbiter rules after this time

VARIABLE
  cosigned          \* <<order, slot>>: the pair was signed by the key of slot

bridgeVars == <<adChainVars, orderChainVars, cosigned>>

-----------------------------------------------------------------------------

\* Both parties sign the pair of roots, one holding the lock's ORDER leaf, the
\* other the deposit's AD leaf, the maker's signer with the slot it likes.
CoSign(o, i) ==
  /\ <<o, "ORDER">> \in adLeaves
  /\ <<o, "AD">> \in opLeaves
  /\ <<o, i>> \notin cosigned
  /\ cosigned' = cosigned \cup {<<o, i>>}
  /\ UNCHANGED <<adChainVars, orderChainVars>>

\* is_root_valid on the ad leg: only the pinned slot's key counts.
CoSignedUnlock(o) ==
  /\ <<o, adOrder[o].pinned_slot>> \in cosigned
  /\ AdUnlockNext(o)
  /\ UNCHANGED <<orderChainVars, cosigned>>

\* is_root_valid on the order leg: any of the signer's keys (UNPINNED).
CoSignedUnlockOrder(o) ==
  /\ \E i \in SlotIds : <<o, i>> \in cosigned
  /\ OpUnlockNext(o)
  /\ UNCHANGED <<adChainVars, cosigned>>

\* A notarized root holds only leaves the other chain appended.
AnchorNext ==
  \/ /\ \E leaf \in opLeaves \cap OrderChainLeaves : AdAnchorLeafNext(leaf)
     /\ UNCHANGED <<orderChainVars, cosigned>>
  \/ /\ \E leaf \in adLeaves \cap AdChainLeaves : OpAnchorLeafNext(leaf)
     /\ UNCHANGED <<adChainVars, cosigned>>

AdTime ==
  /\ adNow < orderNow + Skew
  /\ AdTickNext /\ UNCHANGED <<orderChainVars, cosigned>>

OrderTime ==
  /\ orderNow < adNow + Skew
  /\ OpTickNext /\ UNCHANGED <<adChainVars, cosigned>>

BridgeInit == AdInit /\ OrderPortalInit /\ cosigned = {}

ContractsNext ==
  \/ AdLocalNext /\ UNCHANGED <<orderChainVars, cosigned>>
  \/ OpLocalNext /\ UNCHANGED <<adChainVars, cosigned>>
  \/ \E o \in Orders : CoSignedUnlock(o) \/ CoSignedUnlockOrder(o)

BridgeNext ==
  \/ ContractsNext
  \/ \E o \in Orders, i \in SlotIds : CoSign(o, i)
  \/ AnchorNext
  \/ AdTime \/ OrderTime

BridgeSpec == BridgeInit /\ [][BridgeNext]_bridgeVars

-----------------------------------------------------------------------------
(* The trade each order is, and what it promises *)

LockOf(o) ==
  CASE adStatus[o] = "None" -> "none"
    [] adStatus[o] \in Live -> "held"
    [] adStatus[o] = "Filled" -> "paid"
    [] adStatus[o] = "Resolved" /\ ruledAs[o] = "MakerForfeit" -> "maker_forfeit"
    [] adStatus[o] = "Resolved" /\ ruledAs[o] = "BridgerForfeit" -> "bridger_forfeit"
    [] OTHER -> "returned"

DepositOf(o) ==
  CASE opStatus[o] = "None" -> "none"
    [] opStatus[o] \in Live -> "held"
    [] opStatus[o] = "Filled" -> "paid"
    [] OTHER -> "refunded"

TheTrade == INSTANCE Trade WITH
  Trades  <- Orders,
  lock    <- [o \in Orders |-> LockOf(o)],
  deposit <- [o \in Orders |-> DepositOf(o)],
  agreed  <- {o \in Orders : \E i \in SlotIds : <<o, i>> \in cosigned}

\* The two escrows, for every interleaving of their calls, clocks, proofs and
\* anchorings, do what Trade says: no lock or deposit is paid without an
\* agreement, and none is refunded unless the other side was sent home.
ImplementsTrade == TheTrade!TradeSpec

\* A refund to the bridger excludes a fill of the lock to the bridger, however
\* late the proofs arrive and whatever the levers did.
BridgerNotPaidTwice == TheTrade!BridgerNotPaidTwice

\* No payout before a deposit, and none the deposit does not still answer for:
\* once the lock is paid out, the deposit is the maker's or can only become so.
FillHasDeposit ==
  \A o \in Orders : adStatus[o] = "Filled" => opStatus[o] \in {"Open", "Filled"}

\* A deposit taken because the bridger forfeited is no settlement: the order
\* portal never shows the ad chain a SETTLED leaf for it.
NoSettledAfterForfeit ==
  \A o \in Orders :
    <<o, "FORFEIT">> \in adLeaves /\ <<o, "SETTLED">> \in opLeaves =>
      o \in opNullifiers

-----------------------------------------------------------------------------
(* Fairness: the exits are permissionless, so someone with an interest calls *)
(* each one while it stays enabled; notaries go on anchoring; time passes.   *)
(* And one assumption about the arbiter: it rules finitely often.            *)

OrderLegStays(A) == A /\ UNCHANGED <<orderChainVars, cosigned>>
OnAdLeg(A) ==
  OrderLegStays(A /\ UNCHANGED <<adNow, registryVars, adConfig, halt>>)
OnOrderLeg(A) ==
  /\ A
  /\ UNCHANGED <<orderNow, opConfig, adAnchored, adChainVars, cosigned>>

BridgeFairness ==
  /\ WF_bridgeVars(AdTime) /\ WF_bridgeVars(OrderTime)
  /\ WF_bridgeVars(AnchorNext)
  /\ \A o \in Orders :
       /\ WF_bridgeVars(OnAdLeg(ClaimCancel(o)))
       /\ WF_bridgeVars(OnAdLeg(FinalizeCancel(o)))
       /\ WF_bridgeVars(OnAdLeg(FinalizeDispute(o)))
       /\ WF_bridgeVars(OnAdLeg(CancelNeverLocked(o)))
       /\ WF_bridgeVars(OnAdLeg(RecordSettled(o)))
       /\ WF_bridgeVars(OnOrderLeg(RefundByCancel(o)))
       /\ WF_bridgeVars(OnOrderLeg(PresentAdSettled(o)))
       /\ WF_bridgeVars(OnOrderLeg(PayMakerByForfeit(o)))

\* ASSUMED: an arbiter rules finitely often.  resolve_dispute lets it rule again
\* before each ruled window ends, and every ruling moves the end to a buffer from
\* then, so one that never stops holds lock and deposit forever, and the code has
\* no answer.  Stated on steps: it may rule again and again, up to LastRuling.
ArbiterRests ==
  adNow > LastRuling =>
    \A m \in Modules, o \in Orders, r \in Ruling : ~ResolveDispute(m, o, r)

FairNext == BridgeNext /\ ArbiterRests

FairBridgeSpec == BridgeInit /\ [][FairNext]_bridgeVars /\ BridgeFairness

\* If an arbiter rules finitely often, every lock ends, settled, cancelled or ruled
\* on: nobody else can hold the maker's liquidity forever by claiming, disputing,
\* halting or doing nothing.  An arbiter who keeps ruling can (resolve_dispute).
EveryLockEnds ==
  \A o \in Orders : adStatus[o] \in Live ~> adStatus[o] \in Terminal

\* If an arbiter rules finitely often, every deposit ends although its leg has no
\* clock of its own: the ad leg's verdict, of a lock or of the lack of one, always
\* reaches it.  While rulings keep the lock disputed there is no verdict to reach it.
EveryDepositEnds ==
  \A o \in Orders : opStatus[o] = "Open" ~> opStatus[o] \in Terminal
=============================================================================
