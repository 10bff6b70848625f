-------------------------- MODULE DiligentBridge --------------------------
(***************************************************************************)
(* The bridge with a diligent bridger, a watchtower or a janitor behind it: *)
(* whoever has to act before a clock runs out does, and a SETTLED leaf is   *)
(* anchored within Cadence.  That is all the protocol asks of the bridger,  *)
(* and what the windows, the margin and the evidence grace are sized for.   *)
(* Diligence is stated as what time may not pass over.                     *)
(***************************************************************************)
EXTENDS ProofBridge

CONSTANT
  Cadence           \* ad-chain seconds from a SETTLED leaf to its anchoring

VARIABLE
  shownAt           \* [Orders -> Nat], the ad clock when the order leg recorded

diligentVars == <<bridgeVars, shownAt>>

\* The maker has the deposit and the lock is still live.
Owed(o) == opStatus[o] = "Filled" /\ adStatus[o] \in Live

\* Every gate of `unlock` admits the pair now, and its clock refuses it next.
LastChanceToUnlock(o) ==
  /\ <<o, adOrder[o].pinned_slot>> \in cosigned
  /\ ~halt[Maker(o)].halted
  /\ adVerifier # Nil /\ SlotUsable(adVerifier, SignerOf[o], adOrder[o].pinned_slot)
  /\ adNow + 1 = PresentationCutoff(o)

MustActNow(o) ==
  /\ Owed(o)
  /\ \/ o \notin opSettled
     \/ LastChanceToUnlock(o)
     \/ /\ <<o, "SETTLED">> \in opLeaves
        /\ orderAnchored[<<o, "SETTLED">>] = 0
        /\ adNow >= shownAt[o] + Cadence
     \/ Provable(<<o, "SETTLED">>)

TimePasses == AdTime \/ OrderTime

\* A bridger signs for the key the lock pinned and no other, so the pair stands
\* for the slot pinned when it was signed.
SignsThePin ==
  \A o \in Orders, i \in SlotIds :
    <<o, i>> \in cosigned' \ cosigned => i = adOrder[o].pinned_slot

\* The anchor a bridger is waiting on is not replaced by one that knows nothing.
AnchorKept ==
  \A o \in Orders : Owed(o) =>
    orderAnchored'[<<o, "SETTLED">>] >= orderAnchored[<<o, "SETTLED">>]

DiligentNext ==
  /\ BridgeNext
  /\ TimePasses => \A o \in Orders : ~MustActNow(o)
  /\ SignsThePin
  /\ AnchorKept
  /\ shownAt' = [o \in Orders |->
       IF o \notin opSettled /\ o \in opSettled' THEN adNow ELSE shownAt[o]]

DiligentSpec ==
  BridgeInit /\ shownAt = [o \in Orders |-> 0] /\ [][DiligentNext]_diligentVars

\* With a diligent bridger nobody collects both sides: the maker who took the
\* deposit on the co-signed pair never also gets the lock back, whether it is
\* the clocks, a denied payout, a moved delay, a dispute or a ruling it tries.
NobodyPaidTwice ==
  /\ TheTrade!BridgerNotPaidTwice
  /\ \A o \in Orders : o \in opNullifiers => LockOf(o) \in {"held", "paid", "maker_forfeit"}

\* What the windows must leave room for, whatever versions the two legs opened
\* under.  A pair used on the order leg in its last second must still find the
\* ad leg's unlock open, the clocks apart; and if that is refused, an anchoring
\* and the longest delay the admin writes must pass within the grace, which may
\* stand at the delay of the lock again by then.
ASSUME DiligenceAssumption ==
  /\ Skew \in Nat /\ Cadence \in Nat
  /\ \A v, w \in 1..Len(Timings) :
       LET t == Timings[v]  u == Timings[w] IN
       /\ Skew + t.margin < u.claim_stagger + t.buffer
       /\ \A d, e \in Delays :
            Skew + Cadence + e < u.claim_stagger + 2 * t.buffer + d
=============================================================================
