------------------------------ MODULE AdDenial ------------------------------
(***************************************************************************)
(* The denial rule of the ad chain.  The maker's side can refuse the       *)
(* co-signed payout it already promised: halt, let the pinned key die, have *)
(* the verifier unwired or re-pointed, move the pin.  co_sign_denied has to *)
(* find that out afterwards, from stamps, because levers can be released   *)
(* again before the cancel; whoever was refused then gets the evidence     *)
(* grace.  The history variable `refused` remembers what really happened.  *)
(***************************************************************************)
EXTENDS AdManager

VARIABLE
  refused           \* orders whose co-signed unlock was refused while in time

denialVars == <<adChainVars, refused>>

\* A gate of `unlock` other than its clock and the co-signature itself refuses,
\* after the lock's own second: within that second no pair was signed yet, and
\* co_sign_denied says it does not count a verifier change there.
RefusedNow(o) ==
  /\ adStatus[o] \in Live
  /\ adOrder[o].locked_at < adNow /\ adNow < PresentationCutoff(o)
  /\ \/ halt[Maker(o)].halted
     \/ adVerifier = Nil
     \/ adVerifier # Nil /\ ~SlotUsable(adVerifier, SignerOf[o], adOrder[o].pinned_slot)

DenialInit == AdInit /\ refused = {}

\* A re-pin refuses every pair signed under the old pin.
DenialNext ==
  /\ AdNext
  /\ refused' = refused \cup {o \in Orders : RefusedNow(o)'}
                        \cup {o \in Orders : adStatus[o] \in Live /\ adOrder[o].pinned_slot # adOrder'[o].pinned_slot}

DenialSpec == DenialInit /\ [][DenialNext]_denialVars

\* When the lock may be handed back over a refused payout: the window, the
\* anchor delay that stood at the lock, and a buffer to present.
GraceEnd(o) ==
  Deadline[o] + OrderTiming(o).buffer
    + adOrder[o].anchor_delay + OrderTiming(o).buffer

\* Whoever was refused the co-signed payout, at whatever second and however the
\* lever was released since, is given the evidence grace before the maker gets
\* the lock back.  co_sign_denied's stamps miss no refusal.
RefusalEarnsGrace ==
  \A o \in refused :
    \/ adStatus[o] = "Cancelled"
    \/ adStatus[o] = "Resolved" /\ ruledAs[o] # "MakerForfeit"
    => adNow >= GraceEnd(o)

\* While an order is open, and for the grace period from its lock at least, the
\* slot it pinned stays in the registry it was locked under, expired or not: the
\* denial rule reads its expiry there, and a slot that is gone reads as one that
\* never expires.
PinnedSlotStays ==
  \A o \in Orders : adStatus[o] \in Live =>
    \/ slot[adOrder[o].registry][SignerOf[o]][adOrder[o].pinned_slot] # Nil
    \/ adNow > adOrder[o].locked_at + GracePeriod

\* The grace of a refused payout is "max(at lock, current)" of the anchor's delay:
\* "raising it lengthens every pending grace, lowering it shortens none"
\* (evidence_grace).  The code keeps the delay of the lock, not the largest since.
CutShortensNoGrace ==
  [][\A o \in refused :
       adStatus[o] \in Live /\ adStatus'[o] \in Live /\ anchorDelay' < anchorDelay =>
         EvidenceGrace(o)' >= EvidenceGrace(o)]_denialVars

\* GRACE_PERIOD outlasts the evidence a kill is weighed against (the bound the
\* comment of `prune` works out): the longest order window, the presentation
\* buffer, and the grace of a refused payout, whatever anchor delay stood then.
ASSUME AdDenialAssumption ==
  \A d \in Delays : GracePeriod >= MaxOrderWindow + 2 * MaxBuffer + d
=============================================================================
