--------------------------- MODULE BLSKeyRegistry ---------------------------
(***************************************************************************)
(* The ad chain's key registries: the co-signing slots of each account,    *)
(* the makers an account lets name it as settlement signer, and the re-pin *)
(* consents.  A registry is replaced by wiring another, so the variables   *)
(* are indexed by the deployment.                                          *)
(*                                                                         *)
(* A slot is a key: a commitment is accepted once per account, so a new    *)
(* slot always carries a new key.  Signatures and their nonces are left    *)
(* out: an action here is one its owner authorized.                        *)
(***************************************************************************)
EXTENDS AdLedger, FiniteSets

CONSTANTS
  Registries,       \* deployed key registries
  Signers,          \* accounts holding BLS keys (settlement signers)
  Makers,           \* custody accounts that own ads
  MaxActiveSlots,   \* MAX_ACTIVE_SLOTS
  GracePeriod,      \* GRACE_PERIOD, before a dead slot is pruned regardless
  MaxSlotId,        \* bound: slot ids are never reused, so cap them
  MaxRepins         \* bound: consents per order

VARIABLES
  slot,             \* [Registries -> [Signers -> [SlotIds -> KeySlot or Nil]]]
  nextSlot,         \* [Registries -> [Signers -> Nat]], next_slot_id
  approved,         \* [Registries -> [Signers -> SUBSET Makers]]
  repin             \* [Registries -> [Orders -> RepinApproval]]

registryVars == <<slot, nextSlot, approved, repin>>

SlotIds == 0..MaxSlotId

\* valid_until = 0 is unbounded; expired_at is when the slot stopped (or stops).
KeySlot == [valid_until : Nat, expired_at : Nat]

UnboundedSlot == [valid_until |-> 0, expired_at |-> 0]

\* nonce 0: no consent was ever given.
RepinApproval == [from : SlotIds, to : SlotIds, nonce : Nat]

LiveSlots(r, s) == {i \in SlotIds : slot[r][s][i] # Nil}

\* commitment_at succeeds: the slot exists and is not past its valid_until.
SlotUsable(r, s, i) ==
  /\ slot[r][s][i] # Nil
  /\ \/ slot[r][s][i].valid_until = 0
     \/ adNow < slot[r][s][i].valid_until

HasUsableSlot(r, s) == \E i \in SlotIds : SlotUsable(r, s, i)

\* expired_at: 0 while unbounded, and for a slot that is gone.
ExpiredAt(r, s, i) ==
  IF slot[r][s][i] # Nil THEN slot[r][s][i].expired_at ELSE 0

IsApprovedMaker(r, s, maker) == maker \in approved[r][s]

-----------------------------------------------------------------------------

\* Every account registered its first key in every registry and approved every
\* maker: the state settlement starts from.
BLSKeyRegistryInit ==
  /\ slot = [r \in Registries |-> [s \in Signers |->
               [i \in SlotIds |-> IF i = 0 THEN UnboundedSlot ELSE Nil]]]
  /\ nextSlot = [r \in Registries |-> [s \in Signers |-> 1]]
  /\ approved = [r \in Registries |-> [s \in Signers |-> Makers]]
  /\ repin = [r \in Registries |->
                [o \in Orders |-> [from |-> 0, to |-> 0, nonce |-> 0]]]

\* Mutant: an expired slot is dropped whether or not a position is open.
PrunableAtOnce(r, s, open) ==
  {i \in LiveSlots(r, s) : ExpiredAt(r, s, i) # 0 /\ adNow > ExpiredAt(r, s, i)}

\* prune: the slots dropped to make room.  At once when the wired guards report
\* no open position, else after the grace; never in the expiry's own second.
Prunable(r, s, open) ==
  {i \in LiveSlots(r, s) :
     LET at == ExpiredAt(r, s, i) IN
     at # 0 /\ adNow > (IF open THEN at + GracePeriod ELSE at)}

\* register: a new slot; dead ones are pruned only when the account is full.
Register(r, s, open) ==
  LET full    == Cardinality(LiveSlots(r, s)) >= MaxActiveSlots
      dropped == IF full THEN Prunable(r, s, open) ELSE {}
      id      == nextSlot[r][s]
  IN /\ id \in SlotIds
     /\ Cardinality(LiveSlots(r, s) \ dropped) < MaxActiveSlots
     /\ slot' = [slot EXCEPT ![r][s] = [i \in SlotIds |->
                   IF i \in dropped THEN Nil
                   ELSE IF i = id THEN UnboundedSlot ELSE @[i]]]
     /\ nextSlot' = [nextSlot EXCEPT ![r][s] = @ + 1]
     /\ UNCHANGED <<approved, repin>>

\* set_valid_until: shorten only.  The slot stops at the later of the named
\* date and now, and a later shorten can only move that earlier.
SetValidUntil(r, s, i, until) ==
  /\ slot[r][s][i] # Nil
  /\ until # 0
  /\ slot[r][s][i].valid_until = 0 \/ until < slot[r][s][i].valid_until
  /\ LET prev == slot[r][s][i].expired_at
         eff  == Later(until, adNow)
     IN slot' = [slot EXCEPT ![r][s][i] =
                   [valid_until |-> until,
                    expired_at  |-> IF prev = 0 \/ eff < prev THEN eff ELSE prev]]
  /\ UNCHANGED <<nextSlot, approved, repin>>

\* revoke: leaves the protocol, refused while slots remain and a guard reports
\* an open position.  Every maker approval goes with it.
Revoke(r, s, open) ==
  /\ LiveSlots(r, s) # {} => ~open
  /\ slot' = [slot EXCEPT ![r][s] = [i \in SlotIds |-> Nil]]
  /\ approved' = [approved EXCEPT ![r][s] = {}]
  /\ UNCHANGED <<nextSlot, repin>>

\* approve_maker
ApproveMaker(r, s, maker, yes) ==
  /\ approved' = [approved EXCEPT ![r][s] =
                    IF yes THEN @ \cup {maker} ELSE @ \ {maker}]
  /\ UNCHANGED <<slot, nextSlot, repin>>

\* approve_repin: the order's settlement signer consents to move its pin.
ApproveRepin(r, o, from, to) ==
  /\ repin[r][o].nonce < MaxRepins
  /\ repin' = [repin EXCEPT ![r][o] =
                 [from |-> from, to |-> to, nonce |-> @.nonce + 1]]
  /\ UNCHANGED <<slot, nextSlot, approved>>

-----------------------------------------------------------------------------

BLSKeyRegistryTypeOK ==
  /\ slot \in [Registries -> [Signers -> [SlotIds -> KeySlot \cup {Nil}]]]
  /\ nextSlot \in [Registries -> [Signers -> Nat]]
  /\ approved \in [Registries -> [Signers -> SUBSET Makers]]
  /\ repin \in [Registries -> [Orders -> RepinApproval]]

ASSUME BLSKeyRegistryAssumption ==
  /\ MaxActiveSlots \in Nat \ {0} /\ GracePeriod \in Nat
  /\ MaxSlotId \in Nat /\ MaxRepins \in Nat
  /\ Nil \notin KeySlot
=============================================================================
