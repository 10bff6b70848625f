----------------------------- MODULE KeyMessages -----------------------------
(***************************************************************************)
(* How an account's owner authorizes its key registries, on every chain:   *)
(* one signed message names each registry it is for with the nonce it      *)
(* found there, anyone may submit it, to any registry, as often and as     *)
(* late as they like; or the owner calls a registry directly.  And the     *)
(* second way in: a registration leaf that the home chain's Registrar      *)
(* appends and anyone may prove.                                           *)
(*                                                                         *)
(* The registries keep accounts apart, so one account is modelled, with    *)
(* one order for the re-pin consents.  A key stands for its commitment.    *)
(* Signatures verify exactly for what was signed (both encodings bind      *)
(* every field and the legs); the key's proof of possession is made with   *)
(* the message.  The delay on the admin's setters is Timelock's.           *)
(***************************************************************************)
EXTENDS Integers, Sequences, FiniteSets

CONSTANTS
  Nil,
  Registries,       \* the registries of all chains
  Keys,             \* the account's BLS keys
  Makers,
  MaxActiveSlots,   \* MAX_ACTIVE_SLOTS
  GracePeriod,      \* GRACE_PERIOD
  MaxRegisterTtl,   \* MAX_REGISTER_TTL
  MaxSigned,        \* bound: messages signed
  MaxNonce,         \* bound: state changes per nonce
  MaxEpoch,         \* bound: registration leaves' epochs
  MaxTime           \* bound: time, one clock for all chains

VARIABLES
  now,
  paused,           \* [Registries -> BOOLEAN]
  wired,            \* [Registries -> BOOLEAN], a position guard is set
  byProof,          \* [Registries -> BOOLEAN], proof registration is enabled
  nonce,            \* [Registries -> Nat], the account's
  slot,             \* [Registries -> [Keys -> KeySlot or Nil]]
  used,             \* [Registries -> SUBSET Keys]
  generation,       \* [Registries -> Nat], the approval generation
  approval,         \* [Registries -> [Makers -> MakerApproval]]
  repin,            \* [Registries -> RepinApproval]
  nextEpoch,        \* the home chain's Registrar
  regLeaves,        \* the registration leaves it appended
  signed,           \* the messages the owner signed, in order
  applied,          \* history: <<message, registry>> that took effect
  dead,             \* history: <<message, registry>> since withdrawn there
  left,             \* history: messages signed when the account last left
  late,             \* history: what was applied after it should have died
  gone              \* history: [Registries -> keys that stopped being usable]

registryState == <<nonce, slot, used, generation, approval, repin>>
adminState    == <<paused, wired, byProof>>
registrarVars == <<nextEpoch, regLeaves>>
histories     == <<applied, dead, left, late>>
keyMessageVars ==
  <<now, adminState, registryState, registrarVars, signed, histories, gone>>

KeySlot == [valid_until : Nat, expired_at : Nat]

UsableKeys(r) ==
  {k \in Keys : /\ slot[r][k] # Nil
                /\ \/ slot[r][k].valid_until = 0
                   \/ now < slot[r][k].valid_until}

LiveKeys(r) == {k \in Keys : slot[r][k] # Nil}

\* is_approved_maker
IsApprovedMaker(r, m) ==
  approval[r][m].approved /\ approval[r][m].generation = generation[r]

\* Initialized, with the guards wired or not yet; no key was ever registered.
KeyMessagesInit ==
  /\ now = 1
  /\ paused = [r \in Registries |-> FALSE]
  /\ wired \in [Registries -> BOOLEAN]
  /\ byProof = [r \in Registries |-> FALSE]
  /\ nonce = [r \in Registries |-> 0]
  /\ slot = [r \in Registries |-> [k \in Keys |-> Nil]]
  /\ used = [r \in Registries |-> {}]
  /\ generation = [r \in Registries |-> 0]
  /\ approval = [r \in Registries |-> [m \in Makers |->
                   [approved |-> FALSE, nonce |-> 0, generation |-> 0]]]
  /\ repin = [r \in Registries |-> [from |-> 0, to |-> 0, nonce |-> 0]]
  /\ nextEpoch = 0
  /\ regLeaves = {}
  /\ signed = <<>>
  /\ applied = {} /\ dead = {} /\ late = {}
  /\ left = [r \in Registries |-> 0]
  /\ gone = [r \in Registries |-> {}]

-----------------------------------------------------------------------------

\* A message: what it asks, and its legs, the <<registry, nonce>> it names.
\* KeyMessage's variants; a field a variant lacks is Nil.
Message(kind, key, maker, approved, until, slots) ==
  [kind |-> kind, key |-> key, maker |-> maker, approved |-> approved,
   until |-> until, slots |-> slots]

\* until is the deadline of a registration or an approval, and the date a
\* retirement names: 1 kills the key at once.
Requests ==
       {Message("register", k, Nil, Nil, now + MaxRegisterTtl, Nil) : k \in Keys}
  \cup {Message(kind, Nil, Nil, Nil, Nil, Nil) : kind \in {"revoke", "cancel"}}
  \cup {Message("retire", k, Nil, Nil, t, Nil) : k \in Keys, t \in {1, now + 1}}
  \cup {Message("approve", Nil, m, yes, now + MaxRegisterTtl, Nil) :
          m \in Makers, yes \in BOOLEAN}
  \cup {Message("repin", Nil, Nil, Nil, Nil, <<0, 1>>)}

\* The nonce a registry holds a request of this kind against.
NonceFor(r, q) ==
  CASE q.kind = "approve" -> approval[r][q.maker].nonce
    [] q.kind = "repin"   -> repin[r].nonce
    [] OTHER              -> nonce[r]

\* The legs a wallet may put on a request: every registry at the nonce it finds
\* there, one registry alone, or, carelessly, one registry at this nonce and at
\* the next.  A retirement names none.
LegsFor(q) ==
  IF q.kind = "retire" THEN {{}}
  ELSE {{<<r, NonceFor(r, q)>> : r \in Registries}}
       \cup {{<<r, NonceFor(r, q)>>, <<r, NonceFor(r, q) + 1>>} : r \in Registries}

Sign(q, legs) ==
  /\ Len(signed) < MaxSigned
  /\ signed' = Append(signed, [request |-> q, legs |-> legs])
  /\ UNCHANGED <<now, adminState, registryState, registrarVars, histories>>

\* Mutant: any entry that names this registry at its nonce will do.
SomeLegMatches(r, legs, q) ==
  IF q.kind = "retire" THEN legs = {} ELSE <<r, NonceFor(r, q)>> \in legs

\* check_legs: exactly one entry names this registry, at the current nonce.
CheckLegs(r, legs, q) ==
  IF q.kind = "retire" THEN legs = {}
  ELSE {l \in legs : l[1] = r} = {<<r, NonceFor(r, q)>>}

-----------------------------------------------------------------------------

\* Within its deadline, which is not too far out.
Timely(deadline) == now <= deadline /\ deadline - now <= MaxRegisterTtl

\* expired_at
ExpiredAt(r, k) ==
  IF slot[r][k].valid_until = 0 THEN 0
  ELSE IF slot[r][k].expired_at = 0 THEN slot[r][k].valid_until
  ELSE slot[r][k].expired_at

\* prune: what a full account drops.  The guards answer at the call.
Prunable(r, open) ==
  {k \in LiveKeys(r) :
     /\ ExpiredAt(r, k) # 0
     /\ now > ExpiredAt(r, k) + (IF wired[r] /\ ~open THEN 0 ELSE GracePeriod)}

\* Mutant: the slot a key has is what bars it, so a pruned key may return.
AddSlotIfAbsent(r, k, open) ==
  LET dropped == IF Cardinality(LiveKeys(r)) >= MaxActiveSlots
                 THEN Prunable(r, open) ELSE {}
  IN /\ slot[r][k] = Nil
     /\ Cardinality(LiveKeys(r) \ dropped) < MaxActiveSlots
     /\ slot' = [slot EXCEPT ![r] = [j \in Keys |->
                   IF j = k THEN [valid_until |-> 0, expired_at |-> 0]
                   ELSE IF j \in dropped THEN Nil ELSE @[j]]]
     /\ used' = [used EXCEPT ![r] = @ \cup {k}]

\* add_slot: a key is accepted once.
AddSlot(r, k, open) ==
  LET dropped == IF Cardinality(LiveKeys(r)) >= MaxActiveSlots
                 THEN Prunable(r, open) ELSE {}
  IN /\ k \notin used[r]
     /\ Cardinality(LiveKeys(r) \ dropped) < MaxActiveSlots
     /\ slot' = [slot EXCEPT ![r] = [j \in Keys |->
                   IF j = k THEN [valid_until |-> 0, expired_at |-> 0]
                   ELSE IF j \in dropped THEN Nil ELSE @[j]]]
     /\ used' = [used EXCEPT ![r] = @ \cup {k}]

BumpNonce(r) ==
  /\ nonce[r] < MaxNonce
  /\ nonce' = [nonce EXCEPT ![r] = @ + 1]

\* register
Register(r, q) ==
  /\ ~paused[r]
  /\ Timely(q.until)
  /\ \E open \in BOOLEAN : AddSlot(r, q.key, open)
  /\ BumpNonce(r)
  /\ UNCHANGED <<generation, approval, repin>>

\* set_valid_until: shortens only, has no nonce, and a pause does not stop it.
SetValidUntil(r, q) ==
  LET s   == slot[r][q.key]
      eff == IF q.until > now THEN q.until ELSE now
  IN /\ s # Nil
     /\ q.until # 0
     /\ s.valid_until = 0 \/ q.until < s.valid_until
     /\ slot' = [slot EXCEPT ![r][q.key] =
                   [valid_until |-> q.until,
                    expired_at  |-> IF s.expired_at = 0 \/ eff < s.expired_at
                                    THEN eff ELSE s.expired_at]]
     /\ UNCHANGED <<nonce, used, generation, approval, repin>>

\* revoke: leaves; with slots, refused while no guard is wired.  A wired guard
\* may still report an open position, which only refuses the call.
Revoke(r, q) ==
  /\ ~paused[r]
  /\ LiveKeys(r) # {} => wired[r]
  /\ slot' = [slot EXCEPT ![r] = [k \in Keys |-> Nil]]
  /\ BumpNonce(r)
  /\ generation' = [generation EXCEPT ![r] = @ + 1]
  /\ UNCHANGED <<used, approval, repin>>

\* Mutant: a cancel is a note to the indexer; the nonce stays.
CancelWithoutBump(r, q) ==
  /\ ~paused[r]
  /\ UNCHANGED registryState

\* cancel_pending: spends the nonce and nothing else.
CancelPending(r, q) ==
  /\ ~paused[r]
  /\ BumpNonce(r)
  /\ UNCHANGED <<slot, used, generation, approval, repin>>

\* approve_maker: the pair's own nonce; withdrawing is not pausable.
ApproveMaker(r, q) ==
  /\ q.approved => ~paused[r]
  /\ Timely(q.until)
  /\ approval[r][q.maker].nonce < MaxNonce
  /\ approval' = [approval EXCEPT ![r][q.maker] =
                    [approved |-> q.approved, nonce |-> @.nonce + 1,
                     generation |-> generation[r]]]
  /\ UNCHANGED <<nonce, slot, used, generation, repin>>

\* approve_repin: the order's own nonce; not pausable, no deadline.
ApproveRepin(r, q) ==
  /\ repin[r].nonce < MaxNonce
  /\ repin' = [repin EXCEPT ![r] =
                 [from |-> q.slots[1], to |-> q.slots[2], nonce |-> @.nonce + 1]]
  /\ UNCHANGED <<nonce, slot, used, generation, approval>>

Handle(r, q) ==
  \/ q.kind = "register" /\ Register(r, q)
  \/ q.kind = "retire"   /\ SetValidUntil(r, q)
  \/ q.kind = "revoke"   /\ Revoke(r, q)
  \/ q.kind = "cancel"   /\ CancelPending(r, q)
  \/ q.kind = "approve"  /\ ApproveMaker(r, q)
  \/ q.kind = "repin"    /\ ApproveRepin(r, q)

-----------------------------------------------------------------------------

\* What a handled request withdraws at this registry: leaving and cancelling
\* withdraw what else was signed under the account's nonce, withdrawing a maker
\* what was signed for the pair.
Withdraws(r, q) ==
  {<<i, r>> : i \in {j \in 1..Len(signed) :
     \/ q.kind \in {"revoke", "cancel"}
        /\ signed[j].request.kind \in {"register", "revoke", "cancel"}
     \/ q.kind = "approve" /\ ~q.approved
        /\ signed[j].request.kind = "approve" /\ signed[j].request.maker = q.maker}}

Record(r, q) ==
  /\ dead' = dead \cup Withdraws(r, q)
  /\ left' = IF q.kind = "revoke" THEN [left EXCEPT ![r] = Len(signed)] ELSE left

\* check_owner, Signed: anyone submits a message the owner signed.
Submit(i, r) ==
  LET q == signed[i].request IN
  /\ CheckLegs(r, signed[i].legs, q)
  /\ Handle(r, q)
  /\ Record(r, q)
  /\ applied' = applied \cup {<<i, r>>}
  /\ late' = late \cup (IF <<i, r>> \in applied THEN {"again"} ELSE {})
                  \cup (IF <<i, r>> \in dead THEN {"withdrawn"} ELSE {})
                  \cup (IF i <= left[r] /\ q.kind = "approve" /\ q.approved
                        THEN {"left"} ELSE {})
  /\ UNCHANGED <<now, adminState, registrarVars, signed>>

\* check_owner, Stellar: the owner's own call.
Direct(r, q) ==
  /\ Handle(r, q)
  /\ Record(r, q)
  /\ UNCHANGED <<now, adminState, registrarVars, signed, applied, late>>

\* register_leaf, on the home chain: epochs only rise.
RegisterLeaf(k, e, r) ==
  /\ e >= nextEpoch
  /\ nextEpoch' = e + 1
  /\ regLeaves' = regLeaves \cup {[key |-> k, epoch |-> e, registry |-> r]}
  /\ UNCHANGED <<now, adminState, registryState, signed, histories>>

\* register_by_proof: a leaf under an anchored root, for this very registry.
RegisterByProof(r, leaf) ==
  /\ ~paused[r]
  /\ byProof[r]
  /\ leaf.registry = r
  /\ \E open \in BOOLEAN : AddSlot(r, leaf.key, open)
  /\ UNCHANGED <<nonce, generation, approval, repin>>
  /\ UNCHANGED <<now, adminState, registrarVars, signed, histories>>

SetRegistryPaused(r, p) ==
  /\ paused' = [paused EXCEPT ![r] = p]
  /\ UNCHANGED <<now, wired, byProof, registryState, registrarVars, signed, histories>>

\* set_position_guards
SetPositionGuards(r, w) ==
  /\ wired' = [wired EXCEPT ![r] = w]
  /\ UNCHANGED <<now, paused, byProof, registryState, registrarVars, signed, histories>>

\* set_proof_registration
SetProofRegistration(r, on) ==
  /\ byProof' = [byProof EXCEPT ![r] = on]
  /\ UNCHANGED <<now, paused, wired, registryState, registrarVars, signed, histories>>

Tick ==
  /\ now < MaxTime
  /\ now' = now + 1
  /\ UNCHANGED <<adminState, registryState, registrarVars, signed, histories>>

KeyMessagesStep ==
  \/ \E q \in Requests : \E legs \in LegsFor(q) : Sign(q, legs)
  \/ \E i \in 1..Len(signed), r \in Registries : Submit(i, r)
  \/ \E r \in Registries, q \in Requests : Direct(r, q)
  \/ \E k \in Keys, e \in 0..MaxEpoch, r \in Registries : RegisterLeaf(k, e, r)
  \/ \E r \in Registries, leaf \in regLeaves : RegisterByProof(r, leaf)
  \/ \E r \in Registries, p \in BOOLEAN : SetRegistryPaused(r, p)
  \/ \E r \in Registries, w \in BOOLEAN : SetPositionGuards(r, w)
  \/ \E r \in Registries, on \in BOOLEAN : SetProofRegistration(r, on)
  \/ Tick

KeyMessagesNext ==
  /\ KeyMessagesStep
  /\ gone' = [r \in Registries |-> gone[r] \cup (UsableKeys(r) \ UsableKeys(r)')]

KeyMessagesSpec == KeyMessagesInit /\ [][KeyMessagesNext]_keyMessageVars

-----------------------------------------------------------------------------

\* Whoever submits it, however often and wherever else it was used, a signature
\* takes effect at most once at a registry: each kind's nonce, the one leg that
\* names the registry, and a retirement's shorten-only rule see to it.
SignatureAppliesOnce == "again" \notin late

\* A signature outstanding when the owner cancels or leaves (registrations), or
\* withdraws a maker (that maker's approvals), never takes effect there later.
WithdrawnStaysOut == "withdrawn" \notin late

\* A key that was usable at a registry and stopped being so (retired, pruned,
\* revoked) is never usable there again, by a signature or by a leaf, which
\* stays provable for ever.
KeyNeverReturns == \A r \in Registries : UsableKeys(r) \cap gone[r] = {}

\* What revoke's documentation says: leaving a registry kills every signature
\* outstanding there, an approval of a maker included.
LeavingKillsSignatures == "left" \notin late

ASSUME KeyMessagesAssumption ==
  /\ MaxActiveSlots \in Nat \ {0} /\ GracePeriod \in Nat
  /\ MaxRegisterTtl \in Nat /\ MaxSigned \in Nat /\ MaxNonce \in Nat
  /\ MaxEpoch \in Nat /\ MaxTime \in Nat \ {0}
==============================================================================
