------------------------- MODULE KeyMessagesProofs -------------------------
(***************************************************************************)
(* The owner's signatures, proved for any registries, keys, makers and     *)
(* number of messages.  Replay protection is spread over four counters (a  *)
(* nonce for the account, one for a pair, one for an order, and for a      *)
(* retirement no nonce at all but a date that only shortens), and over the *)
(* legs, of which a message carries one per registry.  The proof says what *)
(* makes a message of each kind spent, that whatever applies or withdraws  *)
(* it leaves it spent, that nothing later revives it, and that a spent     *)
(* message passes no check.                                                *)
(***************************************************************************)
EXTENDS KeyMessages, TLAPS

Kinds == {"register", "revoke", "cancel", "retire", "approve", "repin"}

RequestType ==
  [kind : Kinds, key : Keys \cup {Nil}, maker : Makers \cup {Nil},
   approved : BOOLEAN \cup {Nil}, until : Nat \cup {Nil},
   slots : {<<0, 1>>, Nil}]

MessageType == [request : RequestType, legs : SUBSET (Registries \X Nat)]

\* A request has the fields its handler reads.
RequestOK(q) ==
  /\ q \in RequestType
  /\ q.kind \in {"register", "retire"} => q.key \in Keys
  /\ q.kind = "retire" => q.until \in Nat
  /\ q.kind = "approve" => q.maker \in Makers /\ q.approved \in BOOLEAN
  /\ q.kind = "repin" => q.slots = <<0, 1>>

MakerApproval == [approved : BOOLEAN, nonce : Nat, generation : Nat]
RepinApproval == [from : Nat, to : Nat, nonce : Nat]

RegistryTypes ==
  /\ nonce \in [Registries -> Nat]
  /\ slot \in [Registries -> [Keys -> KeySlot \cup {Nil}]]
  /\ used \in [Registries -> SUBSET Keys]
  /\ generation \in [Registries -> Nat]
  /\ approval \in [Registries -> [Makers -> MakerApproval]]
  /\ repin \in [Registries -> RepinApproval]

LeafTypes == \A leaf \in regLeaves : leaf.key \in Keys /\ leaf.registry \in Registries

MessagesOK ==
  /\ signed \in Seq(MessageType)
  /\ \A i \in 1..Len(signed) : RequestOK(signed[i].request)

\* A key is in a slot only if it was accepted once.
SlotsUsed == \A r \in Registries : LiveKeys(r) \subseteq used[r]

\* A key that stopped being usable was accepted once, and is not usable.
GoneOK ==
  /\ gone \in [Registries -> SUBSET Keys]
  /\ \A r \in Registries : gone[r] \subseteq used[r] /\ UsableKeys(r) \cap gone[r] = {}

\* The one leg message m has for r names nonce n.
LegIs(m, r, n) == {l \in m.legs : l[1] = r} = {<<r, n>>}

\* No message names a nonce that is still to come, except carelessly: with
\* another leg for the same registry, which no check passes.
LegsReached(m) ==
  m.request.kind # "retire" =>
    \A r \in Registries, n \in Nat : LegIs(m, r, n) => n <= NonceFor(r, m.request)

\* A key retired to a date is gone, or stops by that date.
RetiredBy(r, k, t) ==
  /\ k \in used[r]
  /\ slot[r][k] # Nil => slot[r][k].valid_until # 0 /\ slot[r][k].valid_until <= t

\* Message m can no longer take effect at r.
Spent(m, r) ==
  IF m.request.kind = "retire" THEN RetiredBy(r, m.request.key, m.request.until)
  ELSE \A n \in Nat : LegIs(m, r, n) => n < NonceFor(r, m.request)

MessagesReached ==
  \A i \in 1..Len(signed), m \in MessageType : m = signed[i] => LegsReached(m)

\* Whatever was applied or withdrawn at a registry is spent there.
SpentOK ==
  /\ applied \subseteq (1..Len(signed)) \X Registries
  /\ dead \subseteq (1..Len(signed)) \X Registries
  /\ \A i \in 1..Len(signed), r \in Registries, m \in MessageType :
       <<i, r>> \in applied \cup dead /\ m = signed[i] => Spent(m, r)

\* The inductive invariant.
KeyMessagesInv ==
  /\ now \in Nat
  /\ RegistryTypes
  /\ LeafTypes
  /\ SlotsUsed
  /\ GoneOK
  /\ MessagesOK
  /\ MessagesReached
  /\ SpentOK
  /\ SignatureAppliesOnce
  /\ WithdrawnStaysOut

-----------------------------------------------------------------------------

\* The counters only rise.
NoncesRise ==
  \A r \in Registries :
    /\ nonce[r] <= nonce'[r]
    /\ repin[r].nonce <= repin'[r].nonce
    /\ \A m \in Makers : approval[r][m].nonce <= approval'[r][m].nonce

\* What a step does to a key's slot: nothing, empties it, fills it with a key
\* not yet used, or shortens it.
SlotMoves(r, k) ==
  \/ slot'[r][k] = slot[r][k]
  \/ slot'[r][k] = Nil
  \/ k \notin used[r] /\ k \in used'[r]
  \/ /\ slot[r][k] # Nil
     /\ slot'[r][k].valid_until # 0
     /\ slot[r][k].valid_until # 0 => slot'[r][k].valid_until < slot[r][k].valid_until

\* What every step does to the registries.
RegistriesMove ==
  /\ NoncesRise
  /\ \A r \in Registries, k \in Keys : SlotMoves(r, k)
  /\ \A r \in Registries : used[r] \subseteq used'[r]

\* NonceFor, by the kind of request.
LEMMA NonceForIs ==
  ASSUME NEW r \in Registries, NEW q, RequestOK(q)
  PROVE /\ q.kind = "approve" => NonceFor(r, q) = approval[r][q.maker].nonce
        /\ q.kind = "repin" => NonceFor(r, q) = repin[r].nonce
        /\ q.kind \notin {"approve", "repin"} => NonceFor(r, q) = nonce[r]
        /\ q.kind = "approve" => NonceFor(r, q)' = approval'[r][q.maker].nonce
        /\ q.kind = "repin" => NonceFor(r, q)' = repin'[r].nonce
        /\ q.kind \notin {"approve", "repin"} => NonceFor(r, q)' = nonce'[r]
BY DEF NonceFor

LEMMA NonceForTyped ==
  ASSUME RegistryTypes, NEW r \in Registries, NEW q, RequestOK(q)
  PROVE NonceFor(r, q) \in Nat
<1>1. CASE q.kind = "approve"
  BY <1>1, NonceForIs DEF RegistryTypes, RequestOK, MakerApproval
<1>2. CASE q.kind = "repin"
  BY <1>2, NonceForIs DEF RegistryTypes, RepinApproval
<1>3. CASE q.kind \notin {"approve", "repin"}
  BY <1>3, NonceForIs DEF RegistryTypes
<1>4. QED BY <1>1, <1>2, <1>3

LEMMA NonceForTypedNext ==
  ASSUME RegistryTypes', NEW r \in Registries, NEW q, RequestOK(q)
  PROVE NonceFor(r, q)' \in Nat
<1>1. CASE q.kind = "approve"
  <2>1. approval'[r][q.maker] \in MakerApproval
    BY <1>1 DEF RegistryTypes, RequestOK
  <2>2. QED BY <1>1, <2>1, NonceForIs DEF MakerApproval
<1>2. CASE q.kind = "repin"
  BY <1>2, NonceForIs DEF RegistryTypes, RepinApproval
<1>3. CASE q.kind \notin {"approve", "repin"}
  BY <1>3, NonceForIs DEF RegistryTypes
<1>4. QED BY <1>1, <1>2, <1>3

\* Every request the owner can make is one the handlers can read.
LEMMA RequestsOK ==
  ASSUME now \in Nat, NEW q \in Requests PROVE RequestOK(q)
<1>1. now + MaxRegisterTtl \in Nat /\ now + 1 \in Nat
  BY KeyMessagesAssumption DEF KeyMessagesAssumption
<1>2. CASE \E k \in Keys : q = Message("register", k, Nil, Nil, now + MaxRegisterTtl, Nil)
  BY <1>1, <1>2 DEF RequestOK, RequestType, Kinds, Message
<1>3. CASE \E kind \in {"revoke", "cancel"} : q = Message(kind, Nil, Nil, Nil, Nil, Nil)
  BY <1>3 DEF RequestOK, RequestType, Kinds, Message
<1>4. CASE \E k \in Keys, t \in {1, now + 1} : q = Message("retire", k, Nil, Nil, t, Nil)
  BY <1>1, <1>4 DEF RequestOK, RequestType, Kinds, Message
<1>5. CASE \E m \in Makers, yes \in BOOLEAN :
             q = Message("approve", Nil, m, yes, now + MaxRegisterTtl, Nil)
  BY <1>1, <1>5 DEF RequestOK, RequestType, Kinds, Message
<1>6. CASE q = Message("repin", Nil, Nil, Nil, Nil, <<0, 1>>)
  BY <1>6 DEF RequestOK, RequestType, Kinds, Message
<1>7. QED BY <1>2, <1>3, <1>4, <1>5, <1>6 DEF Requests

\* A message's legs name the nonce of the day, or are two for one registry.
LEMMA LegsReachedWhenSigned ==
  ASSUME RegistryTypes, NEW q, RequestOK(q), NEW legs \in LegsFor(q)
  PROVE [request |-> q, legs |-> legs] \in MessageType
        /\ LegsReached([request |-> q, legs |-> legs])
<1> DEFINE m == [request |-> q, legs |-> legs]
<1>1. CASE q.kind = "retire"
  BY <1>1 DEF LegsFor, MessageType, LegsReached, RequestOK
<1>2. CASE q.kind # "retire" /\ legs = {<<s, NonceFor(s, q)>> : s \in Registries}
  <2>1. legs \subseteq Registries \X Nat
    BY <1>2, NonceForTyped
  <2>2. ASSUME NEW r \in Registries, NEW n \in Nat, LegIs(m, r, n)
        PROVE n <= NonceFor(r, q)
    <3>1. <<r, n>> \in legs
      BY <2>2 DEF LegIs
    <3>2. n = NonceFor(r, q)
      BY <3>1, <1>2
    <3>3. QED BY <3>2, NonceForTyped
  <2>3. QED BY <2>1, <2>2, <1>2 DEF MessageType, LegsReached, RequestOK
<1>3. CASE q.kind # "retire"
           /\ \E s \in Registries : legs = {<<s, NonceFor(s, q)>>, <<s, NonceFor(s, q) + 1>>}
  <2>1. PICK s \in Registries : legs = {<<s, NonceFor(s, q)>>, <<s, NonceFor(s, q) + 1>>}
    BY <1>3
  <2>2. NonceFor(s, q) \in Nat
    BY NonceForTyped
  <2>3. legs \subseteq Registries \X Nat
    BY <2>1, <2>2
  <2>4. ASSUME NEW r \in Registries, NEW n \in Nat, LegIs(m, r, n)
        PROVE FALSE
    <3>1. {l \in legs : l[1] = r} = {<<r, n>>}
      BY <2>4 DEF LegIs
    <3>2. <<r, n>> \in legs
      BY <3>1
    <3>3. r = s
      BY <3>2, <2>1
    <3>4. <<s, NonceFor(s, q)>> = <<r, n>> /\ <<s, NonceFor(s, q) + 1>> = <<r, n>>
      BY <3>1, <3>3, <2>1
    <3>5. NonceFor(s, q) = n /\ NonceFor(s, q) + 1 = n
      BY <3>4
    <3>6. QED BY <3>5, <2>2
  <2>5. QED BY <2>3, <2>4, <1>3 DEF MessageType, LegsReached, RequestOK
<1>4. QED BY <1>1, <1>2, <1>3 DEF LegsFor

-----------------------------------------------------------------------------

\* What the handlers keep, and what a handled request does to its own counter.
HandlerKeeps ==
  /\ RegistryTypes'
  /\ RegistriesMove
  /\ SlotsUsed'

LEMMA AddSlotKeeps ==
  ASSUME RegistryTypes, SlotsUsed, NEW r \in Registries, NEW k \in Keys,
         NEW open \in BOOLEAN, AddSlot(r, k, open)
  PROVE /\ slot' \in [Registries -> [Keys -> KeySlot \cup {Nil}]]
        /\ used' \in [Registries -> SUBSET Keys]
        /\ \A s \in Registries, j \in Keys : SlotMoves(s, j)
        /\ \A s \in Registries : used[s] \subseteq used'[s]
        /\ SlotsUsed'
<1>1. PICK dropped :
        slot' = [slot EXCEPT ![r] = [j \in Keys |->
                   IF j = k THEN [valid_until |-> 0, expired_at |-> 0]
                   ELSE IF j \in dropped THEN Nil ELSE slot[r][j]]]
  BY DEF AddSlot
<1>2. k \notin used[r] /\ used' = [used EXCEPT ![r] = used[r] \cup {k}]
  BY DEF AddSlot
<1>3. used' \in [Registries -> SUBSET Keys]
      /\ \A s \in Registries : used[s] \subseteq used'[s]
  BY <1>2 DEF RegistryTypes
<1>4. slot' \in [Registries -> [Keys -> KeySlot \cup {Nil}]]
  BY <1>1 DEF RegistryTypes, KeySlot
<1>5. ASSUME NEW s \in Registries, NEW j \in Keys
      PROVE \/ slot'[s][j] = slot[s][j]
            \/ slot'[s][j] = Nil
            \/ s = r /\ j = k
  BY <1>1 DEF RegistryTypes
<1>6. k \in used'[r]
  BY <1>2 DEF RegistryTypes
<1>7. QED BY <1>2, <1>3, <1>4, <1>5, <1>6 DEF SlotMoves, SlotsUsed, LiveKeys

LEMMA RegisterKeeps ==
  ASSUME RegistryTypes, SlotsUsed, NEW r \in Registries, NEW q, RequestOK(q),
         q.kind = "register", Register(r, q)
  PROVE HandlerKeeps /\ nonce[r] < nonce'[r]
<1>1. PICK open \in BOOLEAN : AddSlot(r, q.key, open)
  BY DEF Register
<1>2. q.key \in Keys
  BY DEF RequestOK
<1>3. nonce' = [nonce EXCEPT ![r] = nonce[r] + 1]
  BY DEF Register, BumpNonce
<1>4. UNCHANGED <<generation, approval, repin>>
  BY DEF Register
<1>5. RegistryTypes'
  BY <1>1, <1>2, <1>3, <1>4, AddSlotKeeps DEF RegistryTypes
<1>6. NoncesRise /\ nonce[r] < nonce'[r]
  BY <1>3, <1>4 DEF NoncesRise, RegistryTypes, RepinApproval, MakerApproval
<1>7. QED BY <1>1, <1>2, <1>5, <1>6, AddSlotKeeps DEF HandlerKeeps, RegistriesMove

LEMMA RetireKeeps ==
  ASSUME RegistryTypes, SlotsUsed, NEW r \in Registries, NEW q, RequestOK(q),
         q.kind = "retire", SetValidUntil(r, q), now \in Nat
  PROVE /\ HandlerKeeps
        /\ RetiredBy(r, q.key, q.until)'
        /\ ~RetiredBy(r, q.key, q.until)
<1> DEFINE k == q.key
           s == slot[r][k]
           eff == IF q.until > now THEN q.until ELSE now
           new == [valid_until |-> q.until,
                   expired_at  |-> IF s.expired_at = 0 \/ eff < s.expired_at
                                   THEN eff ELSE s.expired_at]
<1>1. k \in Keys /\ q.until \in Nat /\ q.until # 0 /\ s # Nil
      /\ (s.valid_until = 0 \/ q.until < s.valid_until)
  BY DEF SetValidUntil, RequestOK
<1>2. slot' = [slot EXCEPT ![r] = [slot[r] EXCEPT ![k] = new]]
  BY DEF SetValidUntil
<1>3. UNCHANGED <<nonce, used, generation, approval, repin>>
  BY DEF SetValidUntil
<1>4. s \in KeySlot
  BY <1>1 DEF RegistryTypes
<1>5. new \in KeySlot /\ new.valid_until = q.until
  BY <1>1, <1>4 DEF KeySlot
<1> HIDE DEF new
<1>6. slot'[r][k] = new
  BY <1>1, <1>2 DEF RegistryTypes
<1>7. \A p \in Registries, j \in Keys : p # r \/ j # k => slot'[p][j] = slot[p][j]
  BY <1>1, <1>2 DEF RegistryTypes
<1>8. RegistryTypes'
  BY <1>1, <1>2, <1>3, <1>5 DEF RegistryTypes
<1>9. NoncesRise
  BY <1>3 DEF NoncesRise, RegistryTypes, RepinApproval, MakerApproval
<1>10. SlotMoves(r, k)
  BY <1>1, <1>5, <1>6 DEF SlotMoves
<1>11. \A p \in Registries, j \in Keys : SlotMoves(p, j)
  BY <1>7, <1>10 DEF SlotMoves
<1>12. k \in used[r]
  BY <1>1 DEF SlotsUsed, LiveKeys
<1>13. SlotsUsed'
  BY <1>3, <1>7, <1>12 DEF SlotsUsed, LiveKeys
<1>14. RetiredBy(r, k, q.until)'
  BY <1>1, <1>3, <1>5, <1>6, <1>12 DEF RetiredBy
<1>15. ~RetiredBy(r, k, q.until)
  BY <1>1, <1>4 DEF RetiredBy, KeySlot
<1>16. QED BY <1>3, <1>8, <1>9, <1>11, <1>13, <1>14, <1>15 DEF HandlerKeeps, RegistriesMove

LEMMA RevokeKeeps ==
  ASSUME RegistryTypes, SlotsUsed, NEW r \in Registries, NEW q, Revoke(r, q)
  PROVE HandlerKeeps /\ nonce[r] < nonce'[r]
<1>1. slot' = [slot EXCEPT ![r] = [k \in Keys |-> Nil]]
  BY DEF Revoke
<1>2. nonce' = [nonce EXCEPT ![r] = nonce[r] + 1]
      /\ generation' = [generation EXCEPT ![r] = generation[r] + 1]
  BY DEF Revoke, BumpNonce
<1>3. UNCHANGED <<used, approval, repin>>
  BY DEF Revoke
<1>4. RegistryTypes'
  BY <1>1, <1>2, <1>3 DEF RegistryTypes
<1>5. NoncesRise /\ nonce[r] < nonce'[r]
  BY <1>2, <1>3 DEF NoncesRise, RegistryTypes, RepinApproval, MakerApproval
<1>6. \A p \in Registries, j \in Keys : slot'[p][j] = slot[p][j] \/ slot'[p][j] = Nil
  BY <1>1 DEF RegistryTypes
<1>7. QED BY <1>3, <1>4, <1>5, <1>6
          DEF HandlerKeeps, RegistriesMove, SlotMoves, SlotsUsed, LiveKeys

LEMMA CancelKeeps ==
  ASSUME RegistryTypes, SlotsUsed, NEW r \in Registries, NEW q, CancelPending(r, q)
  PROVE HandlerKeeps /\ nonce[r] < nonce'[r]
<1>1. nonce' = [nonce EXCEPT ![r] = nonce[r] + 1]
      /\ UNCHANGED <<slot, used, generation, approval, repin>>
  BY DEF CancelPending, BumpNonce
<1>2. RegistryTypes'
  BY <1>1 DEF RegistryTypes
<1>3. NoncesRise /\ nonce[r] < nonce'[r]
  BY <1>1 DEF NoncesRise, RegistryTypes, RepinApproval, MakerApproval
<1>4. QED BY <1>1, <1>2, <1>3
          DEF HandlerKeeps, RegistriesMove, SlotMoves, SlotsUsed, LiveKeys

LEMMA ApproveKeeps ==
  ASSUME RegistryTypes, SlotsUsed, NEW r \in Registries, NEW q, RequestOK(q),
         q.kind = "approve", ApproveMaker(r, q)
  PROVE HandlerKeeps /\ approval[r][q.maker].nonce < approval'[r][q.maker].nonce
<1> DEFINE m == q.maker
           new == [approved |-> q.approved, nonce |-> approval[r][m].nonce + 1,
                   generation |-> generation[r]]
<1>1. m \in Makers /\ q.approved \in BOOLEAN
  BY DEF RequestOK
<1>2. approval' = [approval EXCEPT ![r] = [approval[r] EXCEPT ![m] = new]]
  BY DEF ApproveMaker
<1>3. UNCHANGED <<nonce, slot, used, generation, repin>>
  BY DEF ApproveMaker
<1>4. approval[r][m].nonce \in Nat
  BY <1>1 DEF RegistryTypes, MakerApproval
<1>5. new \in MakerApproval /\ approval[r][m].nonce < new.nonce
  BY <1>1, <1>4 DEF MakerApproval, RegistryTypes
<1> HIDE DEF new
<1>6. RegistryTypes'
  BY <1>1, <1>2, <1>3, <1>5 DEF RegistryTypes
<1>7. approval'[r][m] = new
      /\ \A p \in Registries, j \in Makers :
           p # r \/ j # m => approval'[p][j] = approval[p][j]
  BY <1>1, <1>2 DEF RegistryTypes
<1>8. \A p \in Registries, j \in Makers : approval[p][j].nonce \in Nat
  BY DEF RegistryTypes, MakerApproval
<1>9. NoncesRise
  <2>1. ASSUME NEW p \in Registries, NEW j \in Makers
        PROVE approval[p][j].nonce <= approval'[p][j].nonce
    <3>1. CASE p = r /\ j = m
      <4>1. new.nonce = approval[r][m].nonce + 1
        BY DEF new
      <4>2. QED BY <3>1, <4>1, <1>4, <1>7
    <3>2. CASE p # r \/ j # m
      BY <3>2, <1>7, <1>8
    <3>3. QED BY <3>1, <3>2
  <2>2. QED BY <2>1, <1>3 DEF NoncesRise, RegistryTypes, RepinApproval
<1>10. QED BY <1>3, <1>5, <1>6, <1>7, <1>9
           DEF HandlerKeeps, RegistriesMove, SlotMoves, SlotsUsed, LiveKeys

LEMMA RepinKeeps ==
  ASSUME RegistryTypes, SlotsUsed, NEW r \in Registries, NEW q, RequestOK(q),
         q.kind = "repin", ApproveRepin(r, q)
  PROVE HandlerKeeps /\ repin[r].nonce < repin'[r].nonce
<1> DEFINE new == [from |-> q.slots[1], to |-> q.slots[2], nonce |-> repin[r].nonce + 1]
<1>1. repin' = [repin EXCEPT ![r] = new]
      /\ UNCHANGED <<nonce, slot, used, generation, approval>>
  BY DEF ApproveRepin
<1>2. q.slots[1] \in Nat /\ q.slots[2] \in Nat
  BY DEF RequestOK
<1>3. new \in RepinApproval /\ repin[r].nonce < new.nonce
  BY <1>2 DEF RegistryTypes, RepinApproval
<1> HIDE DEF new
<1>4. RegistryTypes'
  BY <1>1, <1>3 DEF RegistryTypes
<1>5. NoncesRise /\ repin[r].nonce < repin'[r].nonce
  BY <1>1, <1>3 DEF NoncesRise, RegistryTypes, RepinApproval, MakerApproval
<1>6. QED BY <1>1, <1>4, <1>5
          DEF HandlerKeeps, RegistriesMove, SlotMoves, SlotsUsed, LiveKeys

\* A handled request moves its own counter, or retires its key.
LEMMA HandleKeeps ==
  ASSUME now \in Nat, RegistryTypes, SlotsUsed, NEW r \in Registries, NEW q, RequestOK(q),
         Handle(r, q)
  PROVE /\ HandlerKeeps
        /\ q.kind # "retire" => NonceFor(r, q) < NonceFor(r, q)'
        /\ q.kind = "retire" => RetiredBy(r, q.key, q.until)'
                                /\ ~RetiredBy(r, q.key, q.until)
<1>1. CASE q.kind = "register" /\ Register(r, q)
  BY <1>1, RegisterKeeps, NonceForIs
<1>2. CASE q.kind = "retire" /\ SetValidUntil(r, q)
  BY <1>2, RetireKeeps
<1>3. CASE q.kind = "revoke" /\ Revoke(r, q)
  BY <1>3, RevokeKeeps, NonceForIs
<1>4. CASE q.kind = "cancel" /\ CancelPending(r, q)
  BY <1>4, CancelKeeps, NonceForIs
<1>5. CASE q.kind = "approve" /\ ApproveMaker(r, q)
  BY <1>5, ApproveKeeps, NonceForIs
<1>6. CASE q.kind = "repin" /\ ApproveRepin(r, q)
  BY <1>6, RepinKeeps, NonceForIs
<1>7. QED BY <1>1, <1>2, <1>3, <1>4, <1>5, <1>6 DEF Handle

\* A step that leaves the registries alone.
LEMMA QuietKeeps ==
  ASSUME RegistryTypes, SlotsUsed, UNCHANGED registryState PROVE HandlerKeeps
<1>1. UNCHANGED <<nonce, slot, used, generation, approval, repin>>
  BY DEF registryState
<1>2. RegistryTypes'
  BY <1>1 DEF RegistryTypes
<1>3. NoncesRise
  BY <1>1 DEF NoncesRise, RegistryTypes, RepinApproval, MakerApproval
<1>4. QED BY <1>1, <1>2, <1>3
          DEF HandlerKeeps, RegistriesMove, SlotMoves, SlotsUsed, LiveKeys

-----------------------------------------------------------------------------

\* The counter a request is held against never falls.
LEMMA NonceForRises ==
  ASSUME NoncesRise, NEW r \in Registries, NEW q, RequestOK(q)
  PROVE NonceFor(r, q) <= NonceFor(r, q)'
<1>1. CASE q.kind = "approve"
  BY <1>1, NonceForIs DEF NoncesRise, RequestOK
<1>2. CASE q.kind = "repin"
  BY <1>2, NonceForIs DEF NoncesRise
<1>3. CASE q.kind \notin {"approve", "repin"}
  BY <1>3, NonceForIs DEF NoncesRise
<1>4. QED BY <1>1, <1>2, <1>3

\* Once a key is retired to a date, it stays so: a key is accepted once, and a
\* slot only gets shorter.
LEMMA RetiredStays ==
  ASSUME RegistryTypes, RegistryTypes', RegistriesMove, NEW r \in Registries,
         NEW k \in Keys, NEW t \in Nat, RetiredBy(r, k, t)
  PROVE RetiredBy(r, k, t)'
<1>1. SlotMoves(r, k) /\ used[r] \subseteq used'[r]
  BY DEF RegistriesMove
<1>2. k \in used[r] /\ k \in used'[r]
  BY <1>1 DEF RetiredBy
<1>3. SUFFICES ASSUME slot'[r][k] # Nil
               PROVE slot'[r][k].valid_until # 0 /\ slot'[r][k].valid_until <= t
  BY <1>2 DEF RetiredBy
<1>4. slot'[r][k] \in KeySlot
  BY <1>3 DEF RegistryTypes
<1>5. CASE slot'[r][k] = slot[r][k]
  BY <1>3, <1>5 DEF RetiredBy
<1>6. CASE /\ slot[r][k] # Nil
           /\ slot'[r][k].valid_until # 0
           /\ slot[r][k].valid_until # 0 => slot'[r][k].valid_until < slot[r][k].valid_until
  <2>1. slot[r][k] \in KeySlot
    BY <1>6 DEF RegistryTypes
  <2>2. QED BY <1>4, <1>6, <2>1 DEF RetiredBy, KeySlot
<1>7. QED BY <1>1, <1>2, <1>3, <1>5, <1>6 DEF SlotMoves

\* A spent message stays spent.
LEMMA SpentStays ==
  ASSUME RegistryTypes, RegistryTypes', RegistriesMove, NEW m, RequestOK(m.request),
         NEW r \in Registries, Spent(m, r)
  PROVE Spent(m, r)'
<1>1. CASE m.request.kind = "retire"
  BY <1>1, RetiredStays DEF Spent, RequestOK
<1>2. CASE m.request.kind # "retire"
  <2>1. NonceFor(r, m.request) \in Nat /\ NonceFor(r, m.request)' \in Nat
        /\ NonceFor(r, m.request) <= NonceFor(r, m.request)'
    BY NonceForTyped, NonceForTypedNext, NonceForRises DEF RegistriesMove
  <2>2. ASSUME NEW n \in Nat, LegIs(m, r, n)
        PROVE n < NonceFor(r, m.request)'
    <3>1. n < NonceFor(r, m.request)
      BY <1>2, <2>2 DEF Spent
    <3>2. QED BY <2>1, <3>1
  <2>3. QED BY <1>2, <2>2 DEF Spent, LegIs
<1>3. QED BY <1>1, <1>2

\* A spent message passes no check.
LEMMA SpentRefused ==
  ASSUME now \in Nat, RegistryTypes, SlotsUsed, NEW m, RequestOK(m.request),
         NEW r \in Registries, Spent(m, r),
         CheckLegs(r, m.legs, m.request), Handle(r, m.request)
  PROVE FALSE
<1>1. CASE m.request.kind = "retire"
  BY <1>1, HandleKeeps DEF Spent
<1>2. CASE m.request.kind # "retire"
  <2>1. NonceFor(r, m.request) \in Nat
    BY NonceForTyped
  <2>2. LegIs(m, r, NonceFor(r, m.request))
    BY <1>2 DEF CheckLegs, LegIs
  <2>3. NonceFor(r, m.request) < NonceFor(r, m.request)
    BY <1>2, <2>1, <2>2 DEF Spent
  <2>4. QED BY <2>1, <2>3
<1>3. QED BY <1>1, <1>2

\* The message that is applied is spent by it.
LEMMA AppliedSpent ==
  ASSUME now \in Nat, RegistryTypes, RegistryTypes', SlotsUsed, NEW m \in MessageType,
         RequestOK(m.request), LegsReached(m), NEW r \in Registries,
         Handle(r, m.request)
  PROVE Spent(m, r)'
<1>1. CASE m.request.kind = "retire"
  BY <1>1, HandleKeeps DEF Spent
<1>2. CASE m.request.kind # "retire"
  <2>1. NonceFor(r, m.request) \in Nat /\ NonceFor(r, m.request)' \in Nat
        /\ NonceFor(r, m.request) < NonceFor(r, m.request)'
    BY <1>2, NonceForTyped, NonceForTypedNext, HandleKeeps
  <2>2. ASSUME NEW n \in Nat, LegIs(m, r, n)
        PROVE n < NonceFor(r, m.request)'
    <3>1. n <= NonceFor(r, m.request)
      BY <1>2, <2>2 DEF LegsReached
    <3>2. QED BY <2>1, <3>1
  <2>3. QED BY <1>2, <2>2 DEF Spent, LegIs
<1>3. QED BY <1>1, <1>2

\* A request that withdraws a message moves the counter the message is held
\* against, so it is spent.
LEMMA WithdrawnSpent ==
  ASSUME now \in Nat, RegistryTypes, RegistryTypes', SlotsUsed, NEW q, RequestOK(q),
         NEW r \in Registries, Handle(r, q), NEW m \in MessageType,
         RequestOK(m.request), LegsReached(m),
         \/ /\ q.kind \in {"revoke", "cancel"}
            /\ m.request.kind \in {"register", "revoke", "cancel"}
         \/ /\ q.kind = "approve"
            /\ m.request.kind = "approve" /\ m.request.maker = q.maker
  PROVE Spent(m, r)'
<1>1. NonceFor(r, q) < NonceFor(r, q)'
  BY HandleKeeps
<1>2. NonceFor(r, m.request) = NonceFor(r, q) /\ NonceFor(r, m.request)' = NonceFor(r, q)'
  BY NonceForIs
<1>3. NonceFor(r, q) \in Nat /\ NonceFor(r, q)' \in Nat /\ m.request.kind # "retire"
  BY NonceForTyped, NonceForTypedNext
<1>4. ASSUME NEW n \in Nat, LegIs(m, r, n)
      PROVE n < NonceFor(r, m.request)'
  <2>1. n <= NonceFor(r, q)
    BY <1>2, <1>3, <1>4 DEF LegsReached
  <2>2. QED BY <1>1, <1>2, <1>3, <2>1
<1>5. QED BY <1>3, <1>4 DEF Spent, LegIs

\* No message's legs get ahead of the counters.
LEMMA ReachedStays ==
  ASSUME RegistryTypes, RegistryTypes', NoncesRise, NEW m \in MessageType,
         RequestOK(m.request), LegsReached(m)
  PROVE LegsReached(m)'
<1>1. SUFFICES ASSUME m.request.kind # "retire", NEW r \in Registries, NEW n \in Nat,
                      LegIs(m, r, n)
               PROVE n <= NonceFor(r, m.request)'
  BY DEF LegsReached, LegIs
<1>2. n <= NonceFor(r, m.request)
  BY <1>1 DEF LegsReached
<1>3. QED BY <1>2, NonceForTyped, NonceForTypedNext, NonceForRises

\* A key that stopped being usable does not start again, whatever moves.
LEMMA GoneStays ==
  ASSUME now \in Nat, now' \in Nat, now <= now', RegistryTypes, HandlerKeeps,
         SlotsUsed, GoneOK,
         gone' = [r \in Registries |-> gone[r] \cup (UsableKeys(r) \ UsableKeys(r)')]
  PROVE GoneOK'
<1>1. ASSUME NEW r \in Registries, NEW k \in Keys,
             k \notin UsableKeys(r), k \in used[r]
      PROVE k \notin UsableKeys(r)'
  <2>1. SUFFICES ASSUME slot'[r][k] # Nil
                 PROVE slot'[r][k].valid_until # 0 /\ slot'[r][k].valid_until <= now'
    <3>1. slot'[r][k] # Nil => slot'[r][k].valid_until \in Nat
      BY DEF HandlerKeeps, RegistryTypes, KeySlot
    <3>2. QED BY <3>1 DEF UsableKeys
  <2>2. SlotMoves(r, k)
    BY DEF HandlerKeeps, RegistriesMove
  <2>3. slot[r][k] # Nil
        => slot[r][k] \in KeySlot /\ slot[r][k].valid_until # 0
           /\ slot[r][k].valid_until <= now
    BY <1>1 DEF UsableKeys, RegistryTypes, KeySlot
  <2>4. slot'[r][k] \in KeySlot
    BY <2>1 DEF HandlerKeeps, RegistryTypes
  <2>5. CASE slot'[r][k] = slot[r][k]
    BY <2>1, <2>3, <2>4, <2>5 DEF KeySlot
  <2>6. CASE /\ slot[r][k] # Nil
             /\ slot'[r][k].valid_until # 0
             /\ slot[r][k].valid_until # 0 => slot'[r][k].valid_until < slot[r][k].valid_until
    BY <2>3, <2>4, <2>6 DEF KeySlot
  <2>7. QED BY <1>1, <2>1, <2>2, <2>5, <2>6 DEF SlotMoves
<1>2. \A r \in Registries : used[r] \subseteq used'[r]
  BY DEF HandlerKeeps, RegistriesMove
<1>3. ASSUME NEW r \in Registries PROVE UsableKeys(r) \subseteq used[r]
  BY DEF UsableKeys, SlotsUsed, LiveKeys
<1>4. ASSUME NEW r \in Registries, NEW k \in gone'[r]
      PROVE k \in Keys /\ k \in used'[r] /\ k \notin UsableKeys(r)'
  <2>1. CASE k \in gone[r]
    BY <1>1, <1>2, <2>1 DEF GoneOK
  <2>2. CASE k \in UsableKeys(r) \ UsableKeys(r)'
    BY <1>2, <1>3, <2>2 DEF UsableKeys
  <2>3. QED BY <2>1, <2>2
<1>5. gone' \in [Registries -> SUBSET Keys]
  BY <1>4
<1>6. QED BY <1>4, <1>5 DEF GoneOK

-----------------------------------------------------------------------------

\* What each step keeps, the record of usable keys apart.
StepKeeps ==
  /\ now' \in Nat /\ now <= now'
  /\ HandlerKeeps
  /\ LeafTypes'
  /\ MessagesOK'
  /\ MessagesReached'
  /\ SpentOK'
  /\ SignatureAppliesOnce'
  /\ WithdrawnStaysOut'

\* The messages already signed, over any step that signs none.
LEMMA MessagesStay ==
  ASSUME KeyMessagesInv, HandlerKeeps, signed' = signed
  PROVE /\ MessagesOK'
        /\ MessagesReached'
        /\ \A i \in 1..Len(signed), r \in Registries, m \in MessageType :
             <<i, r>> \in applied \cup dead /\ m = signed[i] => Spent(m, r)'
<1>1. MessagesOK'
  BY DEF KeyMessagesInv, MessagesOK
<1>2. ASSUME NEW i \in 1..Len(signed), NEW m \in MessageType, m = signed[i]
      PROVE RequestOK(m.request) /\ LegsReached(m) /\ LegsReached(m)'
  <2>1. RequestOK(m.request) /\ LegsReached(m)
    BY <1>2 DEF KeyMessagesInv, MessagesOK, MessagesReached
  <2>2. QED BY <2>1, ReachedStays DEF KeyMessagesInv, HandlerKeeps, RegistriesMove
<1>3. MessagesReached'
  BY <1>2 DEF MessagesReached
<1>4. ASSUME NEW i \in 1..Len(signed), NEW r \in Registries, NEW m \in MessageType,
             <<i, r>> \in applied \cup dead, m = signed[i]
      PROVE Spent(m, r)'
  <2>1. Spent(m, r)
    BY <1>4 DEF KeyMessagesInv, SpentOK
  <2>2. QED BY <1>2, <1>4, <2>1, SpentStays DEF KeyMessagesInv, HandlerKeeps
<1>5. QED BY <1>1, <1>3, <1>4

\* Steps that sign, apply and withdraw nothing.
LEMMA AsideKeeps ==
  ASSUME KeyMessagesInv, HandlerKeeps, UNCHANGED <<signed, applied, dead, late>>
  PROVE /\ MessagesOK' /\ MessagesReached' /\ SpentOK'
        /\ SignatureAppliesOnce' /\ WithdrawnStaysOut'
<1>1. SpentOK'
  BY MessagesStay DEF KeyMessagesInv, SpentOK
<1>2. QED BY <1>1, MessagesStay
          DEF KeyMessagesInv, SignatureAppliesOnce, WithdrawnStaysOut

\* Signing: the registries do not move, and the new message is held back by
\* none of the histories.
LEMMA SignKeeps ==
  ASSUME KeyMessagesInv, NEW q \in Requests, NEW legs \in LegsFor(q), Sign(q, legs)
  PROVE StepKeeps
<1> DEFINE new == [request |-> q, legs |-> legs]
<1>1. UNCHANGED <<now, registryState, regLeaves, applied, dead, late>>
  BY DEF Sign, registrarVars, histories
<1>2. HandlerKeeps
  BY <1>1, QuietKeeps DEF KeyMessagesInv
<1>3. RequestOK(q)
  BY RequestsOK DEF KeyMessagesInv
<1>4. new \in MessageType /\ LegsReached(new)
  BY <1>3, LegsReachedWhenSigned DEF KeyMessagesInv
<1>5. LegsReached(new)'
  BY <1>2, <1>3, <1>4, ReachedStays DEF KeyMessagesInv, HandlerKeeps, RegistriesMove
<1> HIDE DEF new
<1>6. signed' = Append(signed, new) /\ signed \in Seq(MessageType)
  BY DEF Sign, new, KeyMessagesInv, MessagesOK
<1>7. /\ signed' \in Seq(MessageType) /\ Len(signed') = Len(signed) + 1
      /\ Len(signed) \in Nat
      /\ signed'[Len(signed) + 1] = new
      /\ \A i \in 1..Len(signed) : signed'[i] = signed[i]
  BY <1>4, <1>6
<1>8. \A i \in 1..Len(signed') : i \in 1..Len(signed) \/ i = Len(signed) + 1
  BY <1>7
<1>9. MessagesOK'
  <2>1. new.request = q
    BY DEF new
  <2>2. \A i \in 1..Len(signed') : RequestOK(signed'[i].request)
    BY <1>3, <1>7, <1>8, <2>1 DEF KeyMessagesInv, MessagesOK
  <2>3. QED BY <1>7, <2>2 DEF MessagesOK, RequestOK
<1>10. ASSUME NEW i \in 1..Len(signed), NEW m \in MessageType, m = signed[i]
       PROVE LegsReached(m)'
  <2>1. RequestOK(m.request) /\ LegsReached(m)
    BY <1>10 DEF KeyMessagesInv, MessagesOK, MessagesReached
  <2>2. QED BY <1>2, <2>1, ReachedStays DEF KeyMessagesInv, HandlerKeeps, RegistriesMove
<1>11. MessagesReached'
  <2>1. SUFFICES ASSUME NEW i \in 1..Len(signed'), NEW m \in MessageType, m = signed'[i]
                 PROVE LegsReached(m)'
    BY DEF MessagesReached
  <2>2. CASE i \in 1..Len(signed)
    BY <1>7, <1>10, <2>1, <2>2
  <2>3. CASE i = Len(signed) + 1
    <3>1. m = new
      BY <1>7, <2>1, <2>3
    <3>2. QED BY <1>5, <3>1
  <2>4. QED BY <1>8, <2>2, <2>3
<1>12. SpentOK'
  <2>1. applied' \subseteq (1..Len(signed')) \X Registries
        /\ dead' \subseteq (1..Len(signed')) \X Registries
    BY <1>1, <1>7 DEF KeyMessagesInv, SpentOK
  <2>2. ASSUME NEW i \in 1..Len(signed'), NEW r \in Registries, NEW m \in MessageType,
               <<i, r>> \in applied' \cup dead', m = signed'[i]
        PROVE Spent(m, r)'
    <3>1. i \in 1..Len(signed) /\ m = signed[i] /\ <<i, r>> \in applied \cup dead
      BY <1>1, <1>7, <2>2 DEF KeyMessagesInv, SpentOK
    <3>2. Spent(m, r) /\ RequestOK(m.request)
      BY <3>1 DEF KeyMessagesInv, SpentOK, MessagesOK
    <3>3. QED BY <1>2, <3>2, SpentStays DEF KeyMessagesInv, HandlerKeeps
  <2>3. QED BY <2>1, <2>2 DEF SpentOK
<1>13. LeafTypes' /\ now' \in Nat /\ now <= now'
  BY <1>1 DEF KeyMessagesInv, LeafTypes
<1>14. SignatureAppliesOnce' /\ WithdrawnStaysOut'
  BY <1>1 DEF KeyMessagesInv, SignatureAppliesOnce, WithdrawnStaysOut
<1>15. QED BY <1>2, <1>9, <1>11, <1>12, <1>13, <1>14 DEF StepKeeps

\* What a handled request withdraws is spent, and stays spent.
LEMMA RecordKeeps ==
  ASSUME KeyMessagesInv, HandlerKeeps, signed' = signed, NEW q, RequestOK(q),
         NEW r \in Registries, Handle(r, q), Record(r, q)
  PROVE /\ dead' \subseteq (1..Len(signed)) \X Registries
        /\ \A i \in 1..Len(signed), s \in Registries, m \in MessageType :
             <<i, s>> \in dead' /\ m = signed[i] => Spent(m, s)'
<1>1. dead' = dead \cup Withdraws(r, q)
  BY DEF Record
<1>2. dead' \subseteq (1..Len(signed)) \X Registries
  BY <1>1 DEF KeyMessagesInv, SpentOK, Withdraws
<1>3. ASSUME NEW i \in 1..Len(signed), NEW s \in Registries, NEW m \in MessageType,
             <<i, s>> \in dead', m = signed[i]
      PROVE Spent(m, s)'
  <2>1. CASE <<i, s>> \in dead
    BY <1>3, <2>1, MessagesStay
  <2>2. CASE <<i, s>> \in Withdraws(r, q)
    <3>1. s = r
          /\ \/ /\ q.kind \in {"revoke", "cancel"}
                /\ m.request.kind \in {"register", "revoke", "cancel"}
             \/ /\ q.kind = "approve"
                /\ m.request.kind = "approve" /\ m.request.maker = q.maker
      BY <1>3, <2>2 DEF Withdraws
    <3>2. RequestOK(m.request) /\ LegsReached(m)
      BY <1>3 DEF KeyMessagesInv, MessagesOK, MessagesReached
    <3>3. QED BY <3>1, <3>2, WithdrawnSpent DEF KeyMessagesInv, HandlerKeeps
  <2>3. QED BY <1>1, <1>3, <2>1, <2>2
<1>4. QED BY <1>2, <1>3

\* Submitting: a message in the histories is spent, so this one is not, and it
\* is spent now.
LEMMA SubmitKeeps ==
  ASSUME KeyMessagesInv, NEW i \in 1..Len(signed), NEW r \in Registries, Submit(i, r)
  PROVE StepKeeps
<1>1. PICK m \in MessageType : m = signed[i]
  BY DEF KeyMessagesInv, MessagesOK
<1>2. PICK q : q = m.request
  OBVIOUS
<1>3. CheckLegs(r, m.legs, q) /\ Handle(r, q) /\ Record(r, q)
  BY <1>1, <1>2 DEF Submit
<1>4. RequestOK(q) /\ LegsReached(m)
  BY <1>1, <1>2 DEF KeyMessagesInv, MessagesOK, MessagesReached
<1>5. UNCHANGED <<now, regLeaves, signed>>
  BY DEF Submit, registrarVars
<1>6. HandlerKeeps
  BY <1>3, <1>4, HandleKeeps DEF KeyMessagesInv
<1>7. <<i, r>> \notin applied \cup dead
  <2>1. SUFFICES ASSUME <<i, r>> \in applied \cup dead PROVE FALSE
    OBVIOUS
  <2>2. Spent(m, r)
    BY <1>1, <2>1 DEF KeyMessagesInv, SpentOK
  <2>3. QED BY <1>2, <1>3, <1>4, <2>2, SpentRefused DEF KeyMessagesInv
<1>8. SignatureAppliesOnce' /\ WithdrawnStaysOut'
  BY <1>7 DEF Submit, KeyMessagesInv, SignatureAppliesOnce, WithdrawnStaysOut
<1>9. Spent(m, r)'
  BY <1>2, <1>3, <1>4, <1>6, AppliedSpent DEF KeyMessagesInv, HandlerKeeps
<1>10. SpentOK'
  <2>1. applied' = applied \cup {<<i, r>>}
    BY DEF Submit
  <2>2. applied' \subseteq (1..Len(signed')) \X Registries
    BY <1>5, <2>1 DEF KeyMessagesInv, SpentOK
  <2>3. /\ dead' \subseteq (1..Len(signed)) \X Registries
        /\ \A j \in 1..Len(signed), s \in Registries, x \in MessageType :
             <<j, s>> \in dead' /\ x = signed[j] => Spent(x, s)'
    BY <1>3, <1>4, <1>5, <1>6, RecordKeeps
  <2>4. ASSUME NEW j \in 1..Len(signed), NEW s \in Registries, NEW x \in MessageType,
               <<j, s>> \in applied', x = signed[j]
        PROVE Spent(x, s)'
    <3>1. CASE <<j, s>> \in applied
      BY <1>5, <1>6, <2>4, <3>1, MessagesStay
    <3>2. CASE <<j, s>> = <<i, r>>
      BY <1>1, <1>9, <2>4, <3>2
    <3>3. QED BY <2>1, <2>4, <3>1, <3>2
  <2>5. QED BY <1>5, <2>2, <2>3, <2>4 DEF SpentOK
<1>11. LeafTypes' /\ now' \in Nat /\ now <= now'
  BY <1>5 DEF KeyMessagesInv, LeafTypes
<1>12. QED BY <1>5, <1>6, <1>8, <1>10, <1>11, MessagesStay DEF StepKeeps

\* The owner's own call.
LEMMA DirectKeeps ==
  ASSUME KeyMessagesInv, NEW r \in Registries, NEW q \in Requests, Direct(r, q)
  PROVE StepKeeps
<1>1. RequestOK(q)
  BY RequestsOK DEF KeyMessagesInv
<1>2. Handle(r, q) /\ Record(r, q) /\ UNCHANGED <<now, regLeaves, signed, applied, late>>
  BY DEF Direct, registrarVars
<1>3. HandlerKeeps
  BY <1>1, <1>2, HandleKeeps DEF KeyMessagesInv
<1>4. /\ dead' \subseteq (1..Len(signed)) \X Registries
      /\ \A i \in 1..Len(signed), s \in Registries, m \in MessageType :
           <<i, s>> \in dead' /\ m = signed[i] => Spent(m, s)'
  BY <1>1, <1>2, <1>3, RecordKeeps
<1>5. \A i \in 1..Len(signed), s \in Registries, m \in MessageType :
        <<i, s>> \in applied \cup dead /\ m = signed[i] => Spent(m, s)'
  BY <1>2, <1>3, MessagesStay
<1>6. SpentOK'
  BY <1>2, <1>4, <1>5 DEF KeyMessagesInv, SpentOK
<1>7. LeafTypes' /\ now' \in Nat /\ now <= now'
      /\ SignatureAppliesOnce' /\ WithdrawnStaysOut'
  BY <1>2 DEF KeyMessagesInv, LeafTypes, SignatureAppliesOnce, WithdrawnStaysOut
<1>8. QED BY <1>2, <1>3, <1>6, <1>7, MessagesStay DEF StepKeeps

\* The registrar, the admin and the clock.
LEMMA OthersKeep ==
  ASSUME KeyMessagesInv,
         \/ \E k \in Keys, e \in 0..MaxEpoch, r \in Registries : RegisterLeaf(k, e, r)
         \/ \E r \in Registries, leaf \in regLeaves : RegisterByProof(r, leaf)
         \/ \E r \in Registries, p \in BOOLEAN : SetRegistryPaused(r, p)
         \/ \E r \in Registries, w \in BOOLEAN : SetPositionGuards(r, w)
         \/ \E r \in Registries, on \in BOOLEAN : SetProofRegistration(r, on)
         \/ Tick
  PROVE StepKeeps
<1>1. CASE \E k \in Keys, e \in 0..MaxEpoch, r \in Registries : RegisterLeaf(k, e, r)
  <2>1. LeafTypes' /\ UNCHANGED <<now, registryState, signed, applied, dead, late>>
    BY <1>1 DEF RegisterLeaf, histories, KeyMessagesInv, LeafTypes
  <2>2. QED BY <2>1, QuietKeeps, AsideKeeps DEF StepKeeps, KeyMessagesInv
<1>2. CASE \E r \in Registries, leaf \in regLeaves : RegisterByProof(r, leaf)
  <2>1. PICK r \in Registries, leaf \in regLeaves : RegisterByProof(r, leaf)
    BY <1>2
  <2>2. PICK k \in Keys : k = leaf.key
    BY DEF KeyMessagesInv, LeafTypes
  <2>3. PICK open \in BOOLEAN : AddSlot(r, k, open)
    BY <2>1, <2>2 DEF RegisterByProof
  <2>4. UNCHANGED <<nonce, generation, approval, repin, now, regLeaves, signed,
                    applied, dead, late>>
    BY <2>1 DEF RegisterByProof, registrarVars, histories
  <2>5. NoncesRise
    BY <2>4 DEF KeyMessagesInv, NoncesRise, RegistryTypes, RepinApproval, MakerApproval
  <2>6. HandlerKeeps
    BY <2>3, <2>4, <2>5, AddSlotKeeps
       DEF KeyMessagesInv, HandlerKeeps, RegistriesMove, RegistryTypes
  <2>7. QED BY <2>4, <2>6, AsideKeeps DEF StepKeeps, KeyMessagesInv, LeafTypes
<1>3. CASE \/ \E r \in Registries, p \in BOOLEAN : SetRegistryPaused(r, p)
           \/ \E r \in Registries, w \in BOOLEAN : SetPositionGuards(r, w)
           \/ \E r \in Registries, on \in BOOLEAN : SetProofRegistration(r, on)
  <2>1. UNCHANGED <<now, registryState, regLeaves, signed, applied, dead, late>>
    BY <1>3 DEF SetRegistryPaused, SetPositionGuards, SetProofRegistration,
                registrarVars, histories
  <2>2. QED BY <2>1, QuietKeeps, AsideKeeps DEF StepKeeps, KeyMessagesInv, LeafTypes
<1>4. CASE Tick
  <2>1. now' = now + 1 /\ UNCHANGED <<registryState, regLeaves, signed, applied, dead, late>>
    BY <1>4 DEF Tick, registrarVars, histories
  <2>2. QED BY <2>1, QuietKeeps, AsideKeeps DEF StepKeeps, KeyMessagesInv, LeafTypes
<1>5. QED BY <1>1, <1>2, <1>3, <1>4

LEMMA KeyMessagesInitInv == KeyMessagesInit => KeyMessagesInv
<1> SUFFICES ASSUME KeyMessagesInit PROVE KeyMessagesInv
  OBVIOUS
<1>1. RegistryTypes
  BY DEF KeyMessagesInit, RegistryTypes, KeySlot, MakerApproval, RepinApproval
<1>2. signed = <<>> /\ Len(signed) = 0
  BY DEF KeyMessagesInit
<1>3. MessagesOK /\ MessagesReached
  BY <1>2 DEF MessagesOK, MessagesReached
<1>4. SlotsUsed /\ GoneOK
  BY DEF KeyMessagesInit, SlotsUsed, GoneOK, LiveKeys, UsableKeys
<1>5. QED BY <1>1, <1>2, <1>3, <1>4
          DEF KeyMessagesInit, KeyMessagesInv, LeafTypes, SpentOK,
              SignatureAppliesOnce, WithdrawnStaysOut

LEMMA KeyMessagesStepInv ==
  KeyMessagesInv /\ [KeyMessagesNext]_keyMessageVars => KeyMessagesInv'
<1> SUFFICES ASSUME KeyMessagesInv, [KeyMessagesNext]_keyMessageVars
             PROVE KeyMessagesInv'
  OBVIOUS
<1>1. CASE KeyMessagesNext
  <2>1. StepKeeps
    <3>1. CASE \E q \in Requests : \E legs \in LegsFor(q) : Sign(q, legs)
      BY <3>1, SignKeeps
    <3>2. CASE \E i \in 1..Len(signed), r \in Registries : Submit(i, r)
      BY <3>2, SubmitKeeps
    <3>3. CASE \E r \in Registries, q \in Requests : Direct(r, q)
      BY <3>3, DirectKeeps
    <3>4. QED BY <1>1, <3>1, <3>2, <3>3, OthersKeep DEF KeyMessagesNext, KeyMessagesStep
  <2>2. GoneOK'
    BY <1>1, <2>1, GoneStays DEF KeyMessagesInv, KeyMessagesNext, StepKeeps
  <2>3. QED BY <2>1, <2>2 DEF KeyMessagesInv, StepKeeps, HandlerKeeps
<1>2. CASE UNCHANGED keyMessageVars
  <2>1. UNCHANGED <<now, registryState, regLeaves, signed, applied, dead, late, gone>>
    BY <1>2 DEF keyMessageVars, registrarVars, histories
  <2>2. HandlerKeeps
    BY <2>1, QuietKeeps DEF KeyMessagesInv
  <2>3. \A r \in Registries : UsableKeys(r)' = UsableKeys(r)
    BY <2>1 DEF registryState, UsableKeys
  <2>4. GoneOK'
    BY <2>1, <2>3 DEF KeyMessagesInv, GoneOK, registryState
  <2>5. QED BY <2>1, <2>2, <2>4, AsideKeeps DEF KeyMessagesInv, HandlerKeeps, LeafTypes
<1>3. QED BY <1>1, <1>2

LEMMA KeyMessagesInvariant == KeyMessagesSpec => []KeyMessagesInv
<1>1. QED BY KeyMessagesInitInv, KeyMessagesStepInv, PTL DEF KeyMessagesSpec

\* Whoever submits a signature, to whichever registry and however often, it
\* takes effect there at most once (check_legs, the nonces, and the rule that a
\* retirement only shortens).
THEOREM SignaturesApplyOnce == KeyMessagesSpec => []SignatureAppliesOnce
<1>1. QED BY KeyMessagesInvariant, PTL DEF KeyMessagesInv

\* What was outstanding when the owner cancelled or left, or withdrew a maker,
\* never takes effect at that registry (cancel_pending, revoke, approve_maker).
THEOREM WithdrawnMessagesStayOut == KeyMessagesSpec => []WithdrawnStaysOut
<1>1. QED BY KeyMessagesInvariant, PTL DEF KeyMessagesInv

\* A key that stopped being usable at a registry is never usable there again,
\* by either way in (add_slot's record of every commitment it accepted).
THEOREM KeysNeverReturn == KeyMessagesSpec => []KeyNeverReturns
<1>1. KeyMessagesInv => KeyNeverReturns
  BY DEF KeyMessagesInv, GoneOK, KeyNeverReturns
<1>2. QED BY <1>1, KeyMessagesInvariant, PTL
=============================================================================
