------------------------ MODULE DisputeManagerProofs ------------------------
(***************************************************************************)
(* Type correctness of the dispute module, and the floor under its         *)
(* windows, for any number of deployments, escrows, parties and orders.    *)
(* Each operation has a lemma of its own, because the escrow's module      *)
(* takes the same steps inside its own actions and cites them there.       *)
(***************************************************************************)
EXTENDS DisputeManager, SumsProofs

\* The inductive invariant, in what every step of either module needs.
DisputeInv == AdLedgerTypeOK /\ DisputeManagerTypeOK /\ DisputeWindowFloor

\* What a step must leave true, whatever the clock does with it.
DisputeStateOK == DisputeManagerTypeOK /\ DisputeWindowFloor

-----------------------------------------------------------------------------
(* What the bond rule computes *)

LEMMA RouteBondNat ==
  ASSUME NEW c \in BondConfig, NEW amount \in Nat
  PROVE  RouteBond(c, amount) \in Nat
<1>1. c.min_bond \in Nat /\ c.bond_bps \in Nat
  BY DEF BondConfig
<1>2. amount * c.bond_bps \in Nat
  BY <1>1
<1>3. (amount * c.bond_bps) \div 10000 \in Nat
  BY <1>2
<1> QED
  BY <1>1, <1>3 DEF RouteBond, Later

LEMMA BondOfType ==
  ASSUME DisputeManagerTypeOK, NEW m \in Modules, NEW amount \in Nat,
         dmParams[m] # Nil
  PROVE  BondOf(m, amount) \in [token : Tokens, bond : Nat]
<1>1. CASE bondConfig[m] # Nil
  <2>1. bondConfig[m] \in BondConfig
    BY <1>1 DEF DisputeManagerTypeOK
  <2>2. RouteBond(bondConfig[m], amount) \in Nat
    BY <2>1, RouteBondNat
  <2> QED
    BY <1>1, <2>2 DEF BondOf, Tokens
<1>2. CASE bondConfig[m] = Nil
  <2>1. dmParams[m].bond_floor \in Nat
    BY DEF DisputeManagerTypeOK, DisputeParams
  <2> QED
    BY <1>2, <2>1 DEF BondOf, Tokens
<1> QED
  BY <1>1, <1>2

\* A payout moves the bond from the balance or into a credit, of its own token.
LEMMA PayBondType ==
  ASSUME DisputeManagerTypeOK,
         NEW m \in Modules, NEW to \in Parties, NEW token \in Tokens,
         NEW amount \in Nat, PayBond(m, to, token, amount)
  PROVE  /\ bondHeld' \in [Modules -> [Tokens -> Int]]
         /\ bondCredit' \in [Modules -> [Parties -> [Tokens -> Nat]]]
<1> USE DEF DisputeManagerTypeOK
<1>1. bondHeld' = [bondHeld EXCEPT ![m][token] = @ - amount] =>
        bondHeld' \in [Modules -> [Tokens -> Int]]
  <2>1. bondHeld[m][token] - amount \in Int
    OBVIOUS
  <2>2. [bondHeld[m] EXCEPT ![token] = @ - amount] \in [Tokens -> Int]
    BY <2>1
  <2> QED
    BY <2>2
<1>2. bondCredit' = [bondCredit EXCEPT ![m][to][token] = @ + amount] =>
        bondCredit' \in [Modules -> [Parties -> [Tokens -> Nat]]]
  <2>1. bondCredit[m][to][token] + amount \in Nat
    OBVIOUS
  <2>2. [bondCredit[m][to] EXCEPT ![token] = @ + amount] \in [Tokens -> Nat]
    BY <2>1
  <2>3. [bondCredit[m] EXCEPT ![to][token] = @ + amount] \in [Parties -> [Tokens -> Nat]]
    BY <2>2
  <2> QED
    BY <2>3
<1> QED
  BY <1>1, <1>2 DEF PayBond

-----------------------------------------------------------------------------
(* The admin *)

LEMMA AdminStepOK ==
  ASSUME DisputeStateOK, DisputeManagerAdminNext
  PROVE  DisputeStateOK'
<1> USE DEF DisputeStateOK, DisputeManagerTypeOK, DisputeWindowFloor, Disputed
<1> SUFFICES ASSUME NEW m \in Modules,
                    \/ \E e \in Escrows, b \in BOOLEAN : SetEscrow(m, e, b)
                    \/ \E p \in ParamChoices : SetDisputeParams(m, p)
                    \/ \E c \in BondChoices : SetBondConfig(m, c)
                    \/ \E pool \in FeePools : SetFeePool(m, pool)
             PROVE  DisputeStateOK'
  BY DEF DisputeManagerAdminNext
<1>1. ASSUME NEW e \in Escrows, NEW b \in BOOLEAN, SetEscrow(m, e, b)
      PROVE  DisputeStateOK'
  BY <1>1 DEF SetEscrow
<1>2. ASSUME NEW p \in ParamChoices, SetDisputeParams(m, p)
      PROVE  DisputeStateOK'
  BY <1>2, DisputeManagerAssumption DEF SetDisputeParams
<1>3. ASSUME NEW c \in BondChoices, SetBondConfig(m, c)
      PROVE  DisputeStateOK'
  BY <1>3, DisputeManagerAssumption DEF SetBondConfig
<1>4. ASSUME NEW pool \in FeePools, SetFeePool(m, pool)
      PROVE  DisputeStateOK'
  BY <1>4 DEF SetFeePool
<1> QED
  BY <1>1, <1>2, <1>3, <1>4

-----------------------------------------------------------------------------
(* The escrow's calls *)

\* What any single-record update of `dispute` has to show.
LEMMA DisputeUpdateOK ==
  ASSUME DisputeStateOK, NEW m \in Modules, NEW o \in Orders,
         NEW d \in DisputeRecord \cup {Nil},
         d # Nil => d.challenge_deadline >= d.order_deadline + d.buffer,
         dispute' = [dispute EXCEPT ![m][o] = d],
         UNCHANGED <<dmEscrows, dmParams, bondConfig, feePool>>,
         bondHeld' \in [Modules -> [Tokens -> Int]],
         bondCredit' \in [Modules -> [Parties -> [Tokens -> Nat]]]
  PROVE  DisputeStateOK'
<1> USE DEF DisputeStateOK
<1>1. [dispute[m] EXCEPT ![o] = d] \in [Orders -> DisputeRecord \cup {Nil}]
  BY DEF DisputeManagerTypeOK
<1>2. DisputeManagerTypeOK'
  BY <1>1 DEF DisputeManagerTypeOK
<1>3. DisputeWindowFloor'
  BY DEF DisputeManagerTypeOK, DisputeWindowFloor, Disputed
<1> QED
  BY <1>2, <1>3

LEMMA OpenDisputeOK ==
  ASSUME DisputeStateOK, AdLedgerTypeOK,
         NEW m \in Modules, NEW e \in Escrows, NEW o \in Orders,
         NEW filer \in Parties, NEW deadline \in Nat, NEW buffer \in Nat,
         NEW amount \in Nat,
         OpenDispute(m, e, o, filer, deadline, buffer, amount)
  PROVE  /\ DisputeStateOK'
         /\ \E d \in DisputeRecord :
              /\ dispute' = [dispute EXCEPT ![m][o] = d]
              /\ d.escrow = e /\ d.order_deadline = deadline /\ d.buffer = buffer
<1> DEFINE b == BondOf(m, amount)
           until == Later(adNow + dmParams[m].challenge_period, deadline + buffer)
           d == [initiator |-> filer, bond |-> b.bond, bond_token |-> b.token,
                 challenge_deadline |-> until, responded |-> FALSE,
                 ruling |-> "None", escrow |-> e, order_deadline |-> deadline,
                 buffer |-> buffer]
<1>1. b \in [token : Tokens, bond : Nat]
  BY BondOfType DEF OpenDispute, DisputeStateOK
<1>2. dmParams[m].challenge_period \in Nat
  BY DEF OpenDispute, DisputeStateOK, DisputeManagerTypeOK, DisputeParams
<1>3. until \in Nat /\ until >= deadline + buffer
  BY <1>2 DEF Later, AdLedgerTypeOK
<1>4. d \in DisputeRecord
  BY <1>1, <1>3 DEF DisputeRecord, Ruling, Outcome
<1>5. d.challenge_deadline >= d.order_deadline + d.buffer
  BY <1>3
<1>6. bondHeld' \in [Modules -> [Tokens -> Int]]
  <2>1. [bondHeld[m] EXCEPT ![b.token] = @ + b.bond] \in [Tokens -> Int]
    BY <1>1 DEF DisputeStateOK, DisputeManagerTypeOK
  <2>2. bondHeld' = [bondHeld EXCEPT ![m][b.token] = @ + b.bond]
    BY DEF OpenDispute
  <2> QED
    BY <2>1, <2>2 DEF DisputeStateOK, DisputeManagerTypeOK
<1>7. dispute' = [dispute EXCEPT ![m][o] = d]
  BY DEF OpenDispute
<1>8. bondCredit' \in [Modules -> [Parties -> [Tokens -> Nat]]]
  BY DEF OpenDispute, DisputeStateOK, DisputeManagerTypeOK
<1>9. d.escrow = e /\ d.order_deadline = deadline /\ d.buffer = buffer
  OBVIOUS
<1>10. DisputeStateOK'
  BY <1>4, <1>5, <1>6, <1>7, <1>8, DisputeUpdateOK DEF OpenDispute
<1> HIDE DEF d
<1> QED
  BY <1>4, <1>7, <1>9, <1>10

LEMMA RecordResponseOK ==
  ASSUME DisputeStateOK, NEW m \in Modules, NEW e \in Escrows,
         NEW o \in Orders, NEW responder \in Parties,
         RecordResponse(m, e, o, responder)
  PROVE  DisputeStateOK'
<1> DEFINE d == [dispute[m][o] EXCEPT !.responded = TRUE]
<1>1. dispute[m][o] \in DisputeRecord
  BY DEF RecordResponse, Disputed, DisputeStateOK, DisputeManagerTypeOK
<1>2. d \in DisputeRecord /\ d.challenge_deadline >= d.order_deadline + d.buffer
  BY <1>1 DEF RecordResponse, DisputeRecord, DisputeStateOK, DisputeWindowFloor
<1>3. dispute' = [dispute EXCEPT ![m][o] = d]
  BY DEF RecordResponse
<1> QED
  BY <1>2, <1>3, DisputeUpdateOK
  DEF RecordResponse, DisputeStateOK, DisputeManagerTypeOK

LEMMA SettleBondOK ==
  ASSUME DisputeStateOK, NEW m \in Modules, NEW e \in Escrows,
         NEW o \in Orders, NEW outcome, NEW filerIsBridger, NEW returnToFiler,
         SettleBond(m, e, o, outcome, filerIsBridger, returnToFiler)
  PROVE  DisputeStateOK'
<1> DEFINE d  == dispute[m][o]
           to == IF \/ BondReturnsToFiler(outcome, filerIsBridger, returnToFiler)
                    \/ feePool[m] = Nil
                   THEN d.initiator ELSE feePool[m]
<1>1. d \in DisputeRecord
  BY DEF SettleBond, Disputed, DisputeStateOK, DisputeManagerTypeOK
<1>2. to \in Parties
  BY <1>1, DisputeManagerAssumption
  DEF DisputeRecord, DisputeStateOK, DisputeManagerTypeOK
<1>3. PayBond(m, to, d.bond_token, d.bond)
  BY DEF SettleBond
<1>4. d.bond_token \in Tokens /\ d.bond \in Nat
  BY <1>1 DEF DisputeRecord
<1> HIDE DEF d, to
<1>5. /\ bondHeld' \in [Modules -> [Tokens -> Int]]
      /\ bondCredit' \in [Modules -> [Parties -> [Tokens -> Nat]]]
  BY <1>2, <1>3, <1>4, PayBondType DEF DisputeStateOK
<1> QED
  BY <1>5, DisputeUpdateOK DEF SettleBond

-----------------------------------------------------------------------------
(* The arbiter and the payees *)

\* A ruling rewrites two fields of the record, and leaves the window no shorter
\* than the order's own however many rulings went before.
LEMMA RuledRecord ==
  ASSUME NEW d \in DisputeRecord, NEW outcome \in Ruling, AdLedgerTypeOK
  PROVE  /\ Ruled(d, outcome) \in DisputeRecord
         /\ Ruled(d, outcome).escrow = d.escrow
         /\ Ruled(d, outcome).initiator = d.initiator
         /\ Ruled(d, outcome).order_deadline = d.order_deadline
         /\ Ruled(d, outcome).buffer = d.buffer
         /\ Ruled(d, outcome).challenge_deadline
              >= Ruled(d, outcome).order_deadline + Ruled(d, outcome).buffer
<1> USE DEF DisputeRecord
<1>1. /\ RuledDeadline(d) \in Nat
      /\ RuledDeadline(d) >= d.order_deadline + d.buffer
  BY DEF RuledDeadline, Later, AdLedgerTypeOK
<1>2. PICK a : a = [d EXCEPT !.ruling = outcome]
  OBVIOUS
<1>3. PICK b : b = [a EXCEPT !.challenge_deadline = RuledDeadline(d)]
  OBVIOUS
<1>4. /\ a \in DisputeRecord
      /\ a.escrow = d.escrow /\ a.initiator = d.initiator
      /\ a.order_deadline = d.order_deadline /\ a.buffer = d.buffer
  BY <1>2
<1>5. /\ b \in DisputeRecord
      /\ b.escrow = d.escrow /\ b.initiator = d.initiator
      /\ b.order_deadline = d.order_deadline /\ b.buffer = d.buffer
      /\ b.challenge_deadline = RuledDeadline(d)
  BY <1>1, <1>3, <1>4
<1>6. Ruled(d, outcome) = b
  BY <1>2, <1>3 DEF Ruled
<1> QED
  BY <1>1, <1>5, <1>6

LEMMA ResolveDisputeOK ==
  ASSUME DisputeStateOK, AdLedgerTypeOK, NEW m \in Modules, NEW o \in Orders,
         NEW outcome \in Outcome, ResolveDispute(m, o, outcome)
  PROVE  DisputeStateOK'
<1>1. dispute[m][o] \in DisputeRecord
  BY DEF ResolveDispute, Disputed, DisputeStateOK, DisputeManagerTypeOK
<1>2. outcome \in Ruling
  BY DEF ResolveDispute, Rulable, Ruling
<1>3. dispute' = [dispute EXCEPT ![m][o] = Ruled(dispute[m][o], outcome)]
  BY DEF ResolveDispute
<1> QED
  BY <1>1, <1>2, <1>3, RuledRecord, DisputeUpdateOK
  DEF ResolveDispute, DisputeStateOK, DisputeManagerTypeOK

LEMMA ClaimBondOK ==
  ASSUME DisputeStateOK, NEW m \in Modules, NEW who \in Parties,
         NEW token \in Tokens, ClaimBond(m, who, token)
  PROVE  DisputeStateOK'
<1> USE DEF DisputeStateOK, DisputeManagerTypeOK
<1>1. bondCredit[m][who][token] \in Nat /\ bondHeld[m][token] \in Int
  OBVIOUS
<1>2. [bondHeld[m] EXCEPT ![token] = @ - bondCredit[m][who][token]] \in [Tokens -> Int]
  BY <1>1
<1>3. bondHeld' \in [Modules -> [Tokens -> Int]]
  BY <1>2 DEF ClaimBond
<1>4. [bondCredit[m][who] EXCEPT ![token] = 0] \in [Tokens -> Nat]
  OBVIOUS
<1>5. [bondCredit[m] EXCEPT ![who][token] = 0] \in [Parties -> [Tokens -> Nat]]
  BY <1>4
<1>6. bondCredit' \in [Modules -> [Parties -> [Tokens -> Nat]]]
  BY <1>5 DEF ClaimBond
<1> QED
  BY <1>3, <1>6 DEF ClaimBond, DisputeWindowFloor, Disputed

LEMMA PublicStepOK ==
  ASSUME DisputeStateOK, AdLedgerTypeOK, DisputeManagerPublicNext
  PROVE  DisputeStateOK'
BY ResolveDisputeOK, ClaimBondOK DEF DisputeManagerPublicNext

-----------------------------------------------------------------------------
(* What no step but a filing or a settlement does to the records *)

\* The same disputes are open, by the same filers, for the same windows; only
\* the answer and the ruling may have come in.
SameRecords ==
  \A m \in Modules, o \in Orders :
    /\ Disputed(m, o)' <=> Disputed(m, o)
    /\ Disputed(m, o) =>
         /\ dispute'[m][o].escrow = dispute[m][o].escrow
         /\ dispute'[m][o].initiator = dispute[m][o].initiator
         /\ dispute'[m][o].order_deadline = dispute[m][o].order_deadline
         /\ dispute'[m][o].buffer = dispute[m][o].buffer

LEMMA SameRecordsUpdate ==
  ASSUME DisputeManagerTypeOK, NEW m \in Modules, NEW o \in Orders,
         NEW d \in DisputeRecord, Disputed(m, o),
         d.escrow = dispute[m][o].escrow, d.initiator = dispute[m][o].initiator,
         d.order_deadline = dispute[m][o].order_deadline,
         d.buffer = dispute[m][o].buffer,
         dispute' = [dispute EXCEPT ![m][o] = d]
  PROVE  SameRecords
BY DisputeManagerAssumption DEF SameRecords, Disputed, DisputeManagerTypeOK

LEMMA AdminKeepsRecords ==
  ASSUME DisputeManagerAdminNext
  PROVE  SameRecords
BY DEF DisputeManagerAdminNext, SetEscrow, SetDisputeParams, SetBondConfig,
       SetFeePool, SameRecords, Disputed

LEMMA ResponseKeepsRecords ==
  ASSUME DisputeManagerTypeOK, NEW m \in Modules, NEW e \in Escrows,
         NEW o \in Orders, NEW responder \in Parties,
         RecordResponse(m, e, o, responder)
  PROVE  SameRecords
<1>1. dispute[m][o] \in DisputeRecord
  BY DEF RecordResponse, Disputed, DisputeManagerTypeOK
<1>2. PICK d : d = [dispute[m][o] EXCEPT !.responded = TRUE]
  OBVIOUS
<1>3. /\ d \in DisputeRecord
      /\ d.escrow = dispute[m][o].escrow /\ d.initiator = dispute[m][o].initiator
      /\ d.order_deadline = dispute[m][o].order_deadline
      /\ d.buffer = dispute[m][o].buffer
  BY <1>1, <1>2 DEF DisputeRecord
<1>4. dispute' = [dispute EXCEPT ![m][o] = d]
  BY <1>2 DEF RecordResponse
<1> QED
  BY <1>3, <1>4, SameRecordsUpdate DEF RecordResponse

LEMMA PublicKeepsRecords ==
  ASSUME DisputeManagerTypeOK, AdLedgerTypeOK, DisputeManagerPublicNext
  PROVE  SameRecords
<1>1. ASSUME NEW m \in Modules, NEW o \in Orders, NEW r \in Outcome,
             ResolveDispute(m, o, r)
      PROVE  SameRecords
  <2>1. dispute[m][o] \in DisputeRecord /\ r \in Ruling
    BY <1>1 DEF ResolveDispute, Disputed, DisputeManagerTypeOK, Rulable, Ruling
  <2>2. dispute' = [dispute EXCEPT ![m][o] = Ruled(dispute[m][o], r)]
    BY <1>1 DEF ResolveDispute
  <2> QED
    BY <1>1, <2>1, <2>2, RuledRecord, SameRecordsUpdate DEF ResolveDispute
<1>2. ASSUME NEW m \in Modules, NEW p \in Parties, NEW t \in Tokens,
             ClaimBond(m, p, t)
      PROVE  SameRecords
  BY <1>2 DEF ClaimBond, SameRecords, Disputed
<1> QED
  BY <1>1, <1>2 DEF DisputeManagerPublicNext

-----------------------------------------------------------------------------
(* The module on its own *)

LEMMA EscrowCallOK ==
  ASSUME DisputeStateOK, AdLedgerTypeOK,
         NEW m \in Modules, NEW e \in Escrows, NEW o \in Orders,
         EscrowCall(m, e, o)
  PROVE  DisputeStateOK'
<1>1. ASSUME NEW p \in Parties, NEW v \in 1..Len(Timings),
             OpenDispute(m, e, o, p, Deadline[o], Timings[v].buffer, Amount[o])
      PROVE  DisputeStateOK'
  <2>1. Timings[v] \in RouteTiming
    BY CoreAssumption
  <2>2. Timings[v].buffer \in Nat /\ Deadline[o] \in Nat /\ Amount[o] \in Nat
    BY <2>1, CoreAssumption DEF RouteTiming
  <2> QED
    BY <1>1, <2>2, OpenDisputeOK
<1>2. ASSUME NEW p \in Parties, RecordResponse(m, e, o, p)
      PROVE  DisputeStateOK'
  BY <1>2, RecordResponseOK
<1>3. ASSUME NEW r \in Outcome, NEW b \in BOOLEAN, NEW f \in BOOLEAN,
             SettleBond(m, e, o, r, b, f)
      PROVE  DisputeStateOK'
  BY <1>3, SettleBondOK
<1> QED
  BY <1>1, <1>2, <1>3 DEF EscrowCall

LEMMA DisputeInvInit ==
  ASSUME AdLedgerInit, DisputeManagerInit
  PROVE  DisputeInv
<1>1. AdLedgerTypeOK
  BY DEF AdLedgerInit, AdLedgerTypeOK
<1>2. DisputeManagerTypeOK
  BY DisputeManagerAssumption DEF DisputeManagerInit, DisputeManagerTypeOK
<1>3. DisputeWindowFloor
  BY DEF DisputeManagerInit, DisputeWindowFloor, Disputed
<1> QED
  BY <1>1, <1>2, <1>3 DEF DisputeInv

LEMMA DisputeInvStep ==
  ASSUME DisputeInv, [DisputeManagerNext]_<<adNow, dmVars>>
  PROVE  DisputeInv'
<1> USE DEF DisputeInv
<1>0. DisputeStateOK
  BY DEF DisputeStateOK
<1>1. CASE UNCHANGED adNow /\ DisputeManagerAdminNext
  BY <1>0, <1>1, AdminStepOK DEF AdLedgerTypeOK, DisputeStateOK
<1>2. CASE UNCHANGED adNow /\ DisputeManagerPublicNext
  BY <1>0, <1>2, PublicStepOK DEF AdLedgerTypeOK, DisputeStateOK
<1>3. CASE /\ UNCHANGED adNow
           /\ \E m \in Modules, e \in Escrows, o \in Orders : EscrowCall(m, e, o)
  BY <1>0, <1>3, EscrowCallOK DEF AdLedgerTypeOK, DisputeStateOK
<1>4. CASE AdTick /\ UNCHANGED dmVars
  BY <1>4 DEF AdTick, AdLedgerTypeOK, dmVars, DisputeManagerTypeOK,
              DisputeWindowFloor, Disputed
<1>5. CASE UNCHANGED <<adNow, dmVars>>
  BY <1>5 DEF AdLedgerTypeOK, dmVars, DisputeManagerTypeOK, DisputeWindowFloor,
              Disputed
<1> QED
  BY <1>1, <1>2, <1>3, <1>4, <1>5 DEF DisputeManagerNext

\* Every variable of the module holds a value of its type, and no ruling is
\* anything but one an arbiter may give, whatever escrow calls it.
THEOREM DisputeManagerTypeCorrect == DisputeManagerSpec => []DisputeManagerTypeOK
<1>1. DisputeManagerSpec => []DisputeInv
  BY DisputeInvInit, DisputeInvStep, PTL DEF DisputeManagerSpec, ModuleInit
<1> QED
  BY <1>1, PTL DEF DisputeInv

\* A dispute never closes before the order's own presentation window does:
\* open_dispute and resolve_dispute agree on that floor, for every deadline,
\* buffer, challenge period and moment of filing or ruling.
THEOREM DisputeWindowHolds == DisputeManagerSpec => []DisputeWindowFloor
<1>1. DisputeManagerSpec => []DisputeInv
  BY DisputeInvInit, DisputeInvStep, PTL DEF DisputeManagerSpec, ModuleInit
<1> QED
  BY <1>1, PTL DEF DisputeInv

-----------------------------------------------------------------------------
(* The bonds.  A step changes at most one dispute and one party's credit, so *)
(* each sum changes by one term.                                             *)

LEMMA BondsTyped ==
  ASSUME DisputeManagerTypeOK, NEW m \in Modules, NEW t \in Tokens
  PROVE  /\ \A o \in Orders : BondIn(m, t, o) \in Nat
         /\ AmountsOn(Orders, OpenBonds(m, t)) /\ AmountsOn(Parties, OwedBonds(m, t))
         /\ SumOver(Orders, OpenBonds(m, t)) \in Nat
         /\ SumOver(Parties, OwedBonds(m, t)) \in Nat
<1>1. ASSUME NEW o \in Orders PROVE BondIn(m, t, o) \in Nat
  <2>1. Disputed(m, o) => dispute[m][o] \in DisputeRecord
    BY DEF Disputed, DisputeManagerTypeOK
  <2>2. QED BY <2>1 DEF BondIn, DisputeRecord
<1>2. AmountsOn(Orders, OpenBonds(m, t))
  BY <1>1 DEF AmountsOn, OpenBonds
<1>3. AmountsOn(Parties, OwedBonds(m, t))
  BY DEF AmountsOn, OwedBonds, DisputeManagerTypeOK
<1>4. QED BY <1>1, <1>2, <1>3, SumType, FiniteOrders, FiniteParties

LEMMA OpenBondsSame ==
  ASSUME NEW m \in Modules, NEW t \in Tokens,
         \A o \in Orders : BondIn(m, t, o)' = BondIn(m, t, o)
  PROVE  SumOver(Orders, OpenBonds(m, t))' = SumOver(Orders, OpenBonds(m, t))
<1>1. OpenBonds(m, t)' = OpenBonds(m, t)
  BY DEF OpenBonds
<1>2. QED BY <1>1

LEMMA OpenBondsChange ==
  ASSUME DisputeManagerTypeOK, DisputeManagerTypeOK', NEW m \in Modules,
         NEW t \in Tokens, NEW o \in Orders,
         \A q \in Orders \ {o} : BondIn(m, t, q)' = BondIn(m, t, q)
  PROVE  SumOver(Orders, OpenBonds(m, t))'
           = SumOver(Orders, OpenBonds(m, t)) - BondIn(m, t, o) + BondIn(m, t, o)'
<1>1. PICK f : f = OpenBonds(m, t)
  OBVIOUS
<1>2. PICK g : g = OpenBonds(m, t)'
  OBVIOUS
<1>3. AmountsOn(Orders, f)
  BY <1>1, BondsTyped
<1>4. BondIn(m, t, o)' \in Nat
  <2>1. Disputed(m, o)' => dispute'[m][o] \in DisputeRecord
    BY DEF Disputed, DisputeManagerTypeOK
  <2>2. QED BY <2>1 DEF BondIn, DisputeRecord
<1>5. f[o] = BondIn(m, t, o) /\ g[o] = BondIn(m, t, o)'
  BY <1>1, <1>2 DEF OpenBonds
<1>6. \A q \in Orders \ {o} : g[q] = f[q]
  BY <1>1, <1>2 DEF OpenBonds
<1>7. SumOver(Orders, g) = SumOver(Orders, f) - f[o] + g[o]
  BY <1>3, <1>4, <1>5, <1>6, FiniteOrders, SumChange
<1>8. QED BY <1>1, <1>2, <1>5, <1>7

LEMMA OwedBondsChange ==
  ASSUME DisputeManagerTypeOK, DisputeManagerTypeOK', NEW m \in Modules,
         NEW t \in Tokens, NEW p \in Parties,
         \A q \in Parties \ {p} : bondCredit'[m][q][t] = bondCredit[m][q][t]
  PROVE  SumOver(Parties, OwedBonds(m, t))'
           = SumOver(Parties, OwedBonds(m, t)) - bondCredit[m][p][t] + bondCredit'[m][p][t]
<1>1. PICK f : f = OwedBonds(m, t)
  OBVIOUS
<1>2. PICK g : g = OwedBonds(m, t)'
  OBVIOUS
<1>3. AmountsOn(Parties, f)
  BY <1>1, BondsTyped
<1>4. f[p] = bondCredit[m][p][t] /\ g[p] = bondCredit'[m][p][t]
      /\ bondCredit'[m][p][t] \in Nat
  BY <1>1, <1>2 DEF OwedBonds, DisputeManagerTypeOK
<1>5. \A q \in Parties \ {p} : g[q] = f[q]
  BY <1>1, <1>2 DEF OwedBonds
<1>6. SumOver(Parties, g) = SumOver(Parties, f) - f[p] + g[p]
  BY <1>3, <1>4, <1>5, FiniteParties, SumChange
<1>7. QED BY <1>1, <1>2, <1>4, <1>6

LEMMA OwedBondsSame ==
  ASSUME NEW m \in Modules, NEW t \in Tokens,
         \A p \in Parties : bondCredit'[m][p][t] = bondCredit[m][p][t]
  PROVE  SumOver(Parties, OwedBonds(m, t))' = SumOver(Parties, OwedBonds(m, t))
<1>1. OwedBonds(m, t)' = OwedBonds(m, t)
  BY DEF OwedBonds
<1>2. QED BY <1>1

\* The record may change, the bond in it not: nothing moves.
LEMMA BondsStay ==
  ASSUME BondsCovered, UNCHANGED <<bondHeld, bondCredit>>,
         \A m \in Modules, t \in Tokens, o \in Orders : BondIn(m, t, o)' = BondIn(m, t, o)
  PROVE  BondsCovered'
<1>1. ASSUME NEW m \in Modules, NEW t \in Tokens
      PROVE  /\ SumOver(Orders, OpenBonds(m, t))' = SumOver(Orders, OpenBonds(m, t))
             /\ SumOver(Parties, OwedBonds(m, t))' = SumOver(Parties, OwedBonds(m, t))
  BY OpenBondsSame, OwedBondsSame
<1>2. QED BY <1>1 DEF BondsCovered

\* One record rewritten under the same bond.
LEMMA SameBondStays ==
  ASSUME DisputeManagerTypeOK, BondsCovered, UNCHANGED <<bondHeld, bondCredit>>,
         NEW m \in Modules, NEW o \in Orders, Disputed(m, o), NEW d \in DisputeRecord,
         d.bond = dispute[m][o].bond, d.bond_token = dispute[m][o].bond_token,
         dispute' = [dispute EXCEPT ![m][o] = d]
  PROVE  BondsCovered'
<1>1. dispute'[m][o] = d /\ d # Nil
  BY DisputeManagerAssumption DEF DisputeManagerTypeOK
<1>2. \A n \in Modules, q \in Orders : n # m \/ q # o => dispute'[n][q] = dispute[n][q]
  BY DEF DisputeManagerTypeOK
<1>3. ASSUME NEW n \in Modules, NEW t \in Tokens, NEW q \in Orders
      PROVE  BondIn(n, t, q)' = BondIn(n, t, q)
  <2>1. CASE n = m /\ q = o
    BY <1>1, <2>1 DEF BondIn, Disputed
  <2>2. CASE n # m \/ q # o
    BY <1>2, <2>2 DEF BondIn, Disputed
  <2>3. QED BY <2>1, <2>2
<1>4. QED BY <1>3, BondsStay

LEMMA OpenDisputeBonds ==
  ASSUME DisputeStateOK, DisputeManagerTypeOK', AdLedgerTypeOK, BondsCovered,
         NEW m \in Modules, NEW e \in Escrows, NEW o \in Orders,
         NEW filer \in Parties, NEW deadline \in Nat, NEW buffer \in Nat,
         NEW amount \in Nat,
         OpenDispute(m, e, o, filer, deadline, buffer, amount)
  PROVE  BondsCovered'
<1> USE DEF DisputeStateOK
<1>1. PICK b \in [token : Tokens, bond : Nat] : b = BondOf(m, amount)
  BY BondOfType DEF OpenDispute
<1>2. bondHeld' = [bondHeld EXCEPT ![m] = [bondHeld[m] EXCEPT
                     ![b.token] = bondHeld[m][b.token] + b.bond]]
      /\ UNCHANGED bondCredit
  BY <1>1 DEF OpenDispute
<1>3. b.token \in Tokens /\ b.bond \in Nat
  BY <1>1
<1>4. PICK d : /\ dispute' = [dispute EXCEPT ![m][o] = d]
               /\ d.bond = b.bond /\ d.bond_token = b.token
  <2>1. PICK d : d =
          [initiator |-> filer, bond |-> b.bond, bond_token |-> b.token,
           challenge_deadline |->
             Later(adNow + dmParams[m].challenge_period, deadline + buffer),
           responded |-> FALSE, ruling |-> "None", escrow |-> e,
           order_deadline |-> deadline, buffer |-> buffer]
    OBVIOUS
  <2>2. dispute' = [dispute EXCEPT ![m][o] = d]
    BY <1>1, <2>1 DEF OpenDispute
  <2>3. d.bond = b.bond /\ d.bond_token = b.token
    BY <2>1
  <2>4. QED BY <2>2, <2>3
<1>5. dispute[m][o] = Nil /\ dispute'[m][o] = d
      /\ \A n \in Modules, q \in Orders : n # m \/ q # o => dispute'[n][q] = dispute[n][q]
  BY <1>4 DEF OpenDispute, Disputed, DisputeManagerTypeOK
<1>6. d # Nil
  BY OpenDisputeOK, <1>5, DisputeManagerAssumption DEF DisputeManagerTypeOK
<1>7. ASSUME NEW n \in Modules, NEW t \in Tokens
      PROVE  bondHeld'[n][t] = SumOver(Orders, OpenBonds(n, t))'
                                + SumOver(Parties, OwedBonds(n, t))'
  <2>1. bondHeld[n][t] = SumOver(Orders, OpenBonds(n, t)) + SumOver(Parties, OwedBonds(n, t))
    BY DEF BondsCovered
  <2>2. SumOver(Parties, OwedBonds(n, t))' = SumOver(Parties, OwedBonds(n, t))
    BY <1>2, OwedBondsSame
  <2>3. SumOver(Orders, OpenBonds(n, t)) \in Nat /\ SumOver(Parties, OwedBonds(n, t)) \in Nat
    BY BondsTyped
  <2>4. CASE n = m /\ t = b.token
    <3>1. BondIn(m, t, o) = 0 /\ BondIn(m, t, o)' = b.bond
      BY <1>4, <1>5, <1>6, <2>4 DEF BondIn, Disputed
    <3>2. \A q \in Orders \ {o} : BondIn(m, t, q)' = BondIn(m, t, q)
      BY <1>5 DEF BondIn, Disputed
    <3>3. SumOver(Orders, OpenBonds(m, t))'
            = SumOver(Orders, OpenBonds(m, t)) - BondIn(m, t, o) + BondIn(m, t, o)'
      BY <3>2, OpenBondsChange
    <3>4. bondHeld'[m][t] = bondHeld[m][t] + b.bond
      BY <1>2, <1>3, <2>4 DEF DisputeManagerTypeOK
    <3>5. QED BY <1>3, <2>1, <2>2, <2>3, <2>4, <3>1, <3>3, <3>4
  <2>5. CASE n # m \/ t # b.token
    <3>1. \A q \in Orders : BondIn(n, t, q)' = BondIn(n, t, q)
      BY <1>4, <1>5, <1>6, <2>5 DEF BondIn, Disputed
    <3>2. bondHeld'[n][t] = bondHeld[n][t]
      BY <1>2, <1>3, <2>5 DEF DisputeManagerTypeOK
    <3>3. QED BY <2>1, <2>2, <3>1, <3>2, OpenBondsSame
  <2>6. QED BY <2>4, <2>5
<1>8. QED BY <1>7 DEF BondsCovered

LEMMA RecordResponseBonds ==
  ASSUME DisputeStateOK, BondsCovered, NEW m \in Modules, NEW e \in Escrows,
         NEW o \in Orders, NEW responder \in Parties, RecordResponse(m, e, o, responder)
  PROVE  BondsCovered'
<1>1. Disputed(m, o) /\ dispute[m][o] \in DisputeRecord
  BY DEF RecordResponse, Disputed, DisputeStateOK, DisputeManagerTypeOK
<1>2. PICK d : d = [dispute[m][o] EXCEPT !.responded = TRUE]
  OBVIOUS
<1>3. d \in DisputeRecord /\ d.bond = dispute[m][o].bond
      /\ d.bond_token = dispute[m][o].bond_token
  BY <1>1, <1>2 DEF DisputeRecord
<1>4. dispute' = [dispute EXCEPT ![m][o] = d] /\ UNCHANGED <<bondHeld, bondCredit>>
  BY <1>2 DEF RecordResponse
<1>5. QED BY <1>1, <1>3, <1>4, SameBondStays DEF DisputeStateOK

LEMMA ResolveDisputeBonds ==
  ASSUME DisputeStateOK, AdLedgerTypeOK, BondsCovered, NEW m \in Modules,
         NEW o \in Orders, NEW outcome \in Outcome, ResolveDispute(m, o, outcome)
  PROVE  BondsCovered'
<1>1. Disputed(m, o) /\ dispute[m][o] \in DisputeRecord /\ outcome \in Ruling
  BY DEF ResolveDispute, Disputed, DisputeStateOK, DisputeManagerTypeOK, Rulable, Ruling
<1>2. PICK d : d = Ruled(dispute[m][o], outcome)
  OBVIOUS
<1>3. d \in DisputeRecord
  BY <1>1, <1>2, RuledRecord
<1>4. d.bond = dispute[m][o].bond /\ d.bond_token = dispute[m][o].bond_token
  <2>1. PICK x \in DisputeRecord : x = dispute[m][o]
    BY <1>1
  <2>2. PICK a : a = [x EXCEPT !.ruling = outcome]
    OBVIOUS
  <2>3. PICK c : c = [a EXCEPT !.challenge_deadline = RuledDeadline(x)]
    OBVIOUS
  <2>4. a.bond = x.bond /\ a.bond_token = x.bond_token /\ DOMAIN a = DOMAIN x
    BY <2>1, <2>2 DEF DisputeRecord
  <2>5. c.bond = x.bond /\ c.bond_token = x.bond_token
    BY <2>1, <2>3, <2>4 DEF DisputeRecord
  <2>6. d = c
    BY <1>2, <2>1, <2>2, <2>3 DEF Ruled
  <2>7. QED BY <2>1, <2>5, <2>6
<1>5. dispute' = [dispute EXCEPT ![m][o] = d] /\ UNCHANGED <<bondHeld, bondCredit>>
  BY <1>2 DEF ResolveDispute
<1>6. QED BY <1>1, <1>3, <1>4, <1>5, SameBondStays DEF DisputeStateOK

\* A payout of a bond moves it out of the balance, or owes it to the payee; of
\* other tokens and other deployments it moves nothing.
LEMMA PayBondSums ==
  ASSUME DisputeManagerTypeOK, DisputeManagerTypeOK', NEW m \in Modules,
         NEW to \in Parties, NEW token \in Tokens, NEW amount \in Nat,
         PayBond(m, to, token, amount), NEW n \in Modules, NEW t \in Tokens
  PROVE  bondHeld'[n][t] - SumOver(Parties, OwedBonds(n, t))'
           = bondHeld[n][t] - SumOver(Parties, OwedBonds(n, t))
             - (IF n = m /\ t = token THEN amount ELSE 0)
<1>1. bondHeld[n][t] \in Int /\ bondHeld'[n][t] \in Int
      /\ SumOver(Parties, OwedBonds(n, t)) \in Nat
  BY BondsTyped DEF DisputeManagerTypeOK
<1>2. CASE /\ bondHeld' = [bondHeld EXCEPT ![m] = [bondHeld[m] EXCEPT
                             ![token] = bondHeld[m][token] - amount]]
           /\ UNCHANGED bondCredit
  <2>1. SumOver(Parties, OwedBonds(n, t))' = SumOver(Parties, OwedBonds(n, t))
    BY <1>2, OwedBondsSame
  <2>2. bondHeld'[n][t] = bondHeld[n][t] - (IF n = m /\ t = token THEN amount ELSE 0)
    BY <1>2 DEF DisputeManagerTypeOK
  <2>3. QED BY <1>1, <2>1, <2>2
<1>3. CASE /\ bondCredit' = [bondCredit EXCEPT ![m] = [bondCredit[m] EXCEPT
                               ![to] = [bondCredit[m][to] EXCEPT
                                 ![token] = bondCredit[m][to][token] + amount]]]
           /\ UNCHANGED bondHeld
  <2>1. /\ \A q \in Parties \ {to} : bondCredit'[n][q][t] = bondCredit[n][q][t]
        /\ bondCredit'[n][to][t]
             = bondCredit[n][to][t] + (IF n = m /\ t = token THEN amount ELSE 0)
    BY <1>3 DEF DisputeManagerTypeOK
  <2>2. SumOver(Parties, OwedBonds(n, t))'
          = SumOver(Parties, OwedBonds(n, t)) - bondCredit[n][to][t] + bondCredit'[n][to][t]
    BY <2>1, OwedBondsChange
  <2>3. bondCredit[n][to][t] \in Nat
    BY DEF DisputeManagerTypeOK
  <2>4. QED BY <1>1, <1>3, <2>1, <2>2, <2>3
<1>4. QED BY <1>2, <1>3 DEF PayBond

LEMMA SettleBondBonds ==
  ASSUME DisputeStateOK, DisputeManagerTypeOK', BondsCovered, NEW m \in Modules,
         NEW e \in Escrows, NEW o \in Orders, NEW outcome, NEW filerIsBridger,
         NEW returnToFiler,
         SettleBond(m, e, o, outcome, filerIsBridger, returnToFiler)
  PROVE  BondsCovered'
<1> USE DEF DisputeStateOK
<1>1. PICK d \in DisputeRecord : d = dispute[m][o]
  BY DEF SettleBond, Disputed, DisputeManagerTypeOK
<1>2. PICK to \in Parties : PayBond(m, to, d.bond_token, d.bond)
  <2> DEFINE payee ==
        IF BondReturnsToFiler(outcome, filerIsBridger, returnToFiler) \/ feePool[m] = Nil
          THEN d.initiator ELSE feePool[m]
  <2>1. payee \in Parties
    BY DisputeManagerAssumption DEF DisputeRecord, DisputeManagerTypeOK
  <2>2. PayBond(m, payee, d.bond_token, d.bond)
    BY <1>1 DEF SettleBond
  <2> HIDE DEF payee
  <2>3. QED BY <2>1, <2>2
<1>3. d.bond_token \in Tokens /\ d.bond \in Nat
  BY DEF DisputeRecord
<1>4. /\ dispute[m][o] # Nil /\ dispute'[m][o] = Nil
      /\ \A n \in Modules, q \in Orders : n # m \/ q # o => dispute'[n][q] = dispute[n][q]
  BY DEF SettleBond, Disputed, DisputeManagerTypeOK
<1>5. ASSUME NEW n \in Modules, NEW t \in Tokens
      PROVE  bondHeld'[n][t] = SumOver(Orders, OpenBonds(n, t))'
                                + SumOver(Parties, OwedBonds(n, t))'
  <2> DEFINE moved == IF n = m /\ t = d.bond_token THEN d.bond ELSE 0
  <2>1. bondHeld[n][t] = SumOver(Orders, OpenBonds(n, t)) + SumOver(Parties, OwedBonds(n, t))
    BY DEF BondsCovered
  <2>2. /\ SumOver(Orders, OpenBonds(n, t)) \in Nat
        /\ SumOver(Parties, OwedBonds(n, t)) \in Nat
    BY BondsTyped
  <2>3. SumOver(Parties, OwedBonds(n, t))' \in Nat /\ bondHeld'[n][t] \in Int
    <3>1. AmountsOn(Parties, OwedBonds(n, t)')
      BY DEF AmountsOn, OwedBonds, DisputeManagerTypeOK
    <3>2. PICK g : g = OwedBonds(n, t)'
      OBVIOUS
    <3>3. SumOver(Parties, g) \in Nat
      BY <3>1, <3>2, FiniteParties, SumType
    <3>4. QED BY <3>2, <3>3 DEF DisputeManagerTypeOK
  <2>4. bondHeld'[n][t] - SumOver(Parties, OwedBonds(n, t))'
          = bondHeld[n][t] - SumOver(Parties, OwedBonds(n, t)) - moved
    BY <1>2, <1>3, PayBondSums
  <2>5. SumOver(Orders, OpenBonds(n, t))' = SumOver(Orders, OpenBonds(n, t)) - moved
    <3>1. CASE n = m
      <4>1. BondIn(n, t, o)' = 0 /\ BondIn(n, t, o) = moved
        BY <1>1, <1>4, <3>1 DEF BondIn, Disputed
      <4>2. \A q \in Orders \ {o} : BondIn(n, t, q)' = BondIn(n, t, q)
        BY <1>4 DEF BondIn, Disputed
      <4>3. SumOver(Orders, OpenBonds(n, t))'
              = SumOver(Orders, OpenBonds(n, t)) - BondIn(n, t, o) + BondIn(n, t, o)'
        BY <4>2, OpenBondsChange
      <4>4. moved \in Nat
        BY <1>3
      <4> HIDE DEF moved
      <4>5. QED BY <2>2, <4>1, <4>3, <4>4
    <3>2. CASE n # m
      <4>1. \A q \in Orders : BondIn(n, t, q)' = BondIn(n, t, q)
        BY <1>4, <3>2 DEF BondIn, Disputed
      <4>2. QED BY <2>2, <3>2, <4>1, OpenBondsSame
    <3>3. QED BY <3>1, <3>2
  <2>6. moved \in Nat
    BY <1>3
  <2> HIDE DEF moved
  <2>7. QED BY <2>1, <2>2, <2>3, <2>4, <2>5, <2>6
<1>6. QED BY <1>5 DEF BondsCovered

LEMMA ClaimBondBonds ==
  ASSUME DisputeStateOK, DisputeManagerTypeOK', BondsCovered, NEW m \in Modules,
         NEW who \in Parties, NEW token \in Tokens, ClaimBond(m, who, token)
  PROVE  BondsCovered'
<1> USE DEF DisputeStateOK
<1> DEFINE owed == bondCredit[m][who][token]
<1>1. owed \in Nat
  BY DEF DisputeManagerTypeOK
<1>2. /\ bondHeld' = [bondHeld EXCEPT ![m] = [bondHeld[m] EXCEPT
                        ![token] = bondHeld[m][token] - owed]]
      /\ bondCredit' = [bondCredit EXCEPT ![m] = [bondCredit[m] EXCEPT
                          ![who] = [bondCredit[m][who] EXCEPT ![token] = 0]]]
      /\ UNCHANGED dispute
  BY DEF ClaimBond
<1>3. ASSUME NEW n \in Modules, NEW t \in Tokens
      PROVE  bondHeld'[n][t] = SumOver(Orders, OpenBonds(n, t))'
                                + SumOver(Parties, OwedBonds(n, t))'
  <2>1. bondHeld[n][t] = SumOver(Orders, OpenBonds(n, t)) + SumOver(Parties, OwedBonds(n, t))
    BY DEF BondsCovered
  <2>2. SumOver(Orders, OpenBonds(n, t)) \in Nat /\ SumOver(Parties, OwedBonds(n, t)) \in Nat
    BY BondsTyped
  <2>3. SumOver(Orders, OpenBonds(n, t))' = SumOver(Orders, OpenBonds(n, t))
    BY <1>2, OpenBondsSame DEF BondIn, Disputed
  <2>4. /\ \A q \in Parties \ {who} : bondCredit'[n][q][t] = bondCredit[n][q][t]
        /\ bondCredit'[n][who][t] = IF n = m /\ t = token THEN 0 ELSE bondCredit[n][who][t]
        /\ bondCredit[n][who][t] \in Nat
    BY <1>2 DEF DisputeManagerTypeOK
  <2>5. SumOver(Parties, OwedBonds(n, t))'
          = SumOver(Parties, OwedBonds(n, t)) - bondCredit[n][who][t] + bondCredit'[n][who][t]
    BY <2>4, OwedBondsChange
  <2>6. bondHeld'[n][t] = bondHeld[n][t] - (IF n = m /\ t = token THEN owed ELSE 0)
    BY <1>1, <1>2 DEF DisputeManagerTypeOK
  <2>7. QED BY <1>1, <2>1, <2>2, <2>3, <2>4, <2>5, <2>6
<1>4. QED BY <1>3 DEF BondsCovered

\* The admin moves no bond.
LEMMA AdminBonds ==
  ASSUME BondsCovered, DisputeManagerAdminNext
  PROVE  BondsCovered'
<1>1. UNCHANGED <<dispute, bondHeld, bondCredit>>
  BY DEF DisputeManagerAdminNext, SetEscrow, SetDisputeParams, SetBondConfig, SetFeePool
<1>2. QED BY <1>1, BondsStay DEF BondIn, Disputed

LEMMA PublicBonds ==
  ASSUME DisputeStateOK, DisputeManagerTypeOK', AdLedgerTypeOK, BondsCovered,
         DisputeManagerPublicNext
  PROVE  BondsCovered'
BY ResolveDisputeBonds, ClaimBondBonds DEF DisputeManagerPublicNext

LEMMA EscrowCallBonds ==
  ASSUME DisputeStateOK, DisputeManagerTypeOK', AdLedgerTypeOK, BondsCovered,
         NEW m \in Modules, NEW e \in Escrows, NEW o \in Orders, EscrowCall(m, e, o)
  PROVE  BondsCovered'
<1>1. ASSUME NEW p \in Parties, NEW v \in 1..Len(Timings),
             OpenDispute(m, e, o, p, Deadline[o], Timings[v].buffer, Amount[o])
      PROVE  BondsCovered'
  <2>1. Timings[v] \in RouteTiming
    BY CoreAssumption
  <2>2. Timings[v].buffer \in Nat /\ Deadline[o] \in Nat /\ Amount[o] \in Nat
    BY <2>1, CoreAssumption DEF RouteTiming
  <2>3. QED BY <1>1, <2>2, OpenDisputeBonds
<1>2. ASSUME NEW p \in Parties, RecordResponse(m, e, o, p)
      PROVE  BondsCovered'
  BY <1>2, RecordResponseBonds
<1>3. ASSUME NEW r \in Outcome, NEW b \in BOOLEAN, NEW f \in BOOLEAN,
             SettleBond(m, e, o, r, b, f)
      PROVE  BondsCovered'
  BY <1>3, SettleBondBonds
<1>4. QED BY <1>1, <1>2, <1>3 DEF EscrowCall

LEMMA BondsStep ==
  ASSUME DisputeInv, BondsCovered, [DisputeManagerNext]_<<adNow, dmVars>>
  PROVE  BondsCovered'
<1>1. DisputeStateOK /\ AdLedgerTypeOK
  BY DEF DisputeInv, DisputeStateOK
<1>2. DisputeManagerTypeOK'
  BY DisputeInvStep DEF DisputeInv
<1>3. CASE (AdTick /\ UNCHANGED dmVars) \/ UNCHANGED <<adNow, dmVars>>
  BY <1>3, BondsStay DEF dmVars, BondIn, Disputed
<1>4. QED BY <1>1, <1>2, <1>3, AdminBonds, PublicBonds, EscrowCallBonds
          DEF DisputeManagerNext

\* Nothing is owed by functions that are zero everywhere.
LEMMA BondsInit ==
  ASSUME DisputeManagerInit
  PROVE  BondsCovered
<1>1. ASSUME NEW m \in Modules, NEW t \in Tokens
      PROVE  /\ SumOver(Orders, OpenBonds(m, t)) = 0
             /\ SumOver(Parties, OwedBonds(m, t)) = 0
  <2>1. \A o \in Orders : OpenBonds(m, t)[o] = 0
    BY DEF DisputeManagerInit, OpenBonds, BondIn, Disputed
  <2>2. \A p \in Parties : OwedBonds(m, t)[p] = 0
    BY DEF DisputeManagerInit, OwedBonds
  <2>3. QED BY <2>1, <2>2, SumZero, FiniteOrders, FiniteParties
<1>2. QED BY <1>1 DEF BondsCovered, DisputeManagerInit

\* The module holds exactly the bonds of its open disputes and what it owes
\* (open_dispute, settle_bond, pay_or_credit, claim), per deployment and token.
THEOREM BondsAreCovered == DisputeManagerSpec => []BondsCovered
<1>1. DisputeManagerSpec => []DisputeInv
  BY DisputeInvInit, DisputeInvStep, PTL DEF DisputeManagerSpec, ModuleInit
<1>2. DisputeInv /\ BondsCovered /\ [DisputeManagerNext]_<<adNow, dmVars>> => BondsCovered'
  BY BondsStep
<1>3. QED BY <1>1, <1>2, BondsInit, PTL DEF DisputeManagerSpec, ModuleInit
=============================================================================
