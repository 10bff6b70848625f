--------------------------- MODULE DisputeManager ---------------------------
(***************************************************************************)
(* The dispute module of the ad chain: dispute records, the bonds it holds *)
(* for them, and the credits of payees it could not pay.  An escrow files  *)
(* and settles; the arbiter rules; the escrow is never called back.        *)
(*                                                                         *)
(* Several deployments may exist, because an escrow can be re-pointed at a *)
(* new one while disputes are open in the old: every variable is indexed   *)
(* by the deployment.  Only what differs between them is state.            *)
(***************************************************************************)
EXTENDS AdLedger

CONSTANTS
  Modules,          \* deployed dispute modules
  Escrows,          \* contracts that may be allowed to file
  Parties,          \* who can file, answer or be paid a bond
  FeePools,         \* the parties an admin may name as protocol fee pool
  ParamChoices,     \* DisputeParams an admin may write
  BondChoices,      \* BondConfigs an admin may write
  MaxBonds          \* bound: bonds held at once while a module runs on its own

VARIABLES
  dispute,          \* [Modules -> [Orders -> DisputeRecord or Nil]]
  dmEscrows,        \* [Modules -> SUBSET Escrows], the allow-list
  dmParams,         \* [Modules -> DisputeParams or Nil]
  bondConfig,       \* [Modules -> BondConfig or Nil]
  feePool,          \* [Modules -> FeePools or Nil]
  bondHeld,         \* [Modules -> [Tokens -> Int]], its token balances
  bondCredit        \* [Modules -> [Parties -> [Tokens -> Nat]]], claimable

dmVars ==
  <<dispute, dmEscrows, dmParams, bondConfig, feePool, bondHeld, bondCredit>>

\* A bond is in wrapped native, or in the order's own token on a route that has
\* a BondConfig.
Tokens == {"native", "order"}

DisputeParams == [challenge_period : Nat, bond_floor : Nat]

BondConfig == [min_bond : Nat, bond_bps : Nat]

\* What an arbiter may rule; that a trade proceeds is for evidence to show.
Ruling == Outcome \ {"TradeProceeds"}

DisputeRecord ==
  [initiator : Parties, bond : Nat, bond_token : Tokens,
   challenge_deadline : Nat, responded : BOOLEAN, ruling : Ruling,
   escrow : Escrows, order_deadline : Nat, buffer : Nat]

Disputed(m, o) == dispute[m][o] # Nil

\* fees::bps_of and dispute::route_bond
RouteBond(c, amount) ==
  Later(c.min_bond, (amount * c.bond_bps) \div 10000)

\* bond_of: the route's token bond when configured, else the flat native floor.
BondOf(m, amount) ==
  IF bondConfig[m] # Nil
    THEN [token |-> "order", bond |-> RouteBond(bondConfig[m], amount)]
    ELSE [token |-> "native", bond |-> dmParams[m].bond_floor]

\* Mutant: a second credit of the same payee overwrites the first.
PayBondOverwrites(m, to, token, amount) ==
  \/ /\ bondHeld' = [bondHeld EXCEPT ![m][token] = @ - amount]
     /\ UNCHANGED bondCredit
  \/ /\ to \in Unpayable
     /\ bondCredit' = [bondCredit EXCEPT ![m][to][token] = amount]
     /\ UNCHANGED bondHeld

\* pay_or_credit: the transfer is tried, and a payee it fails for is credited.
PayBond(m, to, token, amount) ==
  \/ /\ bondHeld' = [bondHeld EXCEPT ![m][token] = @ - amount]
     /\ UNCHANGED bondCredit
  \/ /\ to \in Unpayable
     /\ bondCredit' = [bondCredit EXCEPT ![m][to][token] = @ + amount]
     /\ UNCHANGED bondHeld

-----------------------------------------------------------------------------
(* Initialization: every module deployed, its parameters not yet written *)

DisputeManagerInit ==
  /\ dispute = [m \in Modules |-> [o \in Orders |-> Nil]]
  /\ dmEscrows = [m \in Modules |-> Escrows]
  /\ dmParams \in [Modules -> ParamChoices \cup {Nil}]
  /\ bondConfig \in [Modules -> BondChoices \cup {Nil}]
  /\ feePool \in [Modules -> FeePools \cup {Nil}]
  /\ bondHeld = [m \in Modules |-> [t \in Tokens |-> 0]]
  /\ bondCredit = [m \in Modules |-> [p \in Parties |-> [t \in Tokens |-> 0]]]

-----------------------------------------------------------------------------
(* The admin *)

\* set_escrow: disallowing stops new filings and nothing else.
SetEscrow(m, e, allowed) ==
  /\ dmEscrows' = [dmEscrows EXCEPT ![m] =
                     IF allowed THEN @ \cup {e} ELSE @ \ {e}]
  /\ UNCHANGED <<dispute, dmParams, bondConfig, feePool, bondHeld, bondCredit>>

\* set_dispute_params
SetDisputeParams(m, p) ==
  /\ p.bond_floor # 0
  /\ dmParams' = [dmParams EXCEPT ![m] = p]
  /\ UNCHANGED <<dispute, dmEscrows, bondConfig, feePool, bondHeld, bondCredit>>

\* set_bond_config: {0, 0} clears the route back to the flat floor.
SetBondConfig(m, c) ==
  /\ c.min_bond = 0 => c.bond_bps = 0
  /\ bondConfig' = [bondConfig EXCEPT ![m] = IF c.min_bond = 0 THEN Nil ELSE c]
  /\ UNCHANGED <<dispute, dmEscrows, dmParams, feePool, bondHeld, bondCredit>>

\* set_protocol_fee_pool: never unset again.
SetFeePool(m, pool) ==
  /\ feePool' = [feePool EXCEPT ![m] = pool]
  /\ UNCHANGED <<dispute, dmEscrows, dmParams, bondConfig, bondHeld, bondCredit>>

-----------------------------------------------------------------------------
(* The escrow's calls *)

\* open_dispute: the bond is pulled from the filer into the module.
OpenDispute(m, e, o, filer, deadline, buffer, amount) ==
  /\ e \in dmEscrows[m]
  /\ ~Disputed(m, o)
  /\ dmParams[m] # Nil
  /\ LET b == BondOf(m, amount) IN
     /\ dispute' = [dispute EXCEPT ![m][o] =
          [initiator |-> filer, bond |-> b.bond, bond_token |-> b.token,
           challenge_deadline |->
             Later(adNow + dmParams[m].challenge_period, deadline + buffer),
           responded |-> FALSE, ruling |-> "None", escrow |-> e,
           order_deadline |-> deadline, buffer |-> buffer]]
     /\ bondHeld' = [bondHeld EXCEPT ![m][b.token] = @ + b.bond]
  /\ UNCHANGED <<dmEscrows, dmParams, bondConfig, feePool, bondCredit>>

\* record_response: one answer, from the other party, before the ruling and
\* before the deadline.
RecordResponse(m, e, o, responder) ==
  /\ Disputed(m, o)
  /\ LET d == dispute[m][o] IN
     /\ d.escrow = e
     /\ d.initiator # responder
     /\ ~d.responded
     /\ d.ruling = "None"
     /\ adNow < d.challenge_deadline
  /\ dispute' = [dispute EXCEPT ![m][o].responded = TRUE]
  /\ UNCHANGED <<dmEscrows, dmParams, bondConfig, feePool, bondHeld, bondCredit>>

\* settle_bond: authenticated against the record's escrow, not the allow-list,
\* so an escrow disallowed meanwhile can still close what it opened.  Without
\* a fee pool a forfeited bond stays with the filer.
SettleBond(m, e, o, outcome, filerIsBridger, returnToFiler) ==
  /\ Disputed(m, o)
  /\ dispute[m][o].escrow = e
  /\ dispute' = [dispute EXCEPT ![m][o] = Nil]
  /\ LET d  == dispute[m][o]
         to == IF \/ BondReturnsToFiler(outcome, filerIsBridger, returnToFiler)
                  \/ feePool[m] = Nil
                 THEN d.initiator ELSE feePool[m]
     IN PayBond(m, to, d.bond_token, d.bond)
  /\ UNCHANGED <<dmEscrows, dmParams, bondConfig, feePool>>

-----------------------------------------------------------------------------
(* The arbiter and the payees *)

\* Mutant: a ruling's window counts from now, whatever the order's deadline.
RuledDeadlineFromNow(d) == adNow + d.buffer

\* The presentation window a ruling opens.
RuledDeadline(d) == Later(adNow, d.order_deadline) + d.buffer

\* Mutant: the arbiter may rule anything but nothing.
RulableButNone(outcome) == outcome # "None"

Rulable(outcome) == outcome \notin {"None", "TradeProceeds"}

Ruled(d, outcome) ==
  [d EXCEPT !.ruling = outcome, !.challenge_deadline = RuledDeadline(d)]

\* resolve_dispute: a ruling opens a presentation window, it pays nothing.  A
\* new ruling may replace one whose window is still open, any number of times,
\* and each counts the window afresh.
ResolveDispute(m, o, outcome) ==
  /\ Rulable(outcome)
  /\ Disputed(m, o)
  /\ LET d == dispute[m][o] IN
     /\ adNow < d.challenge_deadline
     /\ dispute' = [dispute EXCEPT ![m][o] = Ruled(d, outcome)]
  /\ UNCHANGED <<dmEscrows, dmParams, bondConfig, feePool, bondHeld, bondCredit>>

\* claim and claim_token: a failing transfer reverts, so the credit stays.
ClaimBond(m, who, token) ==
  /\ bondCredit[m][who][token] # 0
  /\ bondHeld' = [bondHeld EXCEPT ![m][token] = @ - bondCredit[m][who][token]]
  /\ bondCredit' = [bondCredit EXCEPT ![m][who][token] = 0]
  /\ UNCHANGED <<dispute, dmEscrows, dmParams, bondConfig, feePool>>

-----------------------------------------------------------------------------
(* What the escrows read *)

\* outcome_of's second component: the deadline, in the finalize's comparison.
WindowOver(m, o) == adNow >= dispute[m][o].challenge_deadline

\* dispute_outcome: an unruled dispute falls back to the mutual refund.
SettledOutcome(m, o) ==
  IF dispute[m][o].ruling = "None" THEN "MutualRefund" ELSE dispute[m][o].ruling

-----------------------------------------------------------------------------
(* The module under any escrow allowed by its interface *)

DisputeManagerAdminNext ==
  \E m \in Modules :
    \/ \E e \in Escrows, b \in BOOLEAN : SetEscrow(m, e, b)
    \/ \E p \in ParamChoices : SetDisputeParams(m, p)
    \/ \E c \in BondChoices : SetBondConfig(m, c)
    \/ \E pool \in FeePools : SetFeePool(m, pool)

DisputeManagerPublicNext ==
  \E m \in Modules :
    \/ \E o \in Orders, r \in Outcome : ResolveDispute(m, o, r)
    \/ \E p \in Parties, t \in Tokens : ClaimBond(m, p, t)

EscrowCall(m, e, o) ==
  \/ \E p \in Parties, v \in 1..Len(Timings) :
       /\ bondHeld[m]["native"] + bondHeld[m]["order"] < MaxBonds
       /\ OpenDispute(m, e, o, p, Deadline[o], Timings[v].buffer, Amount[o])
  \/ \E p \in Parties : RecordResponse(m, e, o, p)
  \/ \E r \in Outcome \ {"None"}, b, f \in BOOLEAN : SettleBond(m, e, o, r, b, f)

DisputeManagerNext ==
  \/ UNCHANGED adNow /\ DisputeManagerAdminNext
  \/ UNCHANGED adNow /\ DisputeManagerPublicNext
  \/ /\ UNCHANGED adNow
     /\ \E m \in Modules, e \in Escrows, o \in Orders : EscrowCall(m, e, o)
  \/ AdTick /\ UNCHANGED dmVars

ModuleInit == AdLedgerInit /\ DisputeManagerInit

DisputeManagerSpec == ModuleInit /\ [][DisputeManagerNext]_<<adNow, dmVars>>

-----------------------------------------------------------------------------

DisputeManagerTypeOK ==
  /\ dispute \in [Modules -> [Orders -> DisputeRecord \cup {Nil}]]
  /\ dmEscrows \in [Modules -> SUBSET Escrows]
  /\ dmParams \in [Modules -> DisputeParams \cup {Nil}]
  /\ bondConfig \in [Modules -> BondConfig \cup {Nil}]
  /\ feePool \in [Modules -> FeePools \cup {Nil}]
  /\ bondHeld \in [Modules -> [Tokens -> Int]]
  /\ bondCredit \in [Modules -> [Parties -> [Tokens -> Nat]]]

\* A dispute never closes before the order's own presentation window does, filed
\* or ruled on however late: at least a buffer past the deadline stays for
\* whoever holds the evidence.
DisputeWindowFloor ==
  \A m \in Modules, o \in Orders : Disputed(m, o) =>
    dispute[m][o].challenge_deadline >=
      dispute[m][o].order_deadline + dispute[m][o].buffer

\* The bond an order's dispute holds in a token, and what a party is owed in it.
BondIn(m, t, o) ==
  IF Disputed(m, o) /\ dispute[m][o].bond_token = t THEN dispute[m][o].bond ELSE 0
OpenBonds(m, t) == [o \in Orders |-> BondIn(m, t, o)]
OwedBonds(m, t) == [p \in Parties |-> bondCredit[m][p][t]]

\* The module's tokens are exactly the bonds of its open disputes and the
\* credits it owes: however configuration, rulings and failed transfers fall
\* between filing and settling, each bond is returned or forfeited once.
BondsCovered ==
  \A m \in Modules, t \in Tokens :
    bondHeld[m][t] = SumOver(Orders, OpenBonds(m, t)) + SumOver(Parties, OwedBonds(m, t))

ASSUME DisputeManagerAssumption ==
  /\ FeePools \subseteq Parties
  /\ ParamChoices \subseteq DisputeParams
  /\ BondChoices \subseteq BondConfig
  /\ MaxBonds \in Nat
  /\ Nil \notin DisputeRecord /\ Nil \notin DisputeParams
  /\ Nil \notin BondConfig /\ Nil \notin FeePools

\* An address is 32 bytes.
ASSUME FiniteParties == IsFiniteSet(Parties)
=============================================================================
