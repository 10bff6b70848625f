# ProofBridge: TLA+ models, checks and proofs

ProofBridge swaps tokens between two chains without a bridge operator. A maker
locks tokens on the *ad chain*, a bridger deposits tokens on the *order chain*,
and each escrow pays the other side's party, either on a pair of roots both
parties co-signed or on a proof that the other escrow already did. This project
models the Stellar contracts (`src/stellar/`), checks them with TLC on small
instances and proves the main safety results with TLAPS for every instance. The
Solidity contracts (`src/evm/`) mirror the Rust ones function by function.

## 1. The system

| Part | State | Operations | Hard because |
|---|---|---|---|
| AdManager (`contracts/ad-manager`) | ads (balance, locked), orders and what they were locked under, claims, dispute modules, halts, nullifiers, positions in flight, credits | ads: create, fund, withdraw, close, signer, halt; orders: lock, unlock, claim and finalize a cancel, dispute, respond, finalize, re-pin, present or record SETTLED, cancel what was never locked | the only leg with clocks; everything it is wired to can change under a live order; a maker can refuse a payout it promised |
| OrderPortal (`contracts/order-portal`) | deposits, nullifiers, credits | create, unlock, refund by CANCEL, pay by SETTLED or FORFEIT, record SETTLED | no clock of its own: it follows whatever leaves it is shown |
| Escrow core (`lib/proofbridge-core`) | versioned route timings, statuses | what the two escrows share | |
| DisputeManager | one record per disputed order, bonds, credits | file, respond, rule, settle, claim | called by an escrow that may have moved on to another module |
| BLSKeyRegistry | key slots with expiry, maker approvals, re-pin consents; per account a nonce, per maker a nonce, a generation; keys ever used | register (by signature or by leaf), retire, revoke, cancel, approve, re-pin, prune, pause, wire a guard | keys die under live orders; a dead key's history must outlive the orders it signs for; owners act by signed messages anyone may submit, late, twice or elsewhere |
| Registrar | the last epoch of each account | register a leaf | a second way into the same slots |
| RootAnchor | notaries and threshold, per root its approvals, ledger sequence and generation, the delay before a root counts | approve, revoke, rotate the notaries, reset the sequence, set the delay, pause | approvals straddle rotations and revocations; roots arrive late, in any order |
| CounterpartyVerifier, ZK verifier | none of interest | accept a co-signed pair, a proof | cryptography |
| MerkleManager | a Merkle mountain range, the root after each append, the appenders | append, prove, set appenders | peaks and bagging change at every power of two; an old leaf must prove against a new root |
| Timelock (`proofbridge-core/timelock.rs`) | proposals with their eta and epoch, brakes, the standing values | activate, propose, cancel, consume, brake; hand-over of the admin | a proposal may be stale, late, replaced, or tightened around while it waits |
| Agent account | pinned targets, agents' policies, guarded ads, announced changes, refilling allowances | the owner's calls into the escrows, an agent's locks, arm, loosen, disarm, announce, upgrade, sweep | a stolen owner key must wait; clocks of pending changes move when a delay or window does; storage rows get archived |

The parts interact by calls within a chain (escrow to dispute module, escrow to
registry, registry back to the escrow's position guard), and between chains only
through *leaves*. Each chain appends a leaf per event (`ORDER`, `AD`, `CANCEL`,
`SETTLED`, `FORFEIT`) to its tree; once a root holding it is anchored on the
other chain and the delay has passed, anyone can present it there.

What makes each part correct:

- **AdManager**: one verdict per order, told to the order chain by one leaf; no
  lock handed back before the window it was locked under has passed; a party
  that was refused the co-signed payout gets the evidence grace; what is locked
  is what live orders hold; every recipient is paid or credited exactly once.
- **OrderPortal**: each deposit goes exactly once, and the vault covers the rest.
- **DisputeManager**: no dispute closes before the order's own window; no bond is
  stranded or paid out of somebody else's.
- **BLSKeyRegistry**: a slot a live order pinned is still there when asked about.
- **Signed key messages**: a signature applies once at each registry it names, and
  never after the owner withdrew what it asks for; a key that died stays dead.
- **RootAnchor**: a root that counts has a quorum of one set of notaries behind it;
  what loosens the anchor was announced for the whole delay.
- **MerkleManager**: each stored root commits to exactly the leaves before it, and
  each leaf proves against each later root and nowhere else.
- **Agent account**: nothing widens what a key can do, or takes liquidity out, unless
  it waited the delay in force or came off an allowance; the allowance gives
  exactly what it says however it is sliced.
- **The two together**: nobody is paid on both legs, unless the other side
  forfeited, and everything that was escrowed comes out again once the arbiter
  stops ruling.

## 2. Modules and the code

| Module | Models | State and actions |
|---|---|---|
| `ProofBridgeCore` | `types.rs`, `timing.rs`, `dispute.rs` | statuses, leaf domains, timings, outcomes; no variables |
| `AdLedger` | the ad chain's clock | `adNow` |
| `DisputeManager` | `dispute-manager/src/lib.rs` | `dispute[m][o]`, `bondHeld`, `bondCredit`, the routes' parameters, for several modules `m`; one action per entry point. `DisputeManagerSpec` runs it under any escrow |
| `BLSKeyRegistry` | `bls-key-registry/src/lib.rs` | `slot[r][s][i]`, `approved`, `repin`, for several registries `r`; one action per entry point, the prune inside those that prune |
| `AdManager` | `ad-manager/src/lib.rs` with `escrow_ops.rs` | the contract's storage, variable by variable; one action per entry point, each with the calls it makes into the module and the registry. `AdSpec` is the ad chain against an order chain that may show it any leaf |
| `Timelock` | `proofbridge-core/src/timelock.rs` | `now`, `active`, `epoch`, `proposals`, `brakes`, the hand-over; the gate as an operator the setters use |
| `RootAnchor` | `root-anchor/src/lib.rs` | the contract's storage; one action per entry point, each setter behind the timelock's gate. `RootAnchorSpec` runs it under any notaries and admin |
| `MMR` | `merkle-manager/src/mmr.rs` | the range as pure operators: positions, peaks, the node cache, bagging, proofs and their verification, and the reference definition they are held against |
| `MerkleAppenders` | `merkle-manager/src/lib.rs`, who may append | `managers`, `escrows`; one action per entry point of the admin, the setters behind the timelock's gate. `MerkleAppendersSpec` runs it under any admin |
| `MerkleManager` | `merkle-manager/src/lib.rs`, appending | width, roots, node cache; `append_order_hash` next to the actions of `MerkleAppenders` |
| `KeyMessages` | `bls-key-registry/src/lib.rs`, `owner.rs`, `registrar/src/lib.rs` | signed messages with a leg per registry, nonces, deadlines, generations, registration by leaf; `Submit` replays any message anywhere |
| `RateLimit` | `proofbridge-core/src/rate_limit.rs` | the refilling allowance as operators |
| `AgentAccount` | `agent-account/src/` (`lib.rs`, `policy.rs`, `owner.rs`, ...) | targets, rails, roster, schedules, policies, allowances, the ads at the escrows; one action per entry point, and one for a row that storage archives |
| `AdDenial` | the denial rule | adds `refused`, the orders whose payout a gate of `unlock` really refused |
| `OrderPortal` | `order-portal/src/lib.rs` with `escrow_ops.rs` | likewise. `OpSpec` is the order chain against an ad chain that may show it anything |
| `Trade` | nothing: the promise | per order a lock and a deposit, and who may get which |
| `ProofBridge` | both chains | two clocks, the co-signed pairs, anchoring; the refinement mapping to `Trade` |
| `DiligentBridge` | both chains with a diligent bridger | bars time from passing over a step the bridger must take; the bridger signs for the pinned slot; an anchor it waits on is kept |
| `Sums` | nothing: notation | the sum of amounts over a set, as a fold, for the properties about money |
| `SumsProofs`, `DisputeManagerProofs`, `AdManagerProofs`, `AdDenialProofs`, `ProofBridgeProofs`, `TimelockedProofs`, `KeyMessagesProofs`, `AgentAccountProofs` | | theorems (section 4) |
| `MC*` | | values of the constants and the scenarios of a run (section 3) |

Conventions. An action's guard is the conjunction of the code's checks up to the
first write. An operation that fails reverts, so it is no action. Proofs,
signatures and hashes are external: an action is enabled where a valid proof can
exist. Order parameters are signed and bound by the order hash, so they are
constants (`Deadline`, `Amount`, `FeesOf`, `SignerOf`, ...). A lever
(`Levers`, `OrderLevers`) is a group of admin, maker or key operations: a run
names the groups it lets anyone use at any time. The escrows' setters come at any
time, which covers every delayed schedule; the delay itself is checked where it is
a promise, in `RootAnchor` and `MerkleAppenders`, which carry `Timelock`.
Operators marked *Mutant* are wrong on purpose: each is what a plausible slip in
the next definition would look like, and putting it in that definition's place
makes a property fail. Nothing else uses them.

## 3. What TLC checks

| Run | Question | Bounds |
|---|---|---|
| `AdDisputes` | Can claims, disputes in two modules, rulings and evidence reach two verdicts, an early release, a moved window, a stranded record? | 1 order, 2 timings, 2 modules, halts, time to 8, any number of rulings |
| `AdFunds` | Does the money add up, over two orders on one ad and when every term changes under a live order? | 2 orders, 1% fees, unpayable recipient, time to 4; 1 order, 2 fee tables, 2 pools, 2 signers, time to 3 |
| `AdDenial` | Can a key operation, a halt, a verifier, registry or delay change refuse a payout without earning the grace, or a pruned slot hide one? | slots 0..2, 1 re-pin, time to 7 (`MaxKeysTime`), to 4 once a re-pin was consented to (`MaxRepinTime`); 2 registries, delays 0 and 1, time to 5 (`MaxWiringTime`) |
| `Bridge` | Do both chains implement `Trade`? | 1 order, skew 1, 2 timings, time to 5 |
| `Diligent` | Is a diligent bridger safe, however its payout is denied? | 1 order, delays 1 and 2, cadence 1, skew 1, slots 0..1, 1 re-pin, time to 8; halts, verifier or keys |
| `BridgeLive` | Does everything escrowed come out, if the arbiter rules finitely often? | 1 order, buffer 2, a halt kept on, rulings again and again to time 4 (`LastRuling`), time to 8, fairness and assumption below |
| `Counterparts` | Are bonds covered and windows kept under any caller? Does a deposit go once, whatever is shown? | 2 orders, time to 3; at most 3 bond units held, or contradictory leaves |
| `Timelocked` | Can an admin loosen the anchor or the tree's appenders unannounced, a root count without a quorum, a leaf not prove? | delay 2, grace 1, time to 6, 1 pending call, 1 hand-over; 3 notaries, 2 roots, 2 rotations; 9 leaves, so trees of every shape up to one peak past 8 |
| `KeyMessages` | Can a signed message apply twice, or after it was withdrawn, or bring a key back? | 2 registries, 2 keys, 1 maker, 2 messages, nonces to 2, time to 3 |
| `AgentAccount` | Can a key widen its reach or take liquidity without waiting or paying? | 2 ads, 1 agent, 4 rail settings, 3 policies, 2 pending rows, time to 4 |
| `LeaveRegistry` | Does leaving a registry kill every outstanding signature, as its documentation says? (It does not.) | as `KeyMessages`, 1 message |
| `DelayCut` | Does cutting the anchor delay shorten no pending grace, as its documentation says? (It does.) | 1 order, delays 1 and 2, time to 5 |

Why these bounds are enough. Orders do not read each other's records: they
share an ad, a signer's counter, a vault and the credits, which is why the money
runs have two and the rest one. Clocks are compared, never scaled, so timings of
one or two seconds with deadline, cutoff, window end and grace end at different
seconds meet every order of those events; `MaxTime` is past the last of them
in each run, but for the grace a halted order earns in `AdDisputes`, whose end
the denial run reaches. `AdDisputes` has a second timing with a shorter buffer, so that
reading the live one would release early. Deadlock is not checked: at `MaxTime`
with all orders ended the system may stop.

Scenarios. Seven runs choose a scenario at the start (`focus`, `contract`, `family`,
`part`) and hold still what the other scenarios are about: funds or terms of an ad,
keys, halt or wiring of a refusal, the dispute module or the order portal alone, one
timelocked setter at a time, one family of signed requests, one part of the agent account. It keeps them within TLC's reach, and what is
lost is only the interleaving of operations with little state in common: two
setters have their own proposals and brake keys; requests about keys and requests
about makers meet in the account's nonce and in the generation, which the message
that bumps them brings into every signed family; the account's parts meet in the
rails' delay and window, which move in the "rails" part with rows of the
account and of the ad pending. Five runs leave out what another one has: in `AdDisputes` a maker halts and
resumes once and under an order (`DisputesNext`), in `AdFunds` one gate of a lock is
shut at a time, in `AdDenial` a behaviour ends with its order, in `BridgeLive` a maker halts under its
order and keeps it on (`HaltsForGood`), which denies as much as a halt taken back, in `Diligent` the
levers move once both sides signed and a behaviour ends where nothing can go wrong. The modules themselves
are not restricted: a scenario is a conjunct of the MC module's next-state relation.

Bounds of `Timelocked`, `KeyMessages` and `AgentAccount`. The timelock compares a clock
with an eta, so a delay of 2 and a grace of 1 have a second before, at, between and past each limit. Nine leaves
pass widths 2, 4 and 8, where peaks merge, and the sizes next to them. Two keys and
one active slot make room for a key that was replaced; two registries
let one signature be spent at one and replayed at the other. Rail settings that are
looser, stricter, slower only, and too short for the least window give every
comparison the rail makes both answers.

Fairness (`BridgeLive`). Both clocks advance; the notaries go on anchoring; each
exit (`claim_cancel`, `finalize_cancel`, `finalize_dispute`,
`cancel_never_locked`, `record_settled`, `refund_by_cancel`, `present_settled`,
`pay_maker_by_forfeit`) is called when it stays enabled. All of these are
permissionless in the code, and the party whose money is waiting wants them.
Nothing is assumed of the co-signed unlocks, of filing or responding.
Weak fairness is enough: within the run nobody can disable an exit for good except by
ending the order, but for an arbiter who rules again.

Assumption (`BridgeLive`): an arbiter rules finitely often (`ArbiterRests`, a conjunct of
`FairBridgeSpec`, which the run's `LiveSpec` narrows by `HaltsForGood`). The code does not ensure it. `resolve_dispute`
(`dispute-manager/src/lib.rs:388-408`) accepts a ruling while the last one's window is
open, without limit, and each moves the end to `max(now, deadline) + buffer`. An
arbiter who rules again before every window ends keeps the lock `Disputed`: no exit
that time opens is enabled, no leaf is appended, and the deposit stays `Open`. `EveryLockEnds`
and `EveryDepositEnds` say nothing of such an arbiter; they say that nobody else can
hold an order open forever, and that once the arbiter stops, however often it ruled, the order ends. The
assumption names a time after which it rests, `LastRuling`; before it, it rules as often as the
code lets it. With a buffer of 2, rulings at 3 and 4 each extend the window, the latest
window of a dispute ends at 6 and the grace of a denied payout at 8, `MaxTime`. Without
the conjunct TLC finds the counterexample, a ruling in every window until the clocks stop.
The module itself bounds nothing: in every other run the arbiter rules as often as it likes.

The run moves no admin lever but the maker's halt, so it assumes too that the admin does
not take away what an exit reads: an admin who goes on re-pointing the anchor, raising
its delay or removing the chain keeps leaves from being proved.

Diligence (`Diligent`). The protocol protects a bridger that acts in time; one
that stays silent loses, as the scenario `fast-unlock-race-silent` of
`src/test-vectors/joint-outcomes.json` says. The model therefore says what time
may not pass over: the last second of a payout the bridger can still take, a
SETTLED leaf it can record, one not anchored for `Cadence` seconds, one it can
present. The maker, the arbiter, key owners and the admin do what they like, but for two
conjuncts:

- `SignsThePin`. The bridger's half names one maker key and settles with no other
  (`counterparty-verifier/src/lib.rs:111-115`), so the bridger chooses what it signs: the
  key of the slot the lock pins when it signs. A half given for another live key of the
  maker's takes the deposit, but the ad leg never admits it (lines 104-106), no refusal
  stamps a denial, and TLC finds the maker paid twice. A re-pin after signing is a denial.
- `AnchorKept`. An admin who re-points `root_anchor` takes away a SETTLED root the
  bridger waits for; no bridger can outrun that, and the evidence grace does not count it.

`DiligenceAssumption` states how wide the windows must be, for each two timing versions
(the legs may have opened under different ones) and each two anchor delays. Two,
because `evidence_grace` takes the larger of the delay at the lock and the delay now
(`ad-manager/src/lib.rs:1781-1782`). If the admin raises the delay after the lock and
cuts it before the cancel, a leaf anchored in between waits under the longer delay
and the grace runs under the shorter (`DelayCut` below). The windows must cover the
swing: with delays 1 and 3 in the run's bounds they do not, and TLC finds the maker paid
twice.

What the runs found. `LeaveRegistry` finds a disagreement between code and
documentation. The documentation of `revoke` says that with no slots it "only bumps the
nonce, killing every outstanding signature at this registry"
(`bls-key-registry/src/lib.rs:429-430`). An `approve_maker` signature is checked
against the nonce of its (account, maker) pair and stamped with the generation it
finds (lines 516-519 and 534), and `revoke` moves neither that nonce nor the stamp, so
an approval signed before leaving takes effect after it, until its deadline.
`WithdrawnStaysOut` is stated for what the code does ensure: a registration
outstanding when the owner cancels or leaves, and an approval outstanding when the
owner withdraws that maker, never take effect.

`DelayCut` finds another. The comment of `evidence_grace` says of the anchor delay that
"raising it lengthens every pending grace, lowering it shortens none"
(`ad-manager/src/lib.rs:1773-1774`; the Solidity twin, `AdManager.sol:251`: "a cut never
shortens it"). The code keeps the delay of the lock, not the largest since, so a cut takes
back what a raise after the lock had given a refused payout. The tests move the delay once.
What the code does ensure is `RefusalEarnsGrace`, counted with the delay of the lock.

Every other property holds. Some limits are worth knowing. In the agent account,
`set_guard_rail` clamps the account's pending windows only when `account_timelock` can
be read, which fails while another guarded ad's row is archived
(`agent-account/src/lib.rs:355`), so `RowsWaitTheDelay` bounds the window of an ad's
rows and only the delay of the account's. `disarm_closed_ad` looks at one escrow and at the ad's id (line 392), so with
two pinned escrows an id that is closed on one may be open on the other; the
instance has one. A verifier re-pointed in the very second of a lock does not count as a denial;
`co_sign_denied` documents this ("after the lock's second"), and `RefusedNow`
leaves that second out.

## 4. What is proved

`tlapm` checks the theorems below for every value of the constants: any set of
orders, ads, modules, registries, notaries, keys and signers, any timings, delays and
clock bounds. All 27 invariants the passing runs check are theorems, 8 of the 10
action properties, and the refinement.

| Module | Theorems (the property, where its name differs) | Run |
|---|---|---|
| `DisputeManagerProofs` | `DisputeManagerTypeCorrect`, `DisputeWindowHolds` (`DisputeWindowFloor`), `BondsAreCovered` | `Counterparts` |
| `AdManagerProofs` | `ClaimsMatch`, `DisputesMatch`, `VerdictsMatch`, `NothingReleasedEarly`, `EndedStays`, `WindowsStay`, `AdManagerTypeCorrect` | `AdDisputes` |
| | `LocksAreBacked` (`LockedMatchesOrders`), `AdVaultIsBacked`, `PayoutsArePaidOnce` (`AdPaidOnce`), `PositionsCounted` (`InFlightCountsLive`) | `AdFunds` |
| | `EscrowKeepsBondsCovered` (`BondsCovered`, under the escrow's own calls) | |
| `AdDenialProofs` | `PinsStay` (`PinnedSlotStays`), `RefusalsEarnGrace` | `AdDenial` |
| `ProofBridgeProofs` | `OrderPortalTypeCorrect`, `DepositsAreBacked`, `DepositsArePaidOnce` (`DepositPaidOnce`), `DepositsStayWhereTheyWent` (`DepositGoesOnce`) | `Counterparts` |
| | `NeverRefundedAndPaid`, `FillsHaveDeposits`, `ForfeitIsNoSettlement`, `BridgeIsATrade` (the refinement) | `Bridge` |
| | `NobodyIsPaidTwice` (`NobodyPaidTwice`) | `Diligent` |
| | `BridgeRunsBothChains`, `BridgeIsBacked`, `DiligentIsABridge` (composition) | |
| `TimelockedProofs` | `RootAnchorTypes`, `LooseningIsAnnounced` (`AnchorLooseningAnnounced`), `AnchoredByQuorum` (`QuorumAnchors`), `AppendersNeedNotice` (`AppendersAnnounced`) | `Timelocked` |
| `KeyMessagesProofs` | `SignaturesApplyOnce`, `WithdrawnMessagesStayOut`, `KeysNeverReturn` | `KeyMessages` |
| `AgentAccountProofs` | `AgentTypeCorrect`, `AllowancesAreExact`, `PendingRowsWait` (`RowsWaitTheDelay`), `WideningNeedsNotice` (`WideningIsAnnounced`), `OutflowIsPaidFor` (`OutflowIsCharged`) | `AgentAccount` |
| `SumsProofs` | lemmas: what a sum over a finite set does when a term is added, removed or changed | |

What they assume of the constants, each an `ASSUME` of the module that declares them
and evaluated by the runs:

- `CoreAssumption`, `DisputeManagerAssumption`, `BLSKeyRegistryAssumption`,
  `AdManagerAssumption`, `OrderPortalAssumption`, `KeyMessagesAssumption`,
  `TimelockAssumption`, `RootAnchorAssumption`: deadlines and amounts are natural numbers,
  stored timings passed `timing::validate`, nobody is both maker and recipient of an
  order, each chain appends only its own leaf domains; the rest is typing.
- `FiniteOrders`, `FiniteAds`, `FiniteAccounts`, `FiniteParties`, `FiniteBook`: an order
  hash and an address are 32 bytes and an ad id is a bounded string, so there is a finite
  set to sum over.
- `AdDenialAssumption`: `GRACE_PERIOD` outlasts the longest order window, two buffers and
  the anchor delay, the bound the comment of `prune` works out.
- `DiligenceAssumption`: the windows leave room for the skew, the cadence and the delays
  (section 3). Only `NobodyIsPaidTwice` uses it.
- `AgentAccountAssumption`: the inputs have the types of the contract's interface, `Nil`,
  which stands for an absent row, is not one, and the account is not one of its ads.

The argument, bottom up.

- *Sums.* A sum is a fold over a finite set, that is, a recursive function. `SumsProofs`
  shows once that the sum of `f` over `S` counts the pairs `<<x, i>>` with `x` in `S`
  and `i` in `1..f[x]` (`Units`), by the fold's own recursion and because a smallest
  subset for which it failed would have a smaller one (`SubsetInduction`). What an
  operation does to a sum is then arithmetic of cardinalities: `SumAdd`, `SumSplit`,
  `SumChange`, `SumRaised` and `SumOfTwo` are what the money proofs cite.
- *Dispute module.* `DisputeInv`, the types with the window floor, is inductive:
  each ruling's window starts no earlier than the deadline and is at least the
  order's buffer long, and the types say both are numbers. `BondsCovered` adds that
  a record's bonds enter and leave `bondHeld` with the record. `EscrowKeepsBondsCovered`
  says the same of several modules under the escrow's own calls, where what matters is that
  a bond is settled in the module it was filed with (`RecordOK`), also after
  `set_dispute_manager`.
- *Ad chain, the legs.* `LegInv` is the conjunction, for each order, of `ClockOK`,
  `RecordOK`, `VerdictOK` and `ReleaseOK`, with the types they need. None of the checked
  properties is inductive by itself. `NoEarlyRelease` needs that the module's
  record carries the order's own deadline and buffer (`RecordOK`) and that the
  module's window is floored by them (`DisputeInv`); both need that a live
  order is stamped with a timing version (`ClockOK`). The proof has a lemma per
  action for the order it is about; every other order is covered by `FrameOK`
  once its leg is shown untouched (`SameLeg`). The money and the fees are
  unconstrained in it, so these results do not rest on any balance.
- *Ad chain, the money.* On top of `LegInv`: an operation moves one ad's balance, one
  order's status and one recipient's tokens, in a handful of ways (lock, pay, hand back,
  fund, withdraw), so each of the sums changes by one term. That a payout's fee was fixed
  when the order was locked, not when it is paid, is what makes `AdPaidOnce` inductive,
  and `PoolSet`, that whoever is owed a cut has a pool stored, is what it needs besides.
- *Denial.* `DenialInv` says that each refusal leaves a mark that no later step removes
  while the order is live, except by outliving it: the halt's stamp, the verifier's, the
  re-pin's, or the pinned slot's date of death, which lives in the registry and is pruned
  there. The last is why slot ids must never be given twice, why the open-position
  count must be right (`CountsOK`), and where `AdDenialAssumption` is used.
- *Order chain.* `OpLegInv`: an `AD` leaf means the order was created, a `SETTLED`
  leaf that it was filled, a mark that it was filled. `OpFundsInv` is its money.
- *Both chains.* `BridgeInv` says what each anchored leaf and each co-signed pair
  stands for on the other chain (`EvidenceOK`) and what each fate of a leg
  implies for the other (`FatesOK`). It is inductive because what a leaf stands
  for lasts, which is `EndedStays` and `DepositGoesOnce` again. The subtle part is
  `PaidOnProof`: `pay_maker_by_forfeit` marks the order recorded without a leaf, so
  a deposit that may still be reported as settled was co-signed or follows a
  filled lock.
- *Refinement.* A step moves the lock of one order, the deposit of one, the
  agreement of one, or nothing (`LockMoves`, `DepositMoves`), and `BridgeInv` is
  the guard `Trade` asks for.
- *Composition.* A step of the bridge is on each chain a step that chain may take alone, or
  a stutter (`ChainSteps`), so `BridgeSpec` implies `AdSpec` and `OpSpec`
  (`BridgeRunsBothChains`) and whatever is proved of them, money and bonds included, holds
  of both chains together (`BridgeIsBacked`).
- *Diligent bridger.* `DiligentSpec` is any order of calls the diligence permits; the run
  restricts it further. `NobodyPaidTwice` says nothing of time, so `DiligentInv` says at
  which second of which clock each step has been taken at the latest (`WaitingOK`): the
  deposit went out before the order leg's window closed, the leaf was recorded in that second of
  the order chain's clock, anchored a `Cadence` later, and usable a delay after that, so the ad
  clock never reaches the end of the grace (`GraceNotOver`). That the grace is earned at
  all is the work of `AdDenialProofs`: the pair stands for the pin or a re-pin has
  refused it (`SignedOK`), and a pair that may not be used in its last second leaves a
  mark (`GateMarks`, `UnlockInTime`), so past the cutoff the order is denied. Then neither
  a cancel nor a ruling can hand the lock back while the bridger waits (`NotHandedBack`).
  `DiligentInv` was checked by TLC on the run's instance before it was proved.
- *Timelock, anchor and appenders.* `NoticeOK`: every stored proposal was made its delay
  before its eta, and one of this epoch that no brake overtook stands on the notice given
  then. Every setter goes through `gate`, so its announcement follows, for the anchor and
  for the tree's appenders alike; `NeverBraked` says which two setters have no brake to
  check. Appending changes nothing the timelock or the appenders' rule reads, so
  `AppendersNeedNotice` holds of `MerkleManager` as well. `QuorumInv`: the
  stored count of a root is at most the number of notaries whose approval carries the
  current set and generation, and no stamp is from a later one. Rotating and revoking
  raise the epoch or the generation, which empties that set at once.
- *Signed messages.* Replay protection is spread over three nonces and, for a retirement,
  a date that only shortens. `SpentOK`: a message that applied, or was withdrawn, is spent
  at that registry; and a lemma per kind says that a spent message passes no check and
  that nothing revives it. `GoneOK` is the same for keys.
- *Agent account.* Four invariants. `RailsInv` and `AllowancesInv` hold a bucket that is
  refilled when it is read against one refilled each second: `BucketTicks`, `SettledBucket`
  and `SpentBucket` say that a second, a change of limit and a spend keep the two equal,
  also when the refill is cut at the capacity. In an entry of two locks the second reads
  what the first wrote (`SpendOne`, `SpendTwo`). `RowsInv` says of each pending row that it
  waits at least as long as the rails that time it and closes in its window, through
  every rail added, tightened or removed while it waits: the case that needs work is an
  account row, timed by the longest delay of the roster, when one rail of several changes.
  `HoldingsInv` keeps a lock within its ad's balance and nothing negative at rest.
- *Agent account, the two action properties.* `WideningIsAnnounced`: a row that may be
  spent was announced at least the longest delay now in force ago, which follows from
  `RowsInv` as tightening a delay pushes every pending row back (`SpentWasAnnounced`). Then
  each operation either leaves each part no wider (`AgentNotWider`, `RailNotWeaker`,
  `LimitNotRaised`, and `PartsKept` for what it does not touch) or spends a row announced
  for exactly what it stores. `OutflowIsCharged`: what each call does to the free
  liquidity of an ad (`AdMoves`), and that it does it to one ad only or to the two of its
  entry (`OnlyRow`). For an agent's entry, `EntryCharged`: what is reserved on the ads of a
  token is what the entry draws on that token's allowance (`OneLockReserves`,
  `TwoLocksReserve`, `DrawnAdded`). It holds because an entry is refused unless each lock is
  in its ad's own token; two locks on one ad, or on two ads of one token, are the cases the
  sum is for.

Only model-checked, and why.

- Liveness (`EveryLockEnds`, `EveryDepositEnds`), under the fairness and the assumption of
  section 3: beyond the prover.
- `EveryLeafProves` and `RootsCommitToPrefix`: what the recursive operators of `MMR`
  compute for every width is an induction over data.

## 5. What is not modelled

- Cryptography: signatures, proofs of possession, pairings, point encodings, the
  identity circuit, the ZK verifier. A valid proof shows what it says, and
  the hash of the tree has no collisions.
- The two-step admin hand-over and the upgrade of the escrows, the dispute module and the
  registry. In `RootAnchor` and `MerkleAppenders` it is modelled with the timelock.
- Storage rent, but for the archived row of a guarded ad, which changes what the
  account's code can read.
- The agent account's fixed list of callable functions, its checks of argument types,
  and the upper end of `valid_until`; the range check and overflow of `scale`.
- Events, error codes, getters without effect.
- The Solidity twins, the EVM agent custody and the deployment tooling.

`PROJECT.json` gives the reason for each part.

## 6. Plan

The model is complete to the extent above. What is left to prove, besides liveness: the
operators of `MMR` could be written as recursive functions without bit operations, so that
what does not need an induction over data can be proved about them.
