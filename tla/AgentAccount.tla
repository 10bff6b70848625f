---------------------------- MODULE AgentAccount ----------------------------
(***************************************************************************)
(* A maker's smart account.  Its owner acts through guarded functions, and *)
(* its agents lock orders within a policy and two refilling allowances,    *)
(* their own and the account's.  An ad may carry a guardrail: while any ad *)
(* does, whatever widens what a stolen owner key could do is announced,    *)
(* waits out a delay and is spent once, for exactly what was announced.    *)
(*                                                                         *)
(* A schedule's commitment is its arguments; calls are well-typed.  Lists  *)
(* without repeats (targets, tokens, scopes) are sets.  allowed_action is  *)
(* pinned to lock_for_order by validate and left out.  Signatures name     *)
(* their agent.  The escrows appear by what they do to the account's ads   *)
(* alone; AdManager models them.                                           *)
(***************************************************************************)
EXTENDS RateLimit, FiniteSets, FiniteSetsExt, SequencesExt, Sums

CONSTANTS
  Nil,
  Escrows,          \* contracts that hold this account's ads
  Contracts,        \* every contract that might be pinned, the escrows included
  Ads,              \* ad ids
  Tokens,
  AdToken,          \* [Ads -> Tokens]
  Signers,          \* settlement identities
  Agents,
  Wasms,
  SchemaVersion,    \* [Wasms -> Nat], SCHEMA_VERSION in each code
  MaxTargets,       \* MAX_TARGETS
  MaxGuardedAds,    \* MAX_GUARDED_ADS
  MaxGuardDelay,    \* MAX_GUARD_DELAY
  MinGuardWindow,   \* MIN_GUARD_WINDOW
  MaxWhitelist,     \* MAX_WHITELIST_TOKENS and MAX_AD_SCOPE
  Forever,          \* u64::MAX, past every time and window
  Amounts,          \* inputs: withdrawals, deposits, bonds, sweeps
  Payees,           \* inputs: where a call may send funds
  Settings,         \* inputs: guardrails without their bucket
  Limits,           \* inputs: account limits
  Policies,         \* inputs: policies without their buckets
  Orders,           \* inputs: orders to lock
  TargetSets,       \* inputs: target lists
  Announcements,    \* inputs: <<scope, action, args>> to schedule
  MaxHeld,          \* bound: an ad's balance, and funds at rest
  MaxTime           \* bound: ledger time

\* This account's own address.
Me == "account"

VARIABLES
  now,
  targets,          \* the pinned escrows
  rails,            \* [Ads -> GuardRail or Nil], archived rows included
  roster,           \* GuardedAds, in the instance, which does not archive
  archived,         \* guarded ads whose row reads as absent
  schedules,        \* [Rows -> Schedule or Nil]
  volume,           \* [Tokens -> AccountVolume or Nil]
  policies,         \* [Agents -> AgentPolicy or Nil]
  rest,             \* [Tokens -> Nat], funds at rest in the account
  code, schema,     \* the running wasm, and the stored schema version
  book,             \* [Escrows -> [Ads -> ad or Nil]], kept by the escrows
  halted,           \* settlement is halted, kept by the escrows
  railLeft,         \* history: each rail's allowance, refilled every second
  volumeLeft,       \* history: each token's
  agentLeft         \* history: each agent's, by token

adminVars    == <<targets, code, schema>>
escrowVars   == <<book, halted>>
railVars     == <<rails, roster, archived, railLeft>>
volumeVars   == <<volume, volumeLeft>>
policyVars   == <<policies, agentLeft>>
agentAccountVars ==
  <<now, adminVars, railVars, schedules, volumeVars, policyVars, rest, escrowVars>>

AdActions ==
  {"withdraw_from_ad", "close_ad", "lock_for_order", "set_guard_rail",
   "set_settlement_signer"}

AccountActions ==
  {"upgrade", "set_policy", "set_account_limit", "set_targets", "sweep",
   "resume_settlement"}

\* actions_for
ActionsFor(scope) == IF scope = Me THEN AccountActions ELSE AdActions

RowsOf(scope) == {<<scope, action>> : action \in ActionsFor(scope)}

Rows == UNION {RowsOf(scope) : scope \in Ads \cup {Me}}

AgentAccountInit ==
  /\ now = 1
  /\ targets \in TargetSets /\ targets # {}
  /\ rails = [ad \in Ads |-> Nil]
  /\ roster = {}
  /\ archived = {}
  /\ schedules = [row \in Rows |-> Nil]
  /\ volume = [t \in Tokens |-> Nil]
  /\ policies = [a \in Agents |-> Nil]
  /\ rest = [t \in Tokens |-> 0]
  /\ code \in Wasms
  /\ schema = SchemaVersion[code]
  /\ book = [e \in Escrows |-> [ad \in Ads |-> Nil]]
  /\ halted = FALSE
  /\ railLeft = [ad \in Ads |-> 0]
  /\ volumeLeft = [t \in Tokens |-> 0]
  /\ agentLeft = [a \in Agents |-> [t \in Tokens |-> 0]]

-----------------------------------------------------------------------------
(* Guardrails and the delay they impose.                                   *)

\* get_guard_rail
GetGuardRail(ad) == IF ad \in archived THEN Nil ELSE rails[ad]

\* is_guarded, any_guarded: by the roster, never by the rows.
IsGuarded(ad) == ad \in roster
AnyGuarded    == roster # {}

\* timelock_without: the longest delay and the shortest window of `ads`.
Longest(ads)  == Max({0} \cup {rails[ad].delay : ad \in ads})
Shortest(ads) == Min({Forever} \cup {rails[ad].window : ad \in ads})

\* account_timelock, whether it answers Ok
TimelockKnown == AnyGuarded /\ roster \cap archived = {}

\* check_guard_bounds and set_guard_rail's own checks
GuardBounds(g) ==
  /\ g.delay # 0 /\ g.delay <= MaxGuardDelay
  /\ g.window # 0 /\ g.window >= MinGuardWindow

\* validate_limit
ValidLimit(l) == l.capacity # 0 /\ l.refill_per_second # 0

\* is_tightening
IsTightening(cur, next) ==
  /\ next.threshold <= cur.threshold
  /\ next.delay >= cur.delay
  /\ next.window <= cur.window
  /\ next.rate.capacity <= cur.rate.capacity
  /\ next.rate.refill_per_second <= cur.rate.refill_per_second

-----------------------------------------------------------------------------
(* Schedules.                                                              *)

\* spend, whether the row authorizes the call now
Matured(row, args) ==
  LET s == schedules[row] IN
  s # Nil /\ s.args = args /\ s.ready_at <= now /\ now < s.expires_at

\* spend: single use.  `needed` is the caller's condition for asking.
SpendIf(needed, row, args) ==
  IF needed
    THEN Matured(row, args) /\ schedules' = [schedules EXCEPT ![row] = Nil]
    ELSE schedules' = schedules

\* clear_all_schedules
SchedulesCleared(ad) ==
  [row \in Rows |-> IF row \in RowsOf(ad) \cup RowsOf(Me) THEN Nil ELSE schedules[row]]

\* restamp, one row: it opens no earlier, with its window's length kept.
Restamp(s, notBefore) ==
  IF s # Nil /\ s.ready_at < notBefore
    THEN [s EXCEPT !.expires_at = s.expires_at + (notBefore - s.ready_at),
                   !.ready_at = notBefore]
    ELSE s

\* clamp_windows, one row: it closes no later than its open time plus window.
ClampWindow(s, window) ==
  IF s # Nil /\ s.expires_at > s.ready_at + window
    THEN [s EXCEPT !.expires_at = s.ready_at + window]
    ELSE s

\* One row under a rail with this delay and window, where they bite.
RetimedRow(s, raised, shortened, delay, window) ==
  LET r == IF raised THEN Restamp(s, now + delay) ELSE s IN
  IF shortened THEN ClampWindow(r, window) ELSE r

\* Mutant: a raised delay applies to what is scheduled next.
RetimedWindowsOnly(ad, cur, g) ==
  [row \in Rows |->
     IF row \in RowsOf(ad) THEN ClampWindow(schedules[row], g.window) ELSE schedules[row]]

\* Arming or tightening `ad` from cur to g: what is pending waits the raised
\* delay and closes within the shortened window, of its ad or of the account.
Retimed(ad, cur, g) ==
  LET delayBefore  == IF cur = Nil THEN 0 ELSE cur.delay
      windowBefore == IF cur = Nil THEN Forever ELSE cur.window
      accountDelay  == IF TimelockKnown THEN Longest(roster) ELSE 0
      accountWindow == IF TimelockKnown THEN Shortest(roster) ELSE Forever
      windowAfter == Min({g.window, Shortest(roster \ {ad})}) IN
  [row \in Rows |->
     CASE row \in RowsOf(ad) ->
            RetimedRow(schedules[row], g.delay > delayBefore, g.window < windowBefore,
                       g.delay, g.window)
       [] row \in RowsOf(Me) ->
            RetimedRow(schedules[row], g.delay > accountDelay,
                       roster \cap archived = {} /\ windowAfter < accountWindow,
                       g.delay, windowAfter)
       [] OTHER -> schedules[row]]

-----------------------------------------------------------------------------
(* The owner's settings.                                                   *)

\* set_targets
SetTargets(ts) ==
  /\ ts # {} /\ Cardinality(ts) <= MaxTargets /\ Me \notin ts
  /\ SpendIf(AnyGuarded /\ ~(ts \subseteq targets), <<Me, "set_targets">>, <<ts>>)
  /\ targets' = ts
  /\ UNCHANGED <<now, code, schema, railVars, volumeVars, policyVars, rest, escrowVars>>

\* is_limit_tightening
IsLimitTightening(cur, next) ==
  /\ cur # Nil
  /\ next.capacity <= cur.limit.capacity
  /\ next.refill_per_second <= cur.limit.refill_per_second

\* set_account_limit
SetAccountLimit(t, limit) ==
  LET cur == volume[t] IN
  /\ ValidLimit(limit)
  /\ SpendIf(AnyGuarded /\ ~IsLimitTightening(cur, limit),
             <<Me, "set_account_limit">>, <<t, limit>>)
  /\ volume' = [volume EXCEPT ![t] =
       [ limit  |-> limit,
         bucket |-> IF cur = Nil THEN Full(limit, now)
                    ELSE Settle(cur.limit, limit, cur.bucket, now) ]]
  /\ volumeLeft' = [volumeLeft EXCEPT ![t] =
       IF cur = Nil THEN limit.capacity ELSE Capped(@, limit.capacity)]
  /\ UNCHANGED <<now, adminVars, railVars, policyVars, rest, escrowVars>>

\* The tokens a policy has a row for.
AdTokens(p) == {t \in Tokens : p.ad_tokens[t] # Nil}

\* validate
Validate(p) ==
  /\ Cardinality(AdTokens(p)) \in 1..MaxWhitelist
  /\ \A t \in AdTokens(p) :
       /\ ValidLimit(p.ad_tokens[t].rate)
       /\ p.ad_tokens[t].max_per_order \in 1..p.ad_tokens[t].rate.capacity
       /\ volume[t] # Nil
  /\ Cardinality(p.order_tokens) \in 1..MaxWhitelist
  /\ p.valid_until # 0 => p.valid_until > now
  /\ p.ad_scope # Nil => Cardinality(p.ad_scope) \in 1..MaxWhitelist

\* is_policy_tightening
IsPolicyTightening(cur, next) ==
  /\ next.order_tokens \subseteq cur.order_tokens
  /\ next.settlement_signer = cur.settlement_signer
  /\ cur.valid_until # 0 => next.valid_until \in 1..cur.valid_until
  /\ cur.ad_scope # Nil => next.ad_scope # Nil /\ next.ad_scope \subseteq cur.ad_scope
  /\ \A t \in AdTokens(next) :
       LET c == cur.ad_tokens[t] n == next.ad_tokens[t] IN
       /\ c # Nil
       /\ n.max_per_order <= c.max_per_order
       /\ n.rate.capacity <= c.rate.capacity
       /\ n.rate.refill_per_second <= c.rate.refill_per_second

\* carry_buckets
CarryBuckets(cur, next) ==
  [t \in Tokens |->
     IF t \in AdTokens(next) /\ cur.buckets[t] # Nil
       THEN Settle(cur.ad_tokens[t].rate, next.ad_tokens[t].rate, cur.buckets[t], now)
       ELSE Nil]

\* An agent's stored row: its policy with the buckets its tokens refill.
PolicyRow(p, buckets) ==
  [ad_tokens |-> p.ad_tokens, order_tokens |-> p.order_tokens,
   valid_until |-> p.valid_until, settlement_signer |-> p.settlement_signer,
   ad_scope |-> p.ad_scope, revoked |-> FALSE, buckets |-> buckets]

\* set_policy: a revoked id is never installed again; an instant tightening
\* keeps the spent buckets, any other write starts full.
SetPolicy(agent, p) ==
  LET cur == policies[agent]
      carried == AnyGuarded /\ cur # Nil /\ IsPolicyTightening(cur, p) IN
  /\ cur # Nil => ~cur.revoked
  /\ Validate(p)
  /\ SpendIf(AnyGuarded /\ ~carried, <<Me, "set_policy">>, <<agent, p>>)
  /\ policies' = [policies EXCEPT ![agent] =
       PolicyRow(p, IF carried THEN CarryBuckets(cur, p) ELSE [t \in Tokens |-> Nil])]
  /\ agentLeft' = [agentLeft EXCEPT ![agent] =
       [t \in Tokens |->
          IF t \notin AdTokens(p) THEN 0
          ELSE IF carried THEN Capped(@[t], p.ad_tokens[t].rate.capacity)
          ELSE p.ad_tokens[t].rate.capacity]]
  /\ UNCHANGED <<now, adminVars, railVars, volumeVars, rest, escrowVars>>

\* revoke_agent: instant and idempotent.
RevokeAgent(agent) ==
  /\ policies[agent] # Nil
  /\ policies' = [policies EXCEPT ![agent].revoked = TRUE]
  /\ UNCHANGED <<now, adminVars, railVars, schedules, volumeVars, agentLeft, rest, escrowVars>>

\* remove_guard_rail, clear_all_schedules
Disarm(ad) ==
  /\ rails' = [rails EXCEPT ![ad] = Nil]
  /\ railLeft' = [railLeft EXCEPT ![ad] = 0]
  /\ roster' = roster \ {ad}
  /\ archived' = archived \ {ad}
  /\ schedules' = SchedulesCleared(ad)

\* A rail's stored row: its settings with the bucket they refill.
RailRow(g, bucket) ==
  [threshold |-> g.threshold, delay |-> g.delay, window |-> g.window,
   rate |-> g.rate, bucket |-> bucket]

\* set_guard_rail: arming and tightening are instant, loosening and disarming
\* spend the ad's row for exactly these settings.
SetGuardRail(ad, g) ==
  LET cur == GetGuardRail(ad)
      loosening == cur # Nil /\ (g = Nil \/ ~IsTightening(cur, g)) IN
  /\ g # Nil => GuardBounds(g) /\ ValidLimit(g.rate)
  /\ cur = Nil => ~IsGuarded(ad)
  /\ loosening => Matured(<<ad, "set_guard_rail">>, <<ad, g>>)
  /\ IF g = Nil THEN Disarm(ad)
     ELSE /\ IsGuarded(ad) \/ Cardinality(roster) < MaxGuardedAds
          /\ rails' = [rails EXCEPT ![ad] =
               RailRow(g, IF cur = Nil THEN Full(g.rate, now)
                          ELSE Settle(cur.rate, g.rate, cur.bucket, now))]
          /\ railLeft' = [railLeft EXCEPT ![ad] =
               IF cur = Nil THEN g.rate.capacity ELSE Capped(@, g.rate.capacity)]
          /\ roster' = roster \cup {ad}
          /\ schedules' = IF loosening THEN SchedulesCleared(ad) ELSE Retimed(ad, cur, g)
          /\ UNCHANGED archived
  /\ UNCHANGED <<now, adminVars, volumeVars, policyVars, rest, escrowVars>>

\* is_closed_ad: closed, empty and with nothing locked, at this escrow.
IsClosedAd(e, ad) ==
  LET a == book[e][ad] IN a # Nil /\ ~a.open /\ a.balance = 0 /\ a.locked = 0

\* disarm_closed_ad: at once, unless the account's own delay would suffer.
DisarmClosedAd(e, ad) ==
  /\ e \in targets
  /\ IsGuarded(ad)
  /\ IsClosedAd(e, ad)
  /\ TimelockKnown
  /\ Longest(roster \ {ad}) >= Longest(roster)
  /\ Shortest(roster \ {ad}) <= Shortest(roster)
  /\ Disarm(ad)
  /\ UNCHANGED <<now, adminVars, volumeVars, policyVars, rest, escrowVars>>

-----------------------------------------------------------------------------
(* Announcing.                                                             *)

\* scale: exact, or refused (Nil).
Scale(amount, from, to) ==
  IF to >= from THEN amount * 10 ^ (to - from)
  ELSE IF amount % 10 ^ (from - to) = 0 THEN amount \div 10 ^ (from - to) ELSE Nil

\* What the escrow would lock of the ad's token for the order.
Scaled(o) == Scale(o.amount, o.order_decimals, o.ad_decimals)

\* decode_ad_call: the ad a call names and the amount its threshold reads.
NamedAd(action, args) == IF action = "lock_for_order" THEN args[1].ad ELSE args[1]
CallAmount(action, args) ==
  CASE action = "withdraw_from_ad" -> args[2]
    [] action = "lock_for_order" -> Scaled(args[1])
    [] OTHER -> 0

\* window_from_now and set_schedule: a new row replaces a pending one.
PutSchedule(row, args, delay, window) ==
  schedules' = [schedules EXCEPT ![row] =
    [ args |-> args, ready_at |-> now + delay, expires_at |-> now + delay + window,
      announced |-> now ]]

\* schedule
Schedule(scope, action, args) ==
  /\ IF scope = Me
       THEN /\ action \in AccountActions
            /\ TimelockKnown
            /\ PutSchedule(<<scope, action>>, args, Longest(roster), Shortest(roster))
       ELSE /\ action \in AdActions
            /\ NamedAd(action, args) = scope
            /\ CallAmount(action, args) # Nil
            /\ action = "set_guard_rail" /\ args[2] # Nil => GuardBounds(args[2])
            /\ GetGuardRail(scope) # Nil
            /\ PutSchedule(<<scope, action>>, args, rails[scope].delay, rails[scope].window)
  /\ UNCHANGED <<now, adminVars, railVars, volumeVars, policyVars, rest, escrowVars>>

\* cancel
Cancel(row) ==
  /\ schedules[row] # Nil
  /\ schedules' = [schedules EXCEPT ![row] = Nil]
  /\ UNCHANGED <<now, adminVars, railVars, volumeVars, policyVars, rest, escrowVars>>

\* upgrade
Upgrade(wasm) ==
  /\ SpendIf(AnyGuarded, <<Me, "upgrade">>, <<wasm>>)
  /\ code' = wasm
  /\ UNCHANGED <<now, targets, schema, railVars, volumeVars, policyVars, rest, escrowVars>>

\* migrate: refuses a marker newer than the running code.
Migrate ==
  /\ schema <= SchemaVersion[code]
  /\ schema' = SchemaVersion[code]
  /\ UNCHANGED <<now, targets, code, schedules, railVars, volumeVars, policyVars, rest,
                 escrowVars>>

\* sweep: the one way out for funds at rest.
Sweep(t, to, amount) ==
  /\ SpendIf(AnyGuarded, <<Me, "sweep">>, <<t, to, amount>>)
  /\ amount <= rest[t]
  /\ rest' = IF to = Me THEN rest ELSE [rest EXCEPT ![t] = @ - amount]
  /\ UNCHANGED <<now, adminVars, railVars, volumeVars, policyVars, escrowVars>>

-----------------------------------------------------------------------------
(* What the escrows do to the account's ads (ad-manager).                  *)

\* available_liquidity
Free(e, ad) == book[e][ad].balance - book[e][ad].locked

\* fund_ad
Deposited(e, ad, amount) ==
  /\ amount > 0 /\ book[e][ad].balance + amount <= MaxHeld
  /\ book' = [book EXCEPT ![e][ad].balance = @ + amount]

\* withdraw_from_ad: of what no order has locked.
Withdrawn(e, ad, amount) ==
  /\ amount > 0 /\ book[e][ad] # Nil /\ amount <= Free(e, ad)
  /\ book' = [book EXCEPT ![e][ad].balance = @ - amount]

\* close_ad: only without locks.
Closed(e, ad) ==
  /\ book[e][ad] # Nil /\ book[e][ad].locked = 0
  /\ book' = [book EXCEPT ![e][ad].balance = 0, ![e][ad].open = FALSE]

\* lock_for_order, of every order of a sequence: the locks that draw on an ad, and
\* how much they reserve of it.
LocksOn(locks, e, ad) == {i \in DOMAIN locks : locks[i].escrow = e /\ locks[i].ad = ad}
AmountsOf(locks) == [i \in DOMAIN locks |-> Scaled(locks[i])]
Reserved(locks, e, ad) == SumOver(LocksOn(locks, e, ad), AmountsOf(locks))

\* Whether every lock of the sequence names its ad's token and finds liquidity,
\* and the book after them.
LocksFit(b, locks) ==
  /\ \A i \in DOMAIN locks : locks[i].ad_token = AdToken[locks[i].ad]
  /\ \A e \in Escrows, ad \in Ads : LocksOn(locks, e, ad) # {} =>
       /\ b[e][ad] # Nil /\ b[e][ad].open
       /\ b[e][ad].locked + Reserved(locks, e, ad) <= b[e][ad].balance

LockAll(b, locks) ==
  [e \in Escrows |-> [ad \in Ads |->
     IF LocksOn(locks, e, ad) = {} THEN b[e][ad]
     ELSE [b[e][ad] EXCEPT !.locked = @ + Reserved(locks, e, ad)]]]

\* An order ends: its lock goes back to the ad (finalize_cancel), or leaves it (a
\* payout), or part of each, in two steps (a payout whose LP fee stays).
OrderEnds(e, ad, amount, paid) ==
  /\ book[e][ad] # Nil /\ amount \in 1..book[e][ad].locked
  /\ book' = [book EXCEPT ![e][ad].locked = @ - amount,
                          ![e][ad].balance = IF paid THEN @ - amount ELSE @]
  /\ UNCHANGED <<now, adminVars, railVars, schedules, volumeVars, policyVars, rest, halted>>

-----------------------------------------------------------------------------
(* The owner's escrow calls.                                               *)

TokenFunctions == {"transfer", "transfer_from", "approve", "burn", "burn_from"}

InstantEscrowCalls ==
  {"create_ad", "fund_ad", "halt_settlement", "dispute", "respond_to_dispute",
   "finalize_dispute", "claim_cancel", "finalize_cancel", "cancel_never_locked",
   "repin_order", "unlock", "present_settled", "record_settled", "claim"}

\* check_owner_call: no token is reached; while guarded, only classified calls;
\* on a guarded ad what extracts is announced, or small and rate limited.
CheckOwnerCall(fn, args) ==
  LET ad == NamedAd(fn, args)
      amount == CallAmount(fn, args)
      g == GetGuardRail(ad)
      announced == fn \in {"close_ad", "set_settlement_signer"} \/ amount > g.threshold IN
  /\ fn \notin TokenFunctions
  /\ IF fn = "resume_settlement"
       THEN SpendIf(AnyGuarded, <<Me, fn>>, args) /\ UNCHANGED railVars
     ELSE IF fn \notin AdActions \ {"set_guard_rail"}
       THEN (AnyGuarded => fn \in InstantEscrowCalls) /\ UNCHANGED <<schedules, railVars>>
     ELSE /\ amount # Nil
          /\ IF ~IsGuarded(ad) THEN UNCHANGED <<schedules, railVars>>
             ELSE /\ g # Nil
                  /\ SpendIf(announced, <<ad, fn>>, args)
                  /\ IF announced THEN UNCHANGED railVars
                     ELSE /\ CanSpend(g.rate, g.bucket, amount, now)
                          /\ rails' = [rails EXCEPT ![ad].bucket =
                                         Spent(g.rate, g.bucket, amount, now)]
                          /\ railLeft' = [railLeft EXCEPT ![ad] = @ - amount]
                          /\ UNCHANGED <<roster, archived>>

\* Mutant: the balance is not compared after the call.
MovedUnchecked(t, paid, pulled, received) ==
  /\ rest[t] + paid + received >= pulled
  /\ rest' = [rest EXCEPT ![t] = @ + paid + received - pulled]

\* call_with: the owner pays in, the escrow pulls what an approval names and
\* may pay out to the account; a token that is paid in or approved must end
\* where it began.
Moved(t, paid, pulled, received) ==
  /\ paid + pulled > 0 => paid + received = pulled
  /\ rest[t] + paid + received \in pulled..MaxHeld + pulled
  /\ rest' = [rest EXCEPT ![t] = @ + paid + received - pulled]

ReceivedBy(to, amount) == IF to = Me THEN amount ELSE 0

\* create_ad, funded from the owner's wallet in this one call.
CreateAd(e, ad, amount, signer) ==
  /\ e \in targets
  /\ book[e][ad] = Nil /\ amount > 0
  /\ book' = [book EXCEPT ![e][ad] =
                [balance |-> amount, locked |-> 0, open |-> TRUE, signer |-> signer]]
  /\ Moved(AdToken[ad], amount, amount, 0)
  /\ UNCHANGED <<now, adminVars, railVars, schedules, volumeVars, policyVars, halted>>

\* fund_ad
FundAd(e, ad, amount) ==
  /\ e \in targets
  /\ book[e][ad] # Nil /\ book[e][ad].open
  /\ Deposited(e, ad, amount)
  /\ Moved(AdToken[ad], amount, amount, 0)
  /\ UNCHANGED <<now, adminVars, railVars, schedules, volumeVars, policyVars, halted>>

\* call, by the function it reaches.
CallWithdraw(e, ad, amount, to) ==
  /\ e \in targets
  /\ CheckOwnerCall("withdraw_from_ad", <<ad, amount, to>>)
  /\ Withdrawn(e, ad, amount)
  /\ Moved(AdToken[ad], 0, 0, ReceivedBy(to, amount))
  /\ UNCHANGED <<now, adminVars, volumeVars, policyVars, halted>>

CallClose(e, ad, to) ==
  /\ e \in targets
  /\ CheckOwnerCall("close_ad", <<ad, to>>)
  /\ Closed(e, ad)
  /\ Moved(AdToken[ad], 0, 0, ReceivedBy(to, book[e][ad].balance))
  /\ UNCHANGED <<now, adminVars, volumeVars, policyVars, halted>>

CallLock(o) ==
  /\ o.escrow \in targets
  /\ CheckOwnerCall("lock_for_order", <<o>>)
  /\ Scaled(o) \in Nat \ {0} /\ o.creator = Me /\ LocksFit(book, <<o>>)
  /\ book' = LockAll(book, <<o>>)
  /\ UNCHANGED <<now, adminVars, volumeVars, policyVars, rest, halted>>

CallRepoint(e, ad, signer) ==
  /\ e \in targets
  /\ CheckOwnerCall("set_settlement_signer", <<ad, signer>>)
  /\ book[e][ad] # Nil
  /\ book' = [book EXCEPT ![e][ad].signer = signer]
  /\ UNCHANGED <<now, adminVars, volumeVars, policyVars, rest, halted>>

CallHalt(fn) ==
  /\ targets \cap Escrows # {}
  /\ fn \in {"halt_settlement", "resume_settlement"}
  /\ CheckOwnerCall(fn, <<Me>>)
  /\ halted' = (fn = "halt_settlement")
  /\ UNCHANGED <<now, adminVars, volumeVars, policyVars, rest, book>>

\* Any other function, of an escrow or of a pinned token, with what it pays,
\* pulls and receives: a dispute's bond, a claimed credit.  A token's transfer
\* would need no approval, so no balance would be compared.
CallOther(fn, t, paid, pulled, received) ==
  /\ CheckOwnerCall(fn, <<t>>)
  /\ IF fn \in TokenFunctions
       THEN /\ targets \ Escrows # {}
            /\ pulled <= rest[t]
            /\ rest' = [rest EXCEPT ![t] = @ - pulled]
       ELSE /\ targets \cap Escrows # {}
            /\ Moved(t, paid, pulled, received)
  /\ UNCHANGED <<now, adminVars, volumeVars, policyVars, escrowVars>>

-----------------------------------------------------------------------------
(* The agents' locks.                                                      *)

\* ad_in_scope
AdInScope(p, ad) == p.ad_scope # Nil => ad \in p.ad_scope

\* check_contract_call up to its size checks: target, reach, size.
LockAllowed(p, o) ==
  /\ o.escrow \in targets
  /\ o.creator = Me
  /\ o.signer = p.settlement_signer
  /\ p.ad_tokens[o.ad_token] # Nil
  /\ o.order_token \in p.order_tokens
  /\ AdInScope(p, o.ad)
  /\ Scaled(o) # Nil
  /\ Scaled(o) \in 1..p.ad_tokens[o.ad_token].max_per_order

\* bucket_for, full when the token was never spent from
BucketFor(p, buckets, t) ==
  IF buckets[t] = Nil THEN Full(p.ad_tokens[t].rate, now) ELSE buckets[t]

\* Mutant: each context debits the policy as it was stored.
SpendVolumeOfStored(p, acc, o) ==
  LET t == o.ad_token
      rate == p.ad_tokens[t].rate
      bucket == BucketFor(p, p.buckets, t) IN
  [ ok      |-> acc.ok /\ CanSpend(rate, bucket, Scaled(o), now)
                /\ CanSpend(acc.volume[t].limit, acc.volume[t].bucket, Scaled(o), now),
    buckets |-> [acc.buckets EXCEPT ![t] = Spent(rate, bucket, Scaled(o), now)],
    volume  |-> [acc.volume EXCEPT ![t].bucket =
                   Spent(acc.volume[t].limit, acc.volume[t].bucket, Scaled(o), now)] ]

\* spend_volume: both buckets are checked, then both debited.
SpendVolume(p, acc, o) ==
  LET t == o.ad_token
      rate == p.ad_tokens[t].rate
      bucket == BucketFor(p, acc.buckets, t) IN
  [ ok      |-> acc.ok /\ CanSpend(rate, bucket, Scaled(o), now)
                /\ CanSpend(acc.volume[t].limit, acc.volume[t].bucket, Scaled(o), now),
    buckets |-> [acc.buckets EXCEPT ![t] = Spent(rate, bucket, Scaled(o), now)],
    volume  |-> [acc.volume EXCEPT ![t].bucket =
                   Spent(acc.volume[t].limit, acc.volume[t].bucket, Scaled(o), now)] ]

\* What the locks take of a token.
Taken(locks, t) ==
  SumOver({i \in DOMAIN locks : locks[i].ad_token = t}, AmountsOf(locks))

\* The agent's buckets and the account's after every lock of an entry, in order.
SpendAll(p, locks) ==
  FoldLeft(LAMBDA acc, o : SpendVolume(p, acc, o),
           [ok |-> TRUE, buckets |-> p.buckets, volume |-> volume], locks)

\* __check_auth for an agent, over every context of one entry, and the locks
\* it authorized: a failure anywhere takes the whole frame back.
CheckAuth(agent, locks) ==
  LET p == policies[agent]
      after == SpendAll(p, locks) IN
  /\ p # Nil /\ ~p.revoked
  /\ p.valid_until # 0 => now < p.valid_until
  /\ locks # <<>>
  /\ \A i \in 1..Len(locks) :
       LockAllowed(p, locks[i]) /\ volume[locks[i].ad_token] # Nil
  /\ after.ok
  /\ policies' = [policies EXCEPT ![agent].buckets = after.buckets]
  /\ volume' = after.volume
  /\ agentLeft' = [agentLeft EXCEPT ![agent] =
                     [t \in Tokens |-> @[t] - Taken(locks, t)]]
  /\ volumeLeft' = [t \in Tokens |-> volumeLeft[t] - Taken(locks, t)]
  /\ LocksFit(book, locks)
  /\ book' = LockAll(book, locks)
  /\ UNCHANGED <<now, adminVars, railVars, schedules, rest, halted>>

-----------------------------------------------------------------------------
(* Time and the ledger.                                                    *)

Refilled(left, limit) == Capped(left + limit.refill_per_second, limit.capacity)

Tick ==
  /\ now < MaxTime
  /\ now' = now + 1
  /\ railLeft' = [ad \in Ads |-> IF rails[ad] = Nil THEN 0
                                 ELSE Refilled(railLeft[ad], rails[ad].rate)]
  /\ volumeLeft' = [t \in Tokens |-> IF volume[t] = Nil THEN 0
                                     ELSE Refilled(volumeLeft[t], volume[t].limit)]
  /\ agentLeft' = [a \in Agents |-> [t \in Tokens |->
       IF policies[a] = Nil \/ t \notin AdTokens(policies[a]) THEN 0
       ELSE Refilled(agentLeft[a][t], policies[a].ad_tokens[t].rate)]]
  /\ UNCHANGED <<adminVars, rails, roster, archived, schedules, volume, policies, rest,
                 escrowVars>>

\* A guarded ad's row goes to the archive when nothing touches it, and back.
Archive(ad) ==
  /\ IsGuarded(ad)
  /\ archived' \in {archived \cup {ad}, archived \ {ad}}
  /\ UNCHANGED <<now, adminVars, rails, roster, railLeft, schedules, volumeVars, policyVars,
                 rest, escrowVars>>

AgentAccountNext ==
  \/ Tick \/ Migrate
  \/ \E ts \in TargetSets : SetTargets(ts)
  \/ \E t \in Tokens, limit \in Limits : SetAccountLimit(t, limit)
  \/ \E a \in Agents : RevokeAgent(a) \/ \E p \in Policies : SetPolicy(a, p)
  \/ \E ad \in Ads, g \in Settings \cup {Nil} : SetGuardRail(ad, g)
  \/ \E e \in Escrows, ad \in Ads : DisarmClosedAd(e, ad)
  \/ \E call \in Announcements : Schedule(call[1], call[2], call[3])
  \/ \E row \in Rows : Cancel(row)
  \/ \E w \in Wasms : Upgrade(w)
  \/ \E t \in Tokens, to \in Payees, amount \in Amounts : Sweep(t, to, amount)
  \/ \E e \in Escrows, ad \in Ads, amount \in Amounts :
       \/ FundAd(e, ad, amount)
       \/ \E s \in Signers : CreateAd(e, ad, amount, s)
       \/ \E to \in Payees : CallWithdraw(e, ad, amount, to)
       \/ \E paid \in BOOLEAN : OrderEnds(e, ad, amount, paid)
  \/ \E e \in Escrows, ad \in Ads :
       \/ \E to \in Payees : CallClose(e, ad, to)
       \/ \E s \in Signers : CallRepoint(e, ad, s)
  \/ \E fn \in {"halt_settlement", "resume_settlement"} : CallHalt(fn)
  \/ \E fn \in {"dispute", "claim", "transfer"}, t \in Tokens :
       \E paid, pulled, received \in {0} \cup Amounts : CallOther(fn, t, paid, pulled, received)
  \/ \E o \in Orders : CallLock(o)
  \/ \E a \in Agents : \E o \in Orders : CheckAuth(a, <<o>>) \/ \E q \in Orders : CheckAuth(a, <<o, q>>)
  \/ \E ad \in Ads : Archive(ad)

AgentAccountSpec == AgentAccountInit /\ [][AgentAccountNext]_agentAccountVars

-----------------------------------------------------------------------------
(* Properties.                                                             *)

\* Every row has its shape, a bucket never holds more than its capacity, and
\* the roster is exactly the ads with a row, archived or not.
AgentTypeOK ==
  LET WellFilled(limit, bucket) ==
        limit \in Limit /\ bucket \in Bucket /\ bucket.level <= limit.capacity IN
  /\ targets # {} /\ targets \subseteq Contracts
  /\ roster = {ad \in Ads : rails[ad] # Nil}
  /\ Cardinality(roster) <= MaxGuardedAds
  /\ archived \subseteq roster
  /\ \A ad \in roster : GuardBounds(rails[ad]) /\ WellFilled(rails[ad].rate, rails[ad].bucket)
  /\ \A row \in Rows : schedules[row] # Nil =>
       now >= schedules[row].announced /\ schedules[row].expires_at > schedules[row].ready_at
  /\ \A t \in Tokens :
       /\ rest[t] \in Nat
       /\ volume[t] # Nil => WellFilled(volume[t].limit, volume[t].bucket)
  /\ \A a \in Agents, t \in Tokens :
       policies[a] # Nil /\ policies[a].buckets[t] # Nil =>
         WellFilled(policies[a].ad_tokens[t].rate, policies[a].buckets[t])
  /\ \A e \in Escrows, ad \in Ads : book[e][ad] # Nil =>
       book[e][ad].locked \in 0..book[e][ad].balance

AgentAvailable(a, t) ==
  LET p == policies[a] IN
  IF p = Nil \/ t \notin AdTokens(p) THEN 0
  ELSE Available(p.ad_tokens[t].rate, BucketFor(p, p.buckets, t), now)

VolumeAvailable(t) ==
  IF volume[t] = Nil THEN 0 ELSE Available(volume[t].limit, volume[t].bucket, now)

RailAvailable(ad) ==
  IF rails[ad] = Nil THEN 0 ELSE Available(rails[ad].rate, rails[ad].bucket, now)

\* What a lazily refilled bucket would give is what one refilled every second,
\* debited by every spend and clamped by every change of its limit, has left:
\* no order of spends, waits, re-configurations and double entries gains or
\* loses an allowance (rate_limit.rs, set_account_limit, carry_buckets).
AllowanceIsExact ==
  /\ \A ad \in Ads : RailAvailable(ad) = railLeft[ad]
  /\ \A t \in Tokens : VolumeAvailable(t) = volumeLeft[t]
  /\ \A a \in Agents, t \in Tokens : AgentAvailable(a, t) = agentLeft[a][t]

\* The ads whose rails time a scope's rows.
TimedBy(scope) == IF scope = Me THEN roster ELSE {scope} \cap roster

\* A pending row opens no sooner after its announcement than the longest delay
\* that times its scope now, however often rails were armed and tightened since,
\* closes within its ad's present window, and does not outlive the rails it was
\* made under (49S-1, 81-6).
RowsWaitTheDelay ==
  \A row \in Rows : schedules[row] # Nil =>
    LET s == schedules[row] IN
    /\ TimedBy(row[1]) # {}
    /\ s.ready_at - s.announced >= Longest(TimedBy(row[1]))
    /\ row[1] # Me => s.expires_at - s.ready_at <= rails[row[1]].window

\* The step uses up an announcement of exactly this call, made at least the
\* delay now in force ago.
Announced(row, args) ==
  LET s == schedules[row] IN
  /\ s # Nil /\ s.args = args /\ now < s.expires_at
  /\ now - s.announced >= Longest(TimedBy(row[1]))
  /\ schedules'[row] = Nil

Inputs(record, added) == [x \in DOMAIN record \ added |-> record[x]]

\* What a policy lets its agent lock at time t, allowances aside.
MayLock(p, o, t) ==
  /\ p # Nil /\ ~p.revoked
  /\ p.valid_until = 0 \/ t < p.valid_until
  /\ o.signer = p.settlement_signer /\ o.order_token \in p.order_tokens
  /\ AdInScope(p, o.ad) /\ p.ad_tokens[o.ad_token] # Nil
  /\ Scaled(o) # Nil /\ Scaled(o) \in 1..p.ad_tokens[o.ad_token].max_per_order

AgentWidened(a) ==
  \/ \E o \in Orders, t \in now..MaxTime :
       MayLock(policies'[a], o, t) /\ ~MayLock(policies[a], o, t)
  \/ now' = now /\ \E t \in Tokens : AgentAvailable(a, t)' > AgentAvailable(a, t)

RailWeakened(ad) ==
  \/ rails'[ad] = Nil
  \/ rails'[ad].threshold > rails[ad].threshold \/ rails'[ad].delay < rails[ad].delay
  \/ rails'[ad].window > rails[ad].window
  \/ rails'[ad].rate.capacity > rails[ad].rate.capacity
  \/ rails'[ad].rate.refill_per_second > rails[ad].rate.refill_per_second
  \/ now' = now /\ RailAvailable(ad)' > RailAvailable(ad)

\* A rail that comes off a dead ad at once leaves the account as well guarded.
DeadAdDisarmed(ad) ==
  /\ rails'[ad] = Nil
  /\ \E e \in targets \cap Escrows : IsClosedAd(e, ad)
  /\ Longest(roster)' >= Longest(roster) /\ Shortest(roster)' <= Shortest(roster)

ReachKept == targets' \subseteq targets \/ Announced(<<Me, "set_targets">>, <<targets'>>)
CodeKept  == code' = code \/ Announced(<<Me, "upgrade">>, <<code'>>)
HaltKept  == (halted /\ ~halted') => Announced(<<Me, "resume_settlement">>, <<Me>>)

RestKept(t) ==
  rest'[t] < rest[t] =>
    \E to \in Payees : Announced(<<Me, "sweep">>, <<t, to, rest[t] - rest'[t]>>)

LimitRaised(t) ==
  /\ volume'[t] # volume[t]
  /\ \/ volume[t] = Nil
     \/ volume'[t].limit.capacity > volume[t].limit.capacity
     \/ volume'[t].limit.refill_per_second > volume[t].limit.refill_per_second

LimitKept(t) ==
  LimitRaised(t) => Announced(<<Me, "set_account_limit">>, <<t, volume'[t].limit>>)

AgentKept(a) ==
  AgentWidened(a) =>
    Announced(<<Me, "set_policy">>, <<a, Inputs(policies'[a], {"revoked", "buckets"})>>)

RailKept(ad) ==
  RailWeakened(ad) =>
    \/ DeadAdDisarmed(ad)
    \/ Announced(<<ad, "set_guard_rail">>,
         <<ad, IF rails'[ad] = Nil THEN Nil ELSE Inputs(rails'[ad], {"bucket"})>>)

AdKept(e, ad) ==
  book[e][ad] # Nil =>
    /\ book'[e][ad].signer # book[e][ad].signer =>
         Announced(<<ad, "set_settlement_signer">>, <<ad, book'[e][ad].signer>>)
    /\ book[e][ad].open /\ ~book'[e][ad].open =>
         \E to \in Payees : Announced(<<ad, "close_ad">>, <<ad, to>>)

\* While any ad is guarded, no step widens what the owner's or an agent's key can
\* do (a new target, new code, funds leaving rest, settlement resumed, a higher
\* limit, an agent allowed one order or one unit more, a weaker rail, another
\* signer, a closed ad) unless it uses up its own announcement, made at least
\* the longest delay now in force before.
WideningStep ==
  AnyGuarded =>
    /\ ReachKept /\ CodeKept /\ HaltKept
    /\ \A t \in Tokens : RestKept(t) /\ LimitKept(t)
    /\ \A a \in Agents : AgentKept(a)
    /\ \A ad \in roster : RailKept(ad)
    /\ \A e \in Escrows, ad \in roster : AdKept(e, ad)

WideningIsAnnounced == [][WideningStep]_agentAccountVars

\* How much of an ad's free liquidity the step takes.
Outflow(e, ad) ==
  IF book[e][ad] = Nil THEN 0 ELSE Free(e, ad) - Free(e, ad)'

TokenOutflow(t) ==
  SumOver({x \in Escrows \X Ads : AdToken[x[2]] = t},
          [x \in Escrows \X Ads |-> Outflow(x[1], x[2])])

\* Whatever leaves a guarded ad's liquidity was announced; or is at most the
\* threshold and comes off the rail's allowance; or was locked by an agent, and
\* comes off its allowance and the account's, whole, however many locks one
\* entry carries (spend_volume, check_owner_call).
OutflowStep ==
  \A e \in Escrows, ad \in roster : Outflow(e, ad) > 0 =>
    LET d == Outflow(e, ad) IN
    \/ \E to \in Payees : \/ Announced(<<ad, "withdraw_from_ad">>, <<ad, d, to>>)
                          \/ Announced(<<ad, "close_ad">>, <<ad, to>>)
    \/ \E o \in Orders : Scaled(o) = d /\ Announced(<<ad, "lock_for_order">>, <<o>>)
    \/ d <= rails[ad].threshold /\ RailAvailable(ad) - RailAvailable(ad)' = d
    \/ \E a \in Agents : \A t \in Tokens :
         /\ AgentAvailable(a, t) - AgentAvailable(a, t)' = TokenOutflow(t)
         /\ VolumeAvailable(t) - VolumeAvailable(t)' = TokenOutflow(t)

OutflowIsCharged == [][OutflowStep]_agentAccountVars

-----------------------------------------------------------------------------
(* What the code's types say of the inputs and of what is stored.          *)

GuardSettings == [threshold : Nat, delay : Nat, window : Nat, rate : Limit]
GuardRow == [threshold : Nat, delay : Nat, window : Nat, rate : Limit, bucket : Bucket]

TokenRules  == [Tokens -> [max_per_order : Nat, rate : Limit] \cup {Nil}]
PolicyInput ==
  [ ad_tokens : TokenRules, order_tokens : SUBSET Tokens, valid_until : Nat,
    settlement_signer : Signers, ad_scope : SUBSET Ads \cup {Nil} ]

OrderInput ==
  [ escrow : Escrows, ad : Ads, creator : {Me} \cup Payees, signer : Signers,
    ad_token : Tokens, order_token : Tokens, amount : Nat, order_decimals : Nat,
    ad_decimals : Nat ]

AgentRow ==
  [ ad_tokens : TokenRules, order_tokens : SUBSET Tokens, valid_until : Nat,
    settlement_signer : Signers, ad_scope : SUBSET Ads \cup {Nil}, revoked : BOOLEAN,
    buckets : [Tokens -> Bucket \cup {Nil}] ]
AccountVolume == [limit : Limit, bucket : Bucket]
ScheduleRow ==
  [ args : {call[3] : call \in Announcements}, ready_at : Nat, expires_at : Nat,
    announced : Nat ]
AdRow == [balance : Nat, locked : Nat, open : BOOLEAN, signer : Signers]

\* No row of storage reads as an absent one, and the account is no ad.
ASSUME AgentAccountAssumption ==
  /\ Me \notin Ads
  /\ Nil \notin Int \cup GuardSettings \cup GuardRow \cup AccountVolume \cup Bucket \cup AdRow
  /\ Nil \notin [max_per_order : Nat, rate : Limit] /\ Nil \notin ScheduleRow \cup AgentRow
  /\ AdToken \in [Ads -> Tokens]
  /\ TargetSets \subseteq SUBSET Contracts
  /\ Settings \subseteq GuardSettings /\ Limits \subseteq Limit
  /\ Policies \subseteq PolicyInput /\ Orders \subseteq OrderInput
  /\ \A call \in Announcements : call[1] \in Ads \cup {Me}
  /\ Amounts \subseteq Nat
  /\ MaxGuardedAds \in Nat /\ MaxGuardDelay \in Nat /\ MinGuardWindow \in Nat
  /\ Forever \in Nat \ {0} /\ MaxHeld \in Nat

\* An address is 32 bytes, and an ad id a string of at most MAX_AD_ID_BYTES (policy.rs).
ASSUME FiniteBook == IsFiniteSet(Escrows) /\ IsFiniteSet(Ads)
=============================================================================
