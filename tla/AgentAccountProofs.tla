------------------------- MODULE AgentAccountProofs -------------------------
(***************************************************************************)
(* The agent account: its rows keep their shape, every allowance gives     *)
(* exactly what one refilled each second would, a pending announcement     *)
(* waits the delay that times it now, whatever widens a key's reach was    *)
(* announced, and whatever leaves a guarded ad was announced or charged.   *)
(***************************************************************************)
EXTENDS AgentAccount, SumsProofs, TLAPS

-----------------------------------------------------------------------------
(* The refilling allowance (RateLimit).                                    *)

\* A bucket that is never read before it was written, nor overfull.
GoodBucket(limit, bucket, n) ==
  /\ limit \in Limit /\ bucket \in Bucket
  /\ bucket.level <= limit.capacity /\ bucket.last_ts <= n

\* What is available is never more than the capacity.
LEMMA AvailableType ==
  ASSUME NEW limit \in Limit, NEW bucket \in Bucket, NEW n \in Nat
  PROVE /\ Available(limit, bucket, n) \in Nat
        /\ Available(limit, bucket, n) <= limit.capacity
<1> DEFINE elapsed == IF n > bucket.last_ts THEN n - bucket.last_ts ELSE 0
<1>1. /\ limit.capacity \in Nat /\ limit.refill_per_second \in Nat
      /\ bucket.level \in Nat /\ bucket.last_ts \in Nat
  BY DEF Limit, Bucket
<1>2. elapsed \in Nat
  BY <1>1
<1>3. limit.refill_per_second * elapsed \in Nat
  BY <1>1, <1>2
<1>4. Available(limit, bucket, n) =
        Capped(bucket.level + limit.refill_per_second * elapsed, limit.capacity)
  BY DEF Available
<1> HIDE DEF elapsed
<1>5. PICK gained \in Nat : gained = limit.refill_per_second * elapsed
  BY <1>3
<1>6. QED BY <1>1, <1>4, <1>5 DEF Capped

\* A full bucket gives its capacity, whenever it is read.
LEMMA FullBucket ==
  ASSUME NEW limit \in Limit, NEW n \in Nat
  PROVE /\ GoodBucket(limit, Full(limit, n), n)
        /\ Available(limit, Full(limit, n), n) = limit.capacity
<1>1. limit.capacity \in Nat /\ limit.refill_per_second \in Nat
  BY DEF Limit
<1>2. Full(limit, n) = [level |-> limit.capacity, last_ts |-> n]
  BY DEF Full
<1>3. Full(limit, n) \in Bucket
  BY <1>1, <1>2 DEF Bucket
<1>4. limit.refill_per_second * 0 = 0
  BY <1>1
<1>5. Available(limit, Full(limit, n), n) = Capped(limit.capacity + 0, limit.capacity)
  BY <1>2, <1>4 DEF Available
<1>6. QED BY <1>1, <1>2, <1>3, <1>5 DEF GoodBucket, Capped

\* A bucket written now gives what was written, up to the capacity.
LEMMA FreshBucket ==
  ASSUME NEW limit \in Limit, NEW n \in Nat, NEW amount \in Nat, amount <= limit.capacity
  PROVE /\ GoodBucket(limit, [level |-> amount, last_ts |-> n], n)
        /\ Available(limit, [level |-> amount, last_ts |-> n], n) = amount
<1>1. limit.capacity \in Nat /\ limit.refill_per_second \in Nat
  BY DEF Limit
<1>2. limit.refill_per_second * 0 = 0
  BY <1>1
<1>3. [level |-> amount, last_ts |-> n] \in Bucket
  BY DEF Bucket
<1>4. Available(limit, [level |-> amount, last_ts |-> n], n) =
        Capped(amount + 0, limit.capacity)
  BY <1>2 DEF Available
<1>5. QED BY <1>1, <1>3, <1>4 DEF GoodBucket, Capped

\* A second refills a lazy bucket exactly as it refills one kept every second.
LEMMA BucketTicks ==
  ASSUME NEW limit, NEW bucket, NEW n \in Nat, GoodBucket(limit, bucket, n)
  PROVE /\ GoodBucket(limit, bucket, n + 1)
        /\ Available(limit, bucket, n + 1) = Refilled(Available(limit, bucket, n), limit)
<1>1. /\ limit.capacity \in Nat /\ limit.refill_per_second \in Nat
      /\ bucket.level \in Nat /\ bucket.last_ts \in Nat /\ bucket.last_ts <= n
  BY DEF GoodBucket, Limit, Bucket
<1>2. PICK e \in Nat : e = n - bucket.last_ts
  BY <1>1
<1>3. PICK r \in Nat : r = limit.refill_per_second
  BY <1>1
<1>4. r * (e + 1) = r * e + r
  OBVIOUS
<1>5. PICK q \in Nat : q = r * e
  OBVIOUS
<1>6. Available(limit, bucket, n) = Capped(bucket.level + q, limit.capacity)
  <2>1. (IF n > bucket.last_ts THEN n - bucket.last_ts ELSE 0) = e
    BY <1>1, <1>2
  <2>2. QED BY <2>1, <1>3, <1>5 DEF Available
<1>7. Available(limit, bucket, n + 1) = Capped(bucket.level + (q + r), limit.capacity)
  <2>1. (IF n + 1 > bucket.last_ts THEN (n + 1) - bucket.last_ts ELSE 0) = e + 1
    BY <1>1, <1>2
  <2>2. QED BY <2>1, <1>3, <1>4, <1>5 DEF Available
<1>8. QED BY <1>1, <1>3, <1>6, <1>7 DEF GoodBucket, Refilled, Capped

\* Settling under a new limit keeps what was available, up to the new capacity.
LEMMA SettledBucket ==
  ASSUME NEW old, NEW new \in Limit, NEW bucket, NEW n \in Nat, GoodBucket(old, bucket, n)
  PROVE /\ GoodBucket(new, Settle(old, new, bucket, n), n)
        /\ Available(new, Settle(old, new, bucket, n), n) =
             Capped(Available(old, bucket, n), new.capacity)
<1>1. Available(old, bucket, n) \in Nat
  BY AvailableType DEF GoodBucket
<1>2. new.capacity \in Nat
  BY DEF Limit
<1>3. PICK left \in Nat : left = Capped(Available(old, bucket, n), new.capacity)
  BY <1>1, <1>2 DEF Capped
<1>4. left <= new.capacity
  BY <1>1, <1>2, <1>3 DEF Capped
<1>5. Settle(old, new, bucket, n) = [level |-> left, last_ts |-> n]
  BY <1>3 DEF Settle
<1>6. QED BY <1>3, <1>4, <1>5, FreshBucket

\* A spend takes exactly itself off what is available.
LEMMA SpentBucket ==
  ASSUME NEW limit, NEW bucket, NEW n \in Nat, GoodBucket(limit, bucket, n),
         NEW spend \in Nat, CanSpend(limit, bucket, spend, n)
  PROVE /\ GoodBucket(limit, Spent(limit, bucket, spend, n), n)
        /\ Available(limit, Spent(limit, bucket, spend, n), n) =
             Available(limit, bucket, n) - spend
<1>1. PICK left \in Nat : left = Available(limit, bucket, n)
  BY AvailableType DEF GoodBucket
<1>2. left <= limit.capacity /\ spend <= left /\ limit.capacity \in Nat
  BY <1>1, AvailableType DEF GoodBucket, CanSpend, Limit
<1>3. bucket.last_ts \in Nat /\ bucket.last_ts <= n
  BY DEF GoodBucket, Bucket
<1>4. Spent(limit, bucket, spend, n) = [level |-> left - spend, last_ts |-> n]
  BY <1>1, <1>3 DEF Spent
<1>5. left - spend \in Nat /\ left - spend <= limit.capacity /\ limit \in Limit
  BY <1>2 DEF GoodBucket
<1>6. QED BY <1>1, <1>4, <1>5, FreshBucket

-----------------------------------------------------------------------------
(* The guardrails.                                                         *)

RailsInv ==
  /\ now \in Nat
  /\ rails \in [Ads -> GuardRow \cup {Nil}]
  /\ railLeft \in [Ads -> Nat]
  /\ roster = {ad \in Ads : rails[ad] # Nil}
  /\ IsFiniteSet(roster) /\ Cardinality(roster) <= MaxGuardedAds
  /\ archived \subseteq roster
  /\ \A ad \in roster :
       GuardBounds(rails[ad]) /\ GoodBucket(rails[ad].rate, rails[ad].bucket, now)
  /\ \A ad \in Ads : RailAvailable(ad) = railLeft[ad]

LEMMA RailsInit == AgentAccountInit => RailsInv
<1> SUFFICES ASSUME AgentAccountInit PROVE RailsInv
  OBVIOUS
<1>1. /\ now = 1 /\ rails = [ad \in Ads |-> Nil] /\ roster = {} /\ archived = {}
      /\ railLeft = [ad \in Ads |-> 0]
  BY DEF AgentAccountInit
<1>2. IsFiniteSet({}) /\ Cardinality({}) = 0 /\ MaxGuardedAds \in Nat
  BY FS_EmptySet, AgentAccountAssumption
<1>3. QED BY <1>1, <1>2 DEF RailsInv, RailAvailable

\* A row written whole, with its allowance beside it: armed, re-set or debited.
LEMMA RailWritten ==
  ASSUME RailsInv, now' = now, NEW ad \in Ads, NEW row \in GuardRow,
         GuardBounds(row), GoodBucket(row.rate, row.bucket, now),
         ad \in roster \/ Cardinality(roster) < MaxGuardedAds,
         rails' = [rails EXCEPT ![ad] = row],
         railLeft' = [railLeft EXCEPT ![ad] = Available(row.rate, row.bucket, now)],
         roster' = roster \cup {ad}, archived' = archived
  PROVE RailsInv'
<1>1. row # Nil
  BY AgentAccountAssumption
<1>2. roster' = {a \in Ads : rails'[a] # Nil}
  BY <1>1 DEF RailsInv
<1>3. IsFiniteSet(roster') /\ Cardinality(roster') <= MaxGuardedAds
  <2>1. CASE ad \in roster
    <3>1. roster' = roster
      BY <2>1
    <3>2. QED BY <3>1 DEF RailsInv
  <2>2. CASE ad \notin roster
    <3>1. IsFiniteSet(roster) /\ Cardinality(roster) \in Nat /\ Cardinality(roster) < MaxGuardedAds
      BY <2>2, FS_CardinalityType DEF RailsInv
    <3>2. Cardinality(roster \cup {ad}) = Cardinality(roster) + 1 /\ IsFiniteSet(roster \cup {ad})
      BY <2>2, <3>1, FS_AddElement
    <3>3. MaxGuardedAds \in Nat
      BY AgentAccountAssumption
    <3>4. QED BY <3>1, <3>2, <3>3
  <2>3. QED BY <2>1, <2>2
<1>4. row.rate \in Limit /\ row.bucket \in Bucket
  BY DEF GuardRow
<1>5. Available(row.rate, row.bucket, now) \in Nat
  BY <1>4, AvailableType DEF RailsInv
<1>6. railLeft' \in [Ads -> Nat] /\ rails' \in [Ads -> GuardRow \cup {Nil}]
  BY <1>5 DEF RailsInv
<1>7. ASSUME NEW a \in Ads PROVE RailAvailable(a)' = railLeft'[a]
  <2>1. CASE a = ad
    BY <2>1, <1>1 DEF RailAvailable, RailsInv
  <2>2. CASE a # ad
    BY <2>2 DEF RailAvailable, RailsInv
  <2>3. QED BY <2>1, <2>2
<1>8. ASSUME NEW a \in roster'
      PROVE GuardBounds(rails'[a]) /\ GoodBucket(rails'[a].rate, rails'[a].bucket, now')
  <2>1. CASE a = ad
    BY <2>1 DEF RailsInv
  <2>2. CASE a # ad
    BY <2>2 DEF RailsInv
  <2>3. QED BY <2>1, <2>2
<1>9. now' \in Nat /\ archived' \subseteq roster'
  BY DEF RailsInv
<1>10. QED BY <1>2, <1>3, <1>6, <1>7, <1>8, <1>9 DEF RailsInv

\* A rail comes off.
LEMMA RailDisarmed ==
  ASSUME RailsInv, now' = now, NEW ad \in Ads, Disarm(ad)
  PROVE RailsInv'
<1>1. /\ rails' = [rails EXCEPT ![ad] = Nil] /\ railLeft' = [railLeft EXCEPT ![ad] = 0]
      /\ roster' = roster \ {ad} /\ archived' = archived \ {ad}
  BY DEF Disarm
<1>2. IsFiniteSet(roster') /\ Cardinality(roster') <= MaxGuardedAds
  <2>1. IsFiniteSet(roster) /\ Cardinality(roster) <= MaxGuardedAds
    BY DEF RailsInv
  <2>2. IsFiniteSet(roster \ {ad}) /\ Cardinality(roster \ {ad}) <= Cardinality(roster)
    BY <2>1, FS_Subset
  <2>3. /\ Cardinality(roster) \in Nat /\ Cardinality(roster \ {ad}) \in Nat
        /\ MaxGuardedAds \in Nat
    BY <2>1, <2>2, FS_CardinalityType, AgentAccountAssumption
  <2>4. QED BY <1>1, <2>1, <2>2, <2>3
<1>3. \A a \in Ads : RailAvailable(a)' = railLeft'[a]
  BY <1>1 DEF RailAvailable, RailsInv
<1>4. \A a \in roster' :
        GuardBounds(rails'[a]) /\ GoodBucket(rails'[a].rate, rails'[a].bucket, now')
  BY <1>1 DEF RailsInv
<1>5. QED BY <1>1, <1>2, <1>3, <1>4 DEF RailsInv

LEMMA RailsSame ==
  ASSUME RailsInv, now' = now, UNCHANGED railVars PROVE RailsInv'
BY DEF RailsInv, railVars, RailAvailable

LEMMA RailsTick ==
  ASSUME RailsInv, Tick PROVE RailsInv'
<1>1. /\ now' = now + 1 /\ UNCHANGED <<rails, roster, archived>>
      /\ railLeft' = [ad \in Ads |-> IF rails[ad] = Nil THEN 0
                                     ELSE Refilled(railLeft[ad], rails[ad].rate)]
  BY DEF Tick
<1>2. ASSUME NEW ad \in roster
      PROVE /\ GoodBucket(rails[ad].rate, rails[ad].bucket, now + 1)
            /\ Available(rails[ad].rate, rails[ad].bucket, now + 1) =
                 Refilled(railLeft[ad], rails[ad].rate)
            /\ Refilled(railLeft[ad], rails[ad].rate) \in Nat
  <2>1. GoodBucket(rails[ad].rate, rails[ad].bucket, now) /\ now \in Nat
    BY DEF RailsInv
  <2>2. /\ GoodBucket(rails[ad].rate, rails[ad].bucket, now + 1)
        /\ Available(rails[ad].rate, rails[ad].bucket, now + 1) =
             Refilled(Available(rails[ad].rate, rails[ad].bucket, now), rails[ad].rate)
    BY <2>1, BucketTicks
  <2>3. Available(rails[ad].rate, rails[ad].bucket, now) = railLeft[ad]
    BY DEF RailsInv, RailAvailable
  <2>4. rails[ad].rate \in Limit /\ rails[ad].bucket \in Bucket /\ now + 1 \in Nat
    BY <2>1 DEF GoodBucket
  <2>5. QED BY <2>2, <2>3, <2>4, AvailableType
<1>3. railLeft' \in [Ads -> Nat]
  BY <1>1, <1>2 DEF RailsInv
<1>4. \A ad \in Ads : RailAvailable(ad)' = railLeft'[ad]
  BY <1>1, <1>2 DEF RailAvailable, RailsInv
<1>5. QED BY <1>1, <1>2, <1>3, <1>4 DEF RailsInv

\* set_guard_rail: the row it writes keeps what the old one had left.
LEMMA RailsSetGuardRail ==
  ASSUME RailsInv, NEW ad \in Ads, NEW g \in Settings \cup {Nil}, SetGuardRail(ad, g)
  PROVE RailsInv'
<1>1. now' = now
  BY DEF SetGuardRail
<1>2. CASE g = Nil
  BY <1>1, <1>2, RailDisarmed DEF SetGuardRail
<1>3. CASE g # Nil
  <2> DEFINE cur == GetGuardRail(ad)
             bucket == IF cur = Nil THEN Full(g.rate, now)
                       ELSE Settle(cur.rate, g.rate, cur.bucket, now)
             row == RailRow(g, bucket)
  <2>1. g \in GuardSettings
    BY <1>3, AgentAccountAssumption
  <2>2. g.rate \in Limit /\ now \in Nat
    BY <2>1 DEF GuardSettings, RailsInv
  <2>3. /\ GuardBounds(g)
        /\ cur = Nil => ad \notin roster
        /\ ad \in roster \/ Cardinality(roster) < MaxGuardedAds
        /\ rails' = [rails EXCEPT ![ad] = row]
        /\ railLeft' = [railLeft EXCEPT ![ad] =
             IF cur = Nil THEN g.rate.capacity ELSE Capped(railLeft[ad], g.rate.capacity)]
        /\ roster' = roster \cup {ad} /\ archived' = archived
    BY <1>3 DEF SetGuardRail, IsGuarded
  <2>4. cur # Nil => cur = rails[ad] /\ ad \in roster
    BY DEF GetGuardRail, RailsInv
  <2>5. /\ GoodBucket(g.rate, bucket, now)
        /\ Available(g.rate, bucket, now) =
             IF cur = Nil THEN g.rate.capacity ELSE Capped(railLeft[ad], g.rate.capacity)
    <3>1. CASE cur = Nil
      BY <3>1, <2>2, FullBucket
    <3>2. CASE cur # Nil
      <4>1. GoodBucket(cur.rate, cur.bucket, now)
        BY <3>2, <2>4 DEF RailsInv
      <4>2. Available(cur.rate, cur.bucket, now) = railLeft[ad]
        BY <3>2, <2>4 DEF RailsInv, RailAvailable
      <4>3. QED BY <3>2, <4>1, <4>2, <2>2, SettledBucket
    <3>3. QED BY <3>1, <3>2
  <2> HIDE DEF bucket, cur
  <2>6. bucket \in Bucket
    BY <2>5 DEF GoodBucket
  <2>7. row \in GuardRow /\ row.rate = g.rate /\ row.bucket = bucket
    BY <2>1, <2>6 DEF RailRow, GuardRow, GuardSettings
  <2>8. GuardBounds(row)
    BY <2>3 DEF GuardBounds, RailRow
  <2> HIDE DEF row
  <2>9. QED BY <1>1, <2>3, <2>5, <2>7, <2>8, RailWritten
<1>4. QED BY <1>2, <1>3

\* check_owner_call: an instant call comes off the ad's allowance.
LEMMA RailsOwnerCall ==
  ASSUME RailsInv, now' = now, NEW fn, NEW args, CheckOwnerCall(fn, args),
         fn \in {"withdraw_from_ad", "lock_for_order"} => CallAmount(fn, args) \in Nat
  PROVE RailsInv'
<1> DEFINE ad == NamedAd(fn, args)
           amount == CallAmount(fn, args)
           g == GetGuardRail(ad)
           spent == Spent(g.rate, g.bucket, amount, now)
<1>1. CASE UNCHANGED railVars
  BY <1>1, RailsSame
<1>2. CASE ~UNCHANGED railVars
  <2>1. /\ fn \in AdActions \ {"set_guard_rail"}
        /\ ad \in roster /\ g # Nil
        /\ ~(fn \in {"close_ad", "set_settlement_signer"} \/ amount > g.threshold)
        /\ CanSpend(g.rate, g.bucket, amount, now)
        /\ rails' = [rails EXCEPT ![ad].bucket = spent]
        /\ railLeft' = [railLeft EXCEPT ![ad] = railLeft[ad] - amount]
        /\ UNCHANGED <<roster, archived>>
    BY <1>2 DEF CheckOwnerCall, IsGuarded
  <2>2. amount \in Nat
    BY <2>1 DEF AdActions
  <2>3. g = rails[ad] /\ ad \in Ads /\ now \in Nat /\ g \in GuardRow
    BY <2>1 DEF GetGuardRail, RailsInv
  <2>4. GoodBucket(g.rate, g.bucket, now) /\ GuardBounds(g)
    BY <2>1, <2>3 DEF RailsInv
  <2>5. Available(g.rate, g.bucket, now) = railLeft[ad]
    BY <2>1, <2>3 DEF RailsInv, RailAvailable
  <2>6. GoodBucket(g.rate, spent, now) /\ Available(g.rate, spent, now) = railLeft[ad] - amount
    BY <2>1, <2>2, <2>3, <2>4, <2>5, SpentBucket
  <2> HIDE DEF spent
  <2>7. PICK row : row = [g EXCEPT !.bucket = spent]
    OBVIOUS
  <2>8. spent \in Bucket
    BY <2>6 DEF GoodBucket
  <2>9. row \in GuardRow /\ row.rate = g.rate /\ row.bucket = spent /\ GuardBounds(row)
    BY <2>3, <2>4, <2>7, <2>8 DEF GuardRow, GuardBounds
  <2>10. rails' = [rails EXCEPT ![ad] = row]
    BY <2>1, <2>3, <2>7
  <2>11. roster' = roster \cup {ad} /\ archived' = archived
    BY <2>1
  <2> HIDE DEF ad, amount, g
  <2>12. QED BY <2>1, <2>3, <2>6, <2>9, <2>10, <2>11, RailWritten
<1>3. QED BY <1>1, <1>2

LEMMA RailsStep ==
  ASSUME RailsInv, [AgentAccountNext]_agentAccountVars PROVE RailsInv'
<1>1. CASE UNCHANGED agentAccountVars
  BY <1>1, RailsSame DEF agentAccountVars
<1>2. CASE Tick
  BY <1>2, RailsTick
<1>3. CASE Migrate
  BY <1>3, RailsSame DEF Migrate
<1>4. ASSUME NEW ts \in TargetSets, SetTargets(ts) PROVE RailsInv'
  BY <1>4, RailsSame DEF SetTargets
<1>5. ASSUME NEW t \in Tokens, NEW limit \in Limits, SetAccountLimit(t, limit) PROVE RailsInv'
  BY <1>5, RailsSame DEF SetAccountLimit
<1>6. ASSUME NEW a \in Agents, RevokeAgent(a) PROVE RailsInv'
  BY <1>6, RailsSame DEF RevokeAgent
<1>7. ASSUME NEW a \in Agents, NEW p \in Policies, SetPolicy(a, p) PROVE RailsInv'
  BY <1>7, RailsSame DEF SetPolicy
<1>8. ASSUME NEW ad \in Ads, NEW g \in Settings \cup {Nil}, SetGuardRail(ad, g) PROVE RailsInv'
  BY <1>8, RailsSetGuardRail
<1>9. ASSUME NEW e \in Escrows, NEW ad \in Ads, DisarmClosedAd(e, ad) PROVE RailsInv'
  BY <1>9, RailDisarmed DEF DisarmClosedAd
<1>10. ASSUME NEW call \in Announcements, Schedule(call[1], call[2], call[3]) PROVE RailsInv'
  BY <1>10, RailsSame DEF Schedule
<1>11. ASSUME NEW row \in Rows, Cancel(row) PROVE RailsInv'
  BY <1>11, RailsSame DEF Cancel
<1>12. ASSUME NEW w \in Wasms, Upgrade(w) PROVE RailsInv'
  BY <1>12, RailsSame DEF Upgrade
<1>13. ASSUME NEW t \in Tokens, NEW to \in Payees, NEW amount \in Amounts, Sweep(t, to, amount)
       PROVE RailsInv'
  BY <1>13, RailsSame DEF Sweep
<1>14. ASSUME NEW e \in Escrows, NEW ad \in Ads, NEW amount \in Amounts
       PROVE /\ FundAd(e, ad, amount) => RailsInv'
             /\ \A s \in Signers : CreateAd(e, ad, amount, s) => RailsInv'
             /\ \A paid \in BOOLEAN : OrderEnds(e, ad, amount, paid) => RailsInv'
  BY RailsSame DEF FundAd, CreateAd, OrderEnds
<1>15. ASSUME NEW e \in Escrows, NEW ad \in Ads, NEW amount \in Amounts, NEW to \in Payees,
              CallWithdraw(e, ad, amount, to)
       PROVE RailsInv'
  <2>1. CheckOwnerCall("withdraw_from_ad", <<ad, amount, to>>) /\ now' = now
    BY <1>15 DEF CallWithdraw
  <2>2. CallAmount("withdraw_from_ad", <<ad, amount, to>>) \in Nat
    BY AgentAccountAssumption DEF CallAmount
  <2>3. QED BY <2>1, <2>2, RailsOwnerCall
<1>16. ASSUME NEW e \in Escrows, NEW ad \in Ads, NEW to \in Payees, CallClose(e, ad, to)
       PROVE RailsInv'
  BY <1>16, RailsOwnerCall DEF CallClose
<1>17. ASSUME NEW e \in Escrows, NEW ad \in Ads, NEW s \in Signers, CallRepoint(e, ad, s)
       PROVE RailsInv'
  BY <1>17, RailsOwnerCall DEF CallRepoint
<1>18. ASSUME NEW fn \in {"halt_settlement", "resume_settlement"}, CallHalt(fn) PROVE RailsInv'
  BY <1>18, RailsOwnerCall DEF CallHalt
<1>19. ASSUME NEW fn \in {"dispute", "claim", "transfer"}, NEW t \in Tokens, NEW paid, NEW pulled,
              NEW received, CallOther(fn, t, paid, pulled, received)
       PROVE RailsInv'
  BY <1>19, RailsOwnerCall DEF CallOther
<1>20. ASSUME NEW o \in Orders, CallLock(o) PROVE RailsInv'
  <2>1. CheckOwnerCall("lock_for_order", <<o>>) /\ now' = now /\ Scaled(o) \in Nat
    BY <1>20 DEF CallLock
  <2>2. CallAmount("lock_for_order", <<o>>) \in Nat
    BY <2>1 DEF CallAmount
  <2>3. QED BY <2>1, <2>2, RailsOwnerCall
<1>21. ASSUME NEW a \in Agents, NEW locks, CheckAuth(a, locks) PROVE RailsInv'
  BY <1>21, RailsSame DEF CheckAuth
<1>22. ASSUME NEW ad \in Ads, Archive(ad) PROVE RailsInv'
  BY <1>22 DEF Archive, RailsInv, RailAvailable, IsGuarded
<1>23. CASE AgentAccountNext
  BY <1>23, <1>2, <1>3, <1>4, <1>5, <1>6, <1>7, <1>8, <1>9, <1>10, <1>11, <1>12, <1>13, <1>14,
     <1>15, <1>16, <1>17, <1>18, <1>19, <1>20, <1>21, <1>22 DEF AgentAccountNext
<1>24. QED BY <1>1, <1>23

-----------------------------------------------------------------------------
(* The longest delay and the shortest window.                              *)

\* A set of naturals that is not empty has a least element.
LEMMA LeastExists ==
  ASSUME NEW T \in SUBSET Nat, T # {}
  PROVE \E x \in T : \A y \in T : x <= y
<1>1. PICK n \in T : TRUE
  OBVIOUS
<1> DEFINE S == 0..n
           below == {0..x : x \in {y \in T : y <= n}}
<1>2. IsFiniteSet(S)
  BY FS_Interval
<1>3. below \subseteq SUBSET S /\ below # {}
  OBVIOUS
<1>4. IsWellFoundedOn(StrictSubsetOrdering(S), SUBSET S)
  BY <1>2, FS_StrictSubsetOrderingWellFounded, FS_FiniteSubsetsOfFinite
<1>5. \E L \in below : \A U \in below : ~(<<U, L>> \in StrictSubsetOrdering(S))
  BY <1>3, <1>4, WFMin
<1>6. PICK x \in T : x <= n /\ \A U \in below : ~(<<U, 0..x>> \in StrictSubsetOrdering(S))
  BY <1>5
<1>7. ASSUME NEW y \in T, y < x PROVE FALSE
  <2>1. 0..y \in below
    BY <1>6, <1>7
  <2>2. x \in 0..x /\ x \notin 0..y /\ 0..y \subseteq 0..x
    BY <1>7
  <2>3. <<0..y, 0..x>> \in StrictSubsetOrdering(S)
    BY <1>3, <1>6, <2>1, <2>2 DEF StrictSubsetOrdering
  <2>4. QED BY <1>6, <2>1, <2>3
<1>8. QED BY <1>7

\* One that is bounded has a greatest.
LEMMA GreatestExists ==
  ASSUME NEW T \in SUBSET Nat, T # {}, NEW b \in Nat, \A x \in T : x <= b
  PROVE \E x \in T : \A y \in T : x >= y
<1> DEFINE U == {b - x : x \in T}
<1>1. U \in SUBSET Nat /\ U # {}
  <2>1. \A x \in T : b - x \in Nat
    OBVIOUS
  <2>2. QED BY <2>1
<1>2. PICK u \in U : \A v \in U : u <= v
  BY <1>1, LeastExists
<1>3. PICK x \in T : u = b - x
  OBVIOUS
<1>4. \A y \in T : b - x <= b - y
  BY <1>2, <1>3
<1>5. QED BY <1>4

\* The longest delay of some rails times each of them, and no more than that.
LEMMA LongestBounds ==
  ASSUME RailsInv, NEW ads \in SUBSET roster
  PROVE /\ Longest(ads) \in Nat
        /\ \A ad \in ads : rails[ad].delay <= Longest(ads)
        /\ \A n \in Nat : (\A ad \in ads : rails[ad].delay <= n) => Longest(ads) <= n
        /\ ads = {} => Longest(ads) = 0
<1> DEFINE T == {0} \cup {rails[ad].delay : ad \in ads}
<1>1. \A ad \in ads : rails[ad].delay \in Nat /\ rails[ad].delay <= MaxGuardDelay
  BY DEF RailsInv, GuardRow, GuardBounds
<1>2. MaxGuardDelay \in Nat
  BY AgentAccountAssumption
<1>3. T \in SUBSET Nat /\ T # {} /\ \A x \in T : x <= MaxGuardDelay
  BY <1>1, <1>2
<1>4. \E x \in T : \A y \in T : x >= y
  BY <1>2, <1>3, GreatestExists
<1>5. Longest(ads) = CHOOSE x \in T : \A y \in T : x >= y
  BY DEF Longest, Max
<1>6. Longest(ads) \in T /\ \A y \in T : Longest(ads) >= y
  BY <1>4, <1>5
<1>7. Longest(ads) \in Nat /\ \A ad \in ads : rails[ad].delay <= Longest(ads)
  BY <1>3, <1>6
<1>8. \A n \in Nat : (\A ad \in ads : rails[ad].delay <= n) => Longest(ads) <= n
  BY <1>6
<1>9. ads = {} => Longest(ads) = 0
  BY <1>6
<1>10. QED BY <1>7, <1>8, <1>9

\* The shortest window of some rails.
LEMMA ShortestBounds ==
  ASSUME RailsInv, NEW ads \in SUBSET roster
  PROVE /\ Shortest(ads) \in Nat \ {0}
        /\ \A ad \in ads : Shortest(ads) <= rails[ad].window
<1> DEFINE T == {Forever} \cup {rails[ad].window : ad \in ads}
<1>1. \A ad \in ads : rails[ad].window \in Nat \ {0}
  BY DEF RailsInv, GuardRow, GuardBounds
<1>2. T \in SUBSET (Nat \ {0}) /\ T # {}
  BY <1>1, AgentAccountAssumption
<1>3. \E x \in T : \A y \in T : x <= y
  BY <1>2, LeastExists
<1>4. Shortest(ads) = CHOOSE x \in T : \A y \in T : x =< y
  BY DEF Shortest, Min
<1>5. Shortest(ads) \in T /\ \A y \in T : Shortest(ads) <= y
  BY <1>3, <1>4
<1>6. QED BY <1>2, <1>5

-----------------------------------------------------------------------------
(* The pending announcements.                                              *)

\* A pending row waits every delay that times it, in a window that is open and,
\* on an ad, no longer than its rail's.
RowOK(row) ==
  LET s == schedules[row] IN s # Nil =>
    /\ s.announced <= now /\ s.ready_at < s.expires_at
    /\ TimedBy(row[1]) # {}
    /\ \A ad \in TimedBy(row[1]) : s.ready_at - s.announced >= rails[ad].delay
    /\ row[1] # Me => s.expires_at - s.ready_at <= rails[row[1]].window

RowsInv ==
  /\ schedules \in [Rows -> ScheduleRow \cup {Nil}]
  /\ \A row \in Rows : RowOK(row)

LEMMA RowsInit == AgentAccountInit => RowsInv
BY DEF AgentAccountInit, RowsInv, RowOK

\* The scope of a row is an ad or the account.
LEMMA RowScope ==
  ASSUME NEW row \in Rows
  PROVE \/ row[1] = Me /\ row \in RowsOf(Me)
        \/ row[1] \in Ads /\ row[1] # Me /\ row \in RowsOf(row[1])
<1>1. PICK scope \in Ads \cup {Me} : row \in RowsOf(scope)
  BY DEF Rows
<1>2. row[1] = scope
  BY <1>1 DEF RowsOf
<1>3. QED BY <1>1, <1>2, AgentAccountAssumption

\* A row of a scope is a row of no other.
LEMMA RowsApart ==
  ASSUME NEW row, NEW scope, row \in RowsOf(scope)
  PROVE row[1] = scope
BY DEF RowsOf

\* Where no rail's delay or window moves, rows stay right as they are spent.
LEMMA RowsKept ==
  ASSUME RailsInv, RowsInv, now' \in Nat, now <= now', roster' = roster,
         \A ad \in roster : rails'[ad].delay = rails[ad].delay
                            /\ rails'[ad].window = rails[ad].window,
         schedules' \in [Rows -> ScheduleRow \cup {Nil}],
         \A r \in Rows : schedules'[r] \in {schedules[r], Nil}
  PROVE RowsInv'
<1>1. ASSUME NEW row \in Rows PROVE RowOK(row)'
  <2>1. SUFFICES ASSUME schedules'[row] # Nil PROVE RowOK(row)'
    BY DEF RowOK
  <2>2. schedules'[row] = schedules[row] /\ schedules[row] # Nil /\ schedules[row] \in ScheduleRow
    BY <2>1 DEF RowsInv
  <2>3. RowOK(row)
    BY DEF RowsInv
  <2>4. TimedBy(row[1])' = TimedBy(row[1]) /\ TimedBy(row[1]) \subseteq roster
    BY DEF TimedBy
  <2>5. schedules[row].announced \in Nat /\ now \in Nat
    BY <2>2 DEF ScheduleRow, RailsInv
  <2>6. row[1] # Me => row[1] \in roster
    BY <2>2, <2>3 DEF RowOK, TimedBy
  <2>7. QED BY <2>2, <2>3, <2>4, <2>5, <2>6 DEF RowOK
<1>2. QED BY <1>1 DEF RowsInv

\* Disarming an ad, or loosening its rail, takes its rows and the account's.
LEMMA RowsCleared ==
  ASSUME RailsInv, RowsInv, now' = now, NEW ad \in Ads,
         schedules' = SchedulesCleared(ad),
         roster' \ {ad} = roster \ {ad},
         \A a \in roster \ {ad} : rails'[a] = rails[a]
  PROVE RowsInv'
<1>1. schedules' \in [Rows -> ScheduleRow \cup {Nil}]
  BY DEF SchedulesCleared, RowsInv
<1>2. ASSUME NEW row \in Rows PROVE RowOK(row)'
  <2>1. SUFFICES ASSUME schedules'[row] # Nil PROVE RowOK(row)'
    BY DEF RowOK
  <2>2. row \notin RowsOf(ad) \cup RowsOf(Me) /\ schedules'[row] = schedules[row]
    BY <2>1 DEF SchedulesCleared
  <2>3. row[1] \in Ads /\ row[1] # Me /\ row[1] # ad
    BY <2>2, RowScope
  <2>4. RowOK(row) /\ schedules[row] # Nil
    BY <2>1, <2>2 DEF RowsInv
  <2>5. TimedBy(row[1]) = {row[1]} \cap roster /\ TimedBy(row[1])' = {row[1]} \cap roster'
    BY <2>3 DEF TimedBy
  <2>6. row[1] \in roster /\ row[1] \in roster'
    BY <2>3, <2>4, <2>5 DEF RowOK
  <2>7. rails'[row[1]] = rails[row[1]]
    BY <2>3, <2>6
  <2>8. QED BY <2>2, <2>4, <2>5, <2>6, <2>7 DEF RowOK
<1>3. QED BY <1>1, <1>2 DEF RowsInv

\* What a retimed row keeps: who waited longer still does.
Waits(s, delay) == s.ready_at - s.announced >= delay
WellTimed(s) == s.announced <= now /\ s.ready_at < s.expires_at

\* restamp: the row waits the delay from now on, its window moves with it.
LEMMA RestampKeeps ==
  ASSUME RailsInv, NEW s \in ScheduleRow, WellTimed(s), NEW delay \in Nat
  PROVE LET r == Restamp(s, now + delay) IN
        /\ r \in ScheduleRow /\ WellTimed(r) /\ Waits(r, delay)
        /\ \A d \in Nat : Waits(s, d) => Waits(r, d)
        /\ r.expires_at - r.ready_at = s.expires_at - s.ready_at
<1>1. s.ready_at \in Nat /\ s.expires_at \in Nat /\ s.announced \in Nat /\ now \in Nat
  BY DEF ScheduleRow, RailsInv
<1>2. s # Nil
  BY AgentAccountAssumption
<1>3. CASE s.ready_at < now + delay
  <2>1. PICK later \in Nat : later = s.expires_at + (now + delay - s.ready_at)
    BY <1>1, <1>3
  <2>2. PICK q : q = [s EXCEPT !.expires_at = later]
    OBVIOUS
  <2>3. q \in ScheduleRow /\ q.expires_at = later /\ q.announced = s.announced
    BY <1>1, <2>2 DEF ScheduleRow
  <2>4. PICK opens \in Nat : opens = now + delay
    BY <1>1
  <2>5. PICK r : r = [q EXCEPT !.ready_at = opens]
    OBVIOUS
  <2>6. Restamp(s, opens) = [s EXCEPT !.expires_at = s.expires_at + (opens - s.ready_at),
                                      !.ready_at = opens]
    BY <1>2, <1>3, <2>4 DEF Restamp
  <2>7. s.expires_at + (opens - s.ready_at) = later
    BY <1>1, <2>1, <2>4
  <2>8. Restamp(s, opens) = r
    BY <2>2, <2>5, <2>6, <2>7
  <2>9. /\ r \in ScheduleRow /\ r.expires_at = later /\ r.ready_at = opens
        /\ r.announced = s.announced
    BY <1>1, <2>3, <2>5 DEF ScheduleRow
  <2>10. WellTimed(r) /\ Waits(r, delay) /\ \A d \in Nat : Waits(s, d) => Waits(r, d)
    BY <1>1, <1>3, <2>1, <2>4, <2>9 DEF WellTimed, Waits
  <2>11. r.expires_at - r.ready_at = s.expires_at - s.ready_at
    BY <1>1, <2>1, <2>4, <2>9
  <2>12. QED BY <2>4, <2>8, <2>9, <2>10, <2>11
<1>4. CASE ~(s.ready_at < now + delay)
  <2>1. Restamp(s, now + delay) = s
    BY <1>4 DEF Restamp
  <2>2. Waits(s, delay)
    BY <1>1, <1>4 DEF Waits, WellTimed
  <2>3. QED BY <2>1, <2>2
<1>5. QED BY <1>3, <1>4

\* clamp_windows: the row opens when it did, and closes within the window.
LEMMA ClampKeeps ==
  ASSUME RailsInv, NEW s \in ScheduleRow, WellTimed(s), NEW window \in Nat \ {0}
  PROVE LET r == ClampWindow(s, window) IN
        /\ r \in ScheduleRow /\ WellTimed(r)
        /\ \A d \in Nat : Waits(s, d) => Waits(r, d)
        /\ r.expires_at - r.ready_at <= window
        /\ r.expires_at - r.ready_at <= s.expires_at - s.ready_at
<1>1. s.ready_at \in Nat /\ s.expires_at \in Nat /\ s.announced \in Nat
  BY DEF ScheduleRow
<1>2. s # Nil
  BY AgentAccountAssumption
<1>3. CASE s.expires_at > s.ready_at + window
  <2>1. PICK r : r = [s EXCEPT !.expires_at = s.ready_at + window]
    OBVIOUS
  <2>2. ClampWindow(s, window) = r
    BY <1>2, <1>3, <2>1 DEF ClampWindow
  <2>3. /\ r \in ScheduleRow /\ r.expires_at = s.ready_at + window
        /\ r.ready_at = s.ready_at /\ r.announced = s.announced
    BY <1>1, <2>1 DEF ScheduleRow
  <2>4. WellTimed(r) /\ \A d \in Nat : Waits(s, d) => Waits(r, d)
    BY <1>1, <2>3 DEF WellTimed, Waits
  <2>5. QED BY <1>1, <1>3, <2>2, <2>3, <2>4
<1>4. CASE ~(s.expires_at > s.ready_at + window)
  <2>1. ClampWindow(s, window) = s
    BY <1>4 DEF ClampWindow
  <2>2. s.expires_at - s.ready_at <= window
    BY <1>1, <1>4
  <2>3. QED BY <1>1, <2>1, <2>2
<1>5. QED BY <1>3, <1>4

LEMMA RetimedKeeps ==
  ASSUME RailsInv, NEW s \in ScheduleRow, WellTimed(s),
         NEW delay \in Nat, NEW window \in Nat \ {0},
         NEW q, q \in {s, Restamp(s, now + delay)}, NEW r, r \in {q, ClampWindow(q, window)}
  PROVE /\ r \in ScheduleRow /\ WellTimed(r)
        /\ q = Restamp(s, now + delay) => Waits(r, delay)
        /\ \A d \in Nat : Waits(s, d) => Waits(r, d)
        /\ r = ClampWindow(q, window) => r.expires_at - r.ready_at <= window
        /\ r.expires_at - r.ready_at <= s.expires_at - s.ready_at
<1>1. /\ q \in ScheduleRow /\ WellTimed(q)
      /\ q = Restamp(s, now + delay) => Waits(q, delay)
      /\ \A d \in Nat : Waits(s, d) => Waits(q, d)
      /\ q.expires_at - q.ready_at = s.expires_at - s.ready_at
  <2>1. CASE q = Restamp(s, now + delay)
    BY <2>1, RestampKeeps
  <2>2. CASE q = s /\ q # Restamp(s, now + delay)
    BY <2>2
  <2>3. QED BY <2>1, <2>2
<1>2. CASE r = ClampWindow(q, window)
  <2>1. /\ r \in ScheduleRow /\ WellTimed(r)
        /\ \A d \in Nat : Waits(q, d) => Waits(r, d)
        /\ r.expires_at - r.ready_at <= window
        /\ r.expires_at - r.ready_at <= q.expires_at - q.ready_at
    BY <1>1, <1>2, ClampKeeps
  <2>2. QED BY <1>1, <2>1
<1>3. CASE r = q /\ r # ClampWindow(q, window)
  <2>1. s.expires_at - s.ready_at \in Int
    BY DEF ScheduleRow
  <2>2. QED BY <1>1, <1>3, <2>1
<1>4. QED BY <1>2, <1>3

LEMMA NoRowNoRetiming ==
  ASSUME NEW raised, NEW shortened, NEW delay, NEW window
  PROVE RetimedRow(Nil, raised, shortened, delay, window) = Nil
BY DEF RetimedRow, Restamp, ClampWindow

\* Arming an ad, or tightening its rail: what is pending waits the new delay.
LEMMA RowsRetimed ==
  ASSUME RailsInv, RowsInv, now' = now, NEW ad \in Ads, NEW g \in GuardSettings, GuardBounds(g),
         GetGuardRail(ad) = Nil => ad \notin roster,
         GetGuardRail(ad) # Nil => IsTightening(GetGuardRail(ad), g),
         roster' = roster \cup {ad},
         \A a \in roster \ {ad} : rails'[a] = rails[a],
         rails'[ad].delay = g.delay, rails'[ad].window = g.window,
         schedules' = Retimed(ad, GetGuardRail(ad), g)
  PROVE RowsInv'
<1> DEFINE cur == GetGuardRail(ad)
           delayBefore == IF cur = Nil THEN 0 ELSE cur.delay
           windowBefore == IF cur = Nil THEN Forever ELSE cur.window
           accountDelay == IF TimelockKnown THEN Longest(roster) ELSE 0
           accountWindow == IF TimelockKnown THEN Shortest(roster) ELSE Forever
           windowAfter == Min({g.window, Shortest(roster \ {ad})})
           shrinks == roster \cap archived = {} /\ windowAfter < accountWindow
<1>1. g.delay \in Nat /\ g.window \in Nat \ {0}
  BY DEF GuardSettings, GuardBounds
<1>2. cur # Nil => ad \in roster /\ cur = rails[ad] /\ cur \in GuardRow
  BY DEF GetGuardRail, RailsInv
<1>3. windowAfter \in Nat \ {0}
  <2>1. PICK w \in Nat \ {0} : w = Shortest(roster \ {ad})
    BY ShortestBounds
  <2>2. {g.window, w} \in SUBSET Nat /\ {g.window, w} # {}
    BY <1>1, <2>1
  <2>3. \E x \in {g.window, w} : \A y \in {g.window, w} : x =< y
    BY <1>1, <2>2, LeastExists
  <2>4. windowAfter = CHOOSE x \in {g.window, w} : \A y \in {g.window, w} : x =< y
    BY <2>1 DEF Min
  <2>5. QED BY <1>1, <2>3, <2>4
<1>4. /\ \A row \in RowsOf(ad) : row \in Rows => schedules'[row] =
           RetimedRow(schedules[row], g.delay > delayBefore, g.window < windowBefore,
                      g.delay, g.window)
      /\ \A row \in RowsOf(Me) : row \in Rows => schedules'[row] =
           RetimedRow(schedules[row], g.delay > accountDelay, shrinks, g.delay, windowAfter)
      /\ \A row \in Rows : row \notin RowsOf(ad) \cup RowsOf(Me) =>
           schedules'[row] = schedules[row]
  <2>1. \A row \in RowsOf(Me) : row \notin RowsOf(ad)
    BY RowsApart, AgentAccountAssumption
  <2>2. QED BY <2>1 DEF Retimed
<1>5. DOMAIN schedules' = Rows /\ schedules' = [row \in Rows |-> schedules'[row]]
  BY DEF Retimed
<1> HIDE DEF windowAfter, shrinks, accountWindow
<1>7. ASSUME NEW row \in Rows PROVE schedules'[row] \in ScheduleRow \cup {Nil} /\ RowOK(row)'
  <2>1. schedules[row] \in ScheduleRow \cup {Nil} /\ RowOK(row)
    BY DEF RowsInv
  <2>2. CASE schedules[row] = Nil
    <3>1. schedules'[row] = Nil
      BY <2>2, <1>4, NoRowNoRetiming
    <3>2. QED BY <3>1 DEF RowOK
  <2>3. CASE schedules[row] # Nil
    <3>1. /\ schedules[row] \in ScheduleRow /\ WellTimed(schedules[row])
          /\ TimedBy(row[1]) # {}
          /\ \A a \in TimedBy(row[1]) : Waits(schedules[row], rails[a].delay)
          /\ row[1] # Me => schedules[row].expires_at - schedules[row].ready_at
                              <= rails[row[1]].window
      BY <2>1, <2>3 DEF RowOK, WellTimed, Waits
    <3> DEFINE s == schedules'[row]
    <3> SUFFICES /\ s \in ScheduleRow /\ WellTimed(s) /\ TimedBy(row[1])' # {}
                 /\ \A a \in TimedBy(row[1])' : Waits(s, rails'[a].delay)
                 /\ row[1] # Me => s.expires_at - s.ready_at <= rails'[row[1]].window
      BY DEF RowOK, WellTimed, Waits
    <3>2. CASE row \in RowsOf(ad)
      <4>1. row[1] = ad /\ row[1] # Me /\ TimedBy(row[1]) = {ad} \cap roster
        BY <3>2, RowsApart, AgentAccountAssumption DEF TimedBy
      <4>2. ad \in roster /\ cur # Nil /\ TimedBy(row[1])' = {ad}
        BY <3>1, <4>1 DEF TimedBy
      <4>3. /\ Waits(schedules[row], cur.delay)
            /\ schedules[row].expires_at - schedules[row].ready_at <= cur.window
            /\ cur.delay \in Nat /\ cur.window \in Nat
            /\ g.delay >= cur.delay /\ g.window <= cur.window
        BY <1>2, <3>1, <4>1, <4>2 DEF IsTightening, GuardRow
      <4>4. s = RetimedRow(schedules[row], g.delay > cur.delay, g.window < cur.window,
                           g.delay, g.window)
        BY <1>4, <3>2, <4>2
      <4> HIDE DEF s
      <4>5. PICK q : q = IF g.delay > cur.delay THEN Restamp(schedules[row], now + g.delay)
                         ELSE schedules[row]
        OBVIOUS
      <4>6. s = IF g.window < cur.window THEN ClampWindow(q, g.window) ELSE q
        BY <4>4, <4>5 DEF RetimedRow
      <4>7. /\ s \in ScheduleRow /\ WellTimed(s)
            /\ g.delay > cur.delay => Waits(s, g.delay)
            /\ \A d \in Nat : Waits(schedules[row], d) => Waits(s, d)
            /\ g.window < cur.window => s.expires_at - s.ready_at <= g.window
            /\ s.expires_at - s.ready_at <= schedules[row].expires_at - schedules[row].ready_at
        <5>1. q \in {schedules[row], Restamp(schedules[row], now + g.delay)}
          BY <4>5
        <5>2. s \in {q, ClampWindow(q, g.window)}
          BY <4>6
        <5>3. /\ s \in ScheduleRow /\ WellTimed(s)
              /\ q = Restamp(schedules[row], now + g.delay) => Waits(s, g.delay)
              /\ \A d \in Nat : Waits(schedules[row], d) => Waits(s, d)
              /\ s = ClampWindow(q, g.window) => s.expires_at - s.ready_at <= g.window
              /\ s.expires_at - s.ready_at <= schedules[row].expires_at - schedules[row].ready_at
          BY <1>1, <3>1, <5>1, <5>2, RetimedKeeps
        <5>4. QED BY <4>5, <4>6, <5>3
      <4>8. Waits(s, g.delay)
        BY <1>1, <4>3, <4>5, <4>7
      <4>9. s.expires_at - s.ready_at <= g.window
        <5>1. s.expires_at - s.ready_at \in Int
          BY <4>7 DEF ScheduleRow
        <5>2. schedules[row].expires_at - schedules[row].ready_at \in Int
          BY <3>1 DEF ScheduleRow
        <5>3. QED BY <1>1, <4>3, <4>5, <4>7, <5>1, <5>2
      <4>10. QED BY <4>1, <4>2, <4>7, <4>8, <4>9
    <3>3. CASE row \in RowsOf(Me)
      <4>1. row[1] = Me /\ TimedBy(row[1]) = roster /\ TimedBy(row[1])' = roster \cup {ad}
        BY <3>3, RowsApart DEF TimedBy
      <4>2. s = RetimedRow(schedules[row], g.delay > accountDelay, shrinks, g.delay, windowAfter)
        BY <1>4, <3>3
      <4>3. accountDelay \in Nat
        BY LongestBounds
      <4> HIDE DEF accountDelay, s
      <4>4. /\ s \in ScheduleRow /\ WellTimed(s)
            /\ g.delay > accountDelay => Waits(s, g.delay)
            /\ \A d \in Nat : Waits(schedules[row], d) => Waits(s, d)
        <5>1. PICK q : q = IF g.delay > accountDelay
                             THEN Restamp(schedules[row], now + g.delay) ELSE schedules[row]
          OBVIOUS
        <5>2. s \in {q, ClampWindow(q, windowAfter)}
          BY <4>2, <5>1 DEF RetimedRow
        <5>3. q \in {schedules[row], Restamp(schedules[row], now + g.delay)}
          BY <5>1
        <5>4. /\ s \in ScheduleRow /\ WellTimed(s)
              /\ q = Restamp(schedules[row], now + g.delay) => Waits(s, g.delay)
              /\ \A d \in Nat : Waits(schedules[row], d) => Waits(s, d)
              /\ s = ClampWindow(q, windowAfter) => s.expires_at - s.ready_at <= windowAfter
              /\ s.expires_at - s.ready_at <= schedules[row].expires_at - schedules[row].ready_at
          BY <1>1, <1>3, <3>1, <5>2, <5>3, RetimedKeeps
        <5>5. QED BY <5>1, <5>4
      <4>5. \A a \in roster : rails[a].delay \in Nat /\ Waits(s, rails[a].delay)
        BY <3>1, <4>1, <4>4 DEF RailsInv, GuardRow
      <4>6. Waits(s, g.delay)
        <5>1. CASE g.delay > accountDelay
          BY <5>1, <4>4
        <5>2. CASE g.delay <= accountDelay
          <6>1. accountDelay = Longest(roster)
            BY <5>2, <1>1, LongestBounds DEF accountDelay, GuardBounds
          <6>2. \A a \in roster : rails[a].delay <= s.ready_at - s.announced
            BY <4>5 DEF Waits
          <6>3. s.ready_at - s.announced \in Nat
            <7>1. PICK a \in roster : TRUE
              BY <3>1, <4>1
            <7>2. s.ready_at - s.announced \in Int /\ rails[a].delay \in Nat
              BY <4>4, <4>5 DEF ScheduleRow
            <7>3. QED BY <6>2, <7>1, <7>2
          <6>4. Longest(roster) <= s.ready_at - s.announced /\ Longest(roster) \in Nat
            BY <6>2, <6>3, LongestBounds
          <6>5. QED BY <1>1, <5>2, <6>1, <6>3, <6>4 DEF Waits
        <5>3. QED BY <1>1, <4>3, <5>1, <5>2
      <4>7. \A a \in roster \cup {ad} : Waits(s, rails'[a].delay)
        BY <4>5, <4>6
      <4>8. QED BY <4>1, <4>4, <4>7
    <3>4. CASE row \notin RowsOf(ad) \cup RowsOf(Me)
      <4>1. s = schedules[row] /\ row[1] \in Ads /\ row[1] # Me /\ row[1] # ad
        BY <1>4, <3>4, RowScope
      <4>2. TimedBy(row[1]) = {row[1]} \cap roster /\ TimedBy(row[1])' = {row[1]} \cap roster
        BY <4>1 DEF TimedBy
      <4>3. rails'[row[1]] = rails[row[1]]
        BY <3>1, <4>1, <4>2
      <4>4. QED BY <3>1, <4>1, <4>2, <4>3
    <3>5. QED BY <3>2, <3>3, <3>4
  <2>4. QED BY <2>2, <2>3
<1>8. QED BY <1>5, <1>7 DEF RowsInv

LEMMA RowsSetGuardRail ==
  ASSUME RailsInv, RowsInv, NEW ad \in Ads, NEW g \in Settings \cup {Nil}, SetGuardRail(ad, g)
  PROVE RowsInv'
<1> DEFINE cur == GetGuardRail(ad)
           loosening == cur # Nil /\ (g = Nil \/ ~IsTightening(cur, g))
<1>1. now' = now
  BY DEF SetGuardRail
<1>2. CASE g = Nil
  <2>1. Disarm(ad)
    BY <1>2 DEF SetGuardRail
  <2>2. /\ roster' = roster \ {ad} /\ schedules' = SchedulesCleared(ad)
        /\ rails' = [rails EXCEPT ![ad] = Nil]
    BY <2>1 DEF Disarm
  <2>3. \A a \in roster \ {ad} : rails'[a] = rails[a]
    BY <2>2 DEF RailsInv
  <2>4. QED BY <1>1, <2>2, <2>3, RowsCleared
<1>3. CASE g # Nil
  <2>1. g \in GuardSettings
    BY <1>3, AgentAccountAssumption
  <2>2. PICK bucket : rails' = [rails EXCEPT ![ad] = RailRow(g, bucket)]
    BY <1>3 DEF SetGuardRail
  <2>3. /\ \A a \in roster \ {ad} : rails'[a] = rails[a]
        /\ rails'[ad].delay = g.delay /\ rails'[ad].window = g.window
    BY <2>2 DEF RailsInv, RailRow
  <2>4. /\ GuardBounds(g) /\ roster' = roster \cup {ad}
        /\ cur = Nil => ad \notin roster
        /\ schedules' = IF loosening THEN SchedulesCleared(ad) ELSE Retimed(ad, cur, g)
    BY <1>3 DEF SetGuardRail, IsGuarded
  <2>5. CASE loosening
    <3>1. roster' \ {ad} = roster \ {ad} /\ schedules' = SchedulesCleared(ad)
      BY <2>4, <2>5
    <3>2. QED BY <1>1, <2>3, <3>1, RowsCleared
  <2>6. CASE ~loosening
    <3>1. schedules' = Retimed(ad, cur, g) /\ (cur # Nil => IsTightening(cur, g))
      BY <1>3, <2>4, <2>6
    <3>2. QED BY <1>1, <2>1, <2>3, <2>4, <3>1, RowsRetimed
  <2>7. QED BY <2>5, <2>6
<1>4. QED BY <1>2, <1>3

LEMMA RowsDisarmClosedAd ==
  ASSUME RailsInv, RowsInv, NEW e \in Escrows, NEW ad \in Ads, DisarmClosedAd(e, ad)
  PROVE RowsInv'
<1>1. /\ now' = now /\ roster' = roster \ {ad} /\ schedules' = SchedulesCleared(ad)
      /\ rails' = [rails EXCEPT ![ad] = Nil]
  BY DEF DisarmClosedAd, Disarm
<1>2. \A a \in roster \ {ad} : rails'[a] = rails[a]
  BY <1>1 DEF RailsInv
<1>3. QED BY <1>1, <1>2, RowsCleared

\* An announcement waits the delay of its ad, or the longest of all.
LEMMA RowsSchedule ==
  ASSUME RailsInv, RowsInv, NEW call \in Announcements, Schedule(call[1], call[2], call[3])
  PROVE RowsInv'
<1> DEFINE scope == call[1]
           row == <<call[1], call[2]>>
<1>1. scope \in Ads \cup {Me} /\ Me \notin Ads
  BY AgentAccountAssumption
<1>2. UNCHANGED <<now, rails, roster, archived>>
  BY DEF Schedule, railVars
<1>3. PICK delay \in Nat, window \in Nat \ {0} :
        /\ schedules' = [schedules EXCEPT ![row] =
             [ args |-> call[3], ready_at |-> now + delay,
               expires_at |-> now + delay + window, announced |-> now ]]
        /\ row \in Rows /\ TimedBy(scope) # {}
        /\ \A ad \in TimedBy(scope) : rails[ad].delay <= delay
        /\ scope # Me => window = rails[scope].window
  <2>1. CASE scope = Me
    <3>1. /\ call[2] \in AccountActions /\ roster # {}
          /\ PutSchedule(row, call[3], Longest(roster), Shortest(roster))
      BY <2>1 DEF Schedule, TimelockKnown, AnyGuarded
    <3>2. row \in Rows
      BY <2>1, <3>1 DEF Rows, RowsOf, ActionsFor
    <3>3. TimedBy(scope) = roster
      BY <2>1 DEF TimedBy
    <3>4. /\ Longest(roster) \in Nat /\ Shortest(roster) \in Nat \ {0}
          /\ \A ad \in roster : rails[ad].delay <= Longest(roster)
      BY LongestBounds, ShortestBounds
    <3>5. QED BY <2>1, <3>1, <3>2, <3>3, <3>4 DEF PutSchedule
  <2>2. CASE scope # Me
    <3>1. /\ call[2] \in AdActions /\ GetGuardRail(scope) # Nil /\ scope \in Ads
          /\ PutSchedule(row, call[3], rails[scope].delay, rails[scope].window)
      BY <1>1, <2>2 DEF Schedule
    <3>2. row \in Rows
      BY <2>2, <3>1 DEF Rows, RowsOf, ActionsFor
    <3>3. scope \in roster
      BY <3>1 DEF GetGuardRail, RailsInv
    <3>4. TimedBy(scope) = {scope}
      BY <2>2, <3>3 DEF TimedBy
    <3>5. rails[scope].delay \in Nat /\ rails[scope].window \in Nat \ {0}
      BY <3>3 DEF RailsInv, GuardRow, GuardBounds
    <3>6. PICK d \in Nat, w \in Nat \ {0} : d = rails[scope].delay /\ w = rails[scope].window
      BY <3>5
    <3>7. schedules' = [schedules EXCEPT ![row] =
            [ args |-> call[3], ready_at |-> now + d,
              expires_at |-> now + d + w, announced |-> now ]]
      BY <3>1, <3>6 DEF PutSchedule
    <3>8. \A a \in TimedBy(scope) : rails[a].delay <= d
      BY <3>4, <3>6
    <3>9. QED BY <2>2, <3>2, <3>4, <3>6, <3>7, <3>8
  <2>3. QED BY <2>1, <2>2
<1>4. now \in Nat
  BY DEF RailsInv
<1>5. PICK s : s = [ args |-> call[3], ready_at |-> now + delay,
                     expires_at |-> now + delay + window, announced |-> now ]
  OBVIOUS
<1>6. s \in ScheduleRow
  BY <1>4, <1>5 DEF ScheduleRow
<1>7. schedules' = [schedules EXCEPT ![row] = s]
  BY <1>3, <1>5
<1>8. schedules' \in [Rows -> ScheduleRow \cup {Nil}]
  BY <1>6, <1>7 DEF RowsInv
<1>9. ASSUME NEW r \in Rows PROVE RowOK(r)'
  <2>1. TimedBy(r[1])' = TimedBy(r[1])
    BY <1>2 DEF TimedBy
  <2>2. CASE r = row
    <3>1. schedules'[r] = s
      BY <1>7, <2>2 DEF RowsInv
    <3>2. /\ s.announced <= now /\ s.ready_at < s.expires_at
          /\ s.ready_at - s.announced = delay /\ s.expires_at - s.ready_at = window
      BY <1>4, <1>5
    <3>3. \A ad \in TimedBy(scope) : s.ready_at - s.announced >= rails[ad].delay
      <4>1. \A ad \in TimedBy(scope) : rails[ad].delay \in Nat
        BY DEF TimedBy, RailsInv, GuardRow
      <4>2. QED BY <1>3, <3>2, <4>1
    <3>4. scope # Me => s.expires_at - s.ready_at <= rails[scope].window
      BY <1>3, <3>2
    <3>5. r[1] = scope
      BY <2>2
    <3>6. QED BY <1>2, <1>3, <2>1, <3>1, <3>2, <3>3, <3>4, <3>5 DEF RowOK
  <2>3. CASE r # row
    <3>1. schedules'[r] = schedules[r] /\ RowOK(r)
      BY <1>7, <2>3 DEF RowsInv
    <3>2. QED BY <1>2, <2>1, <3>1 DEF RowOK
  <2>4. QED BY <2>2, <2>3
<1>10. QED BY <1>8, <1>9 DEF RowsInv

\* check_owner_call spends at most one row, and moves no rail's timing.
LEMMA RowsOwnerCall ==
  ASSUME RailsInv, RowsInv, now' = now, NEW fn, NEW args, CheckOwnerCall(fn, args)
  PROVE RowsInv'
<1>1. /\ schedules' \in [Rows -> ScheduleRow \cup {Nil}]
      /\ \A r \in Rows : schedules'[r] \in {schedules[r], Nil}
  <2>1. CASE schedules' = schedules
    BY <2>1 DEF RowsInv
  <2>2. CASE schedules' # schedules
    <3>1. PICK row : schedules' = [schedules EXCEPT ![row] = Nil]
      BY <2>2 DEF CheckOwnerCall, SpendIf
    <3>2. QED BY <3>1 DEF RowsInv
  <2>3. QED BY <2>1, <2>2
<1>2. /\ roster' = roster
      /\ \A ad \in roster : rails'[ad].delay = rails[ad].delay
                            /\ rails'[ad].window = rails[ad].window
  <2>1. CASE UNCHANGED railVars
    BY <2>1 DEF railVars
  <2>2. CASE ~UNCHANGED railVars
    <3>1. roster' = roster /\ NamedAd(fn, args) \in roster
      BY <2>2 DEF CheckOwnerCall, IsGuarded
    <3>2. PICK bucket : rails' = [rails EXCEPT ![NamedAd(fn, args)].bucket = bucket]
      BY <2>2 DEF CheckOwnerCall
    <3>3. ASSUME NEW ad \in roster
          PROVE rails'[ad].delay = rails[ad].delay /\ rails'[ad].window = rails[ad].window
      <4>1. rails[ad] \in GuardRow /\ NamedAd(fn, args) \in Ads /\ ad \in Ads
        BY <3>1 DEF RailsInv
      <4>2. PICK row : row = [rails[ad] EXCEPT !.bucket = bucket]
        OBVIOUS
      <4>3. row.delay = rails[ad].delay /\ row.window = rails[ad].window
        BY <4>1, <4>2 DEF GuardRow
      <4>4. rails'[ad] \in {row, rails[ad]}
        BY <3>2, <4>1, <4>2 DEF RailsInv
      <4>5. QED BY <4>3, <4>4
    <3>4. QED BY <3>1, <3>3
  <2>3. QED BY <2>1, <2>2
<1>3. QED BY <1>1, <1>2, RowsKept DEF RailsInv

\* Elsewhere at most one row is spent, and the rails stay.
LEMMA RowsElsewhere ==
  ASSUME RailsInv, RowsInv, now' = now, roster' = roster, rails' = rails,
         \/ schedules' = schedules
         \/ \E row : schedules' = [schedules EXCEPT ![row] = Nil]
  PROVE RowsInv'
<1>1. /\ schedules' \in [Rows -> ScheduleRow \cup {Nil}]
      /\ \A r \in Rows : schedules'[r] \in {schedules[r], Nil}
  BY DEF RowsInv
<1>2. QED BY <1>1, RowsKept DEF RailsInv

LEMMA RowsStep ==
  ASSUME RailsInv, RowsInv, [AgentAccountNext]_agentAccountVars PROVE RowsInv'
<1> USE DEF railVars
<1>1. CASE UNCHANGED agentAccountVars
  BY <1>1, RowsElsewhere DEF agentAccountVars
<1>2. CASE Tick
  <2>1. now' = now + 1 /\ UNCHANGED <<rails, roster, schedules>>
    BY <1>2 DEF Tick
  <2>2. /\ schedules' \in [Rows -> ScheduleRow \cup {Nil}]
        /\ \A r \in Rows : schedules'[r] \in {schedules[r], Nil}
    BY <2>1 DEF RowsInv
  <2>3. now' \in Nat /\ now <= now'
    BY <2>1 DEF RailsInv
  <2>4. QED BY <2>1, <2>2, <2>3, RowsKept
<1>3. CASE Migrate
  BY <1>3, RowsElsewhere DEF Migrate
<1>4. ASSUME NEW ts \in TargetSets, SetTargets(ts) PROVE RowsInv'
  BY <1>4, RowsElsewhere DEF SetTargets, SpendIf
<1>5. ASSUME NEW t \in Tokens, NEW limit \in Limits, SetAccountLimit(t, limit) PROVE RowsInv'
  BY <1>5, RowsElsewhere DEF SetAccountLimit, SpendIf
<1>6. ASSUME NEW a \in Agents, RevokeAgent(a) PROVE RowsInv'
  BY <1>6, RowsElsewhere DEF RevokeAgent
<1>7. ASSUME NEW a \in Agents, NEW p \in Policies, SetPolicy(a, p) PROVE RowsInv'
  BY <1>7, RowsElsewhere DEF SetPolicy, SpendIf
<1>8. ASSUME NEW ad \in Ads, NEW g \in Settings \cup {Nil}, SetGuardRail(ad, g) PROVE RowsInv'
  BY <1>8, RowsSetGuardRail
<1>9. ASSUME NEW e \in Escrows, NEW ad \in Ads, DisarmClosedAd(e, ad) PROVE RowsInv'
  BY <1>9, RowsDisarmClosedAd
<1>10. ASSUME NEW call \in Announcements, Schedule(call[1], call[2], call[3]) PROVE RowsInv'
  BY <1>10, RowsSchedule
<1>11. ASSUME NEW row \in Rows, Cancel(row) PROVE RowsInv'
  BY <1>11, RowsElsewhere DEF Cancel
<1>12. ASSUME NEW w \in Wasms, Upgrade(w) PROVE RowsInv'
  BY <1>12, RowsElsewhere DEF Upgrade, SpendIf
<1>13. ASSUME NEW t \in Tokens, NEW to \in Payees, NEW amount \in Amounts, Sweep(t, to, amount)
       PROVE RowsInv'
  BY <1>13, RowsElsewhere DEF Sweep, SpendIf
<1>14. ASSUME NEW e \in Escrows, NEW ad \in Ads, NEW amount \in Amounts
       PROVE /\ FundAd(e, ad, amount) => RowsInv'
             /\ \A s \in Signers : CreateAd(e, ad, amount, s) => RowsInv'
             /\ \A paid \in BOOLEAN : OrderEnds(e, ad, amount, paid) => RowsInv'
  BY RowsElsewhere DEF FundAd, CreateAd, OrderEnds
<1>15. ASSUME NEW e \in Escrows, NEW ad \in Ads, NEW amount \in Amounts, NEW to \in Payees,
              CallWithdraw(e, ad, amount, to)
       PROVE RowsInv'
  BY <1>15, RowsOwnerCall DEF CallWithdraw
<1>16. ASSUME NEW e \in Escrows, NEW ad \in Ads, NEW to \in Payees, CallClose(e, ad, to)
       PROVE RowsInv'
  BY <1>16, RowsOwnerCall DEF CallClose
<1>17. ASSUME NEW e \in Escrows, NEW ad \in Ads, NEW s \in Signers, CallRepoint(e, ad, s)
       PROVE RowsInv'
  BY <1>17, RowsOwnerCall DEF CallRepoint
<1>18. ASSUME NEW fn \in {"halt_settlement", "resume_settlement"}, CallHalt(fn) PROVE RowsInv'
  BY <1>18, RowsOwnerCall DEF CallHalt
<1>19. ASSUME NEW fn \in {"dispute", "claim", "transfer"}, NEW t \in Tokens, NEW paid, NEW pulled,
              NEW received, CallOther(fn, t, paid, pulled, received)
       PROVE RowsInv'
  BY <1>19, RowsOwnerCall DEF CallOther
<1>20. ASSUME NEW o \in Orders, CallLock(o) PROVE RowsInv'
  BY <1>20, RowsOwnerCall DEF CallLock
<1>21. ASSUME NEW a \in Agents, NEW locks, CheckAuth(a, locks) PROVE RowsInv'
  BY <1>21, RowsElsewhere DEF CheckAuth
<1>22. ASSUME NEW ad \in Ads, Archive(ad) PROVE RowsInv'
  BY <1>22, RowsElsewhere DEF Archive
<1>23. CASE AgentAccountNext
  BY <1>23, <1>2, <1>3, <1>4, <1>5, <1>6, <1>7, <1>8, <1>9, <1>10, <1>11, <1>12, <1>13, <1>14,
     <1>15, <1>16, <1>17, <1>18, <1>19, <1>20, <1>21, <1>22 DEF AgentAccountNext
<1>24. QED BY <1>1, <1>23

\* What the account's rows say, of the longest delay that times each.
LEMMA RowsWait == RailsInv /\ RowsInv => RowsWaitTheDelay
<1> SUFFICES ASSUME RailsInv, RowsInv, NEW row \in Rows, schedules[row] # Nil
             PROVE LET s == schedules[row] IN
                   /\ TimedBy(row[1]) # {}
                   /\ s.ready_at - s.announced >= Longest(TimedBy(row[1]))
                   /\ row[1] # Me => s.expires_at - s.ready_at <= rails[row[1]].window
  BY DEF RowsWaitTheDelay
<1>1. RowOK(row) /\ schedules[row] \in ScheduleRow
  BY DEF RowsInv
<1>2. TimedBy(row[1]) \in SUBSET roster /\ TimedBy(row[1]) # {}
  BY <1>1 DEF TimedBy, RowOK
<1>3. PICK waited \in Int : waited = schedules[row].ready_at - schedules[row].announced
  BY <1>1 DEF ScheduleRow
<1>4. \A ad \in TimedBy(row[1]) : rails[ad].delay <= waited /\ rails[ad].delay \in Nat
  BY <1>1, <1>2, <1>3 DEF RowOK, RailsInv, GuardRow
<1>5. waited \in Nat
  BY <1>2, <1>4
<1>6. Longest(TimedBy(row[1])) <= waited /\ Longest(TimedBy(row[1])) \in Nat
  BY <1>2, <1>4, <1>5, LongestBounds
<1>7. QED BY <1>1, <1>2, <1>3, <1>6 DEF RowOK

-----------------------------------------------------------------------------
(* The locks one authorization entry carries.                              *)

SpendStart(p) == [ok |-> TRUE, buckets |-> p.buckets, volume |-> volume]

LEMMA GreatestOfTwo == Max({1}) = 1 /\ Max({2}) = 2 /\ Max({1, 2}) = 2
<1>1. Max({1}) = 1 /\ Max({2}) = 2
  BY DEF Max
<1>2. \E x \in {1, 2} : \A y \in {1, 2} : x >= y
  OBVIOUS
<1>3. Max({1, 2}) \in {1, 2} /\ \A y \in {1, 2} : Max({1, 2}) >= y
  BY <1>2 DEF Max
<1>4. QED BY <1>1, <1>3

LEMMA SpendOne ==
  ASSUME NEW p, NEW o
  PROVE SpendAll(p, <<o>>) = SpendVolume(p, SpendStart(p), o)
<1> DEFINE S == {1}
           locks == <<o>>
           step(g, T) == IF T = {} THEN SpendStart(p)
                         ELSE SpendVolume(p, g[T \ {Max(T)}], locks[Max(T)])
           folds(g) == g = [T \in SUBSET S |-> step(g, T)]
           iter == CHOOSE g : folds(g)
           done == [T \in SUBSET S |->
                      IF T = {} THEN SpendStart(p) ELSE SpendVolume(p, SpendStart(p), o)]
<1>1. SpendAll(p, locks) = iter[S]
  <2>1. DOMAIN locks = S
    OBVIOUS
  <2>2. QED BY <2>1 DEF SpendAll, FoldLeft, MapThenFoldSet, SpendStart
<1>2. SUBSET S = {{}, {1}} /\ {1} \ {1} = {}
  OBVIOUS
<1>3. folds(done)
  <2>1. step(done, {}) = done[{}] /\ step(done, {1}) = done[{1}]
    BY <1>2, GreatestOfTwo
  <2> HIDE DEF step
  <2>2. QED BY <1>2, <2>1
<1>4. folds(iter)
  <2> HIDE DEF folds
  <2>1. QED BY <1>3
<1> HIDE DEF iter
<1>5. iter[{}] = step(iter, {}) /\ iter[{1}] = step(iter, {1})
  <2> HIDE DEF step
  <2>1. QED BY <1>2, <1>4
<1>6. locks = <<o>> /\ locks[1] = o
  OBVIOUS
<1> HIDE DEF locks
<1>7. iter[{1}] = SpendVolume(p, SpendStart(p), o)
  <2>1. iter[{1}] = SpendVolume(p, iter[{1} \ {Max({1})}], locks[Max({1})])
    BY <1>2, <1>5
  <2>2. iter[{}] = SpendStart(p)
    BY <1>5
  <2>3. QED BY <1>2, <1>6, <2>1, <2>2, GreatestOfTwo
<1>8. QED BY <1>1, <1>6, <1>7

LEMMA SpendTwo ==
  ASSUME NEW p, NEW o, NEW q
  PROVE SpendAll(p, <<o, q>>) = SpendVolume(p, SpendVolume(p, SpendStart(p), o), q)
<1> DEFINE S == {1, 2}
           locks == <<o, q>>
           step(g, T) == IF T = {} THEN SpendStart(p)
                         ELSE SpendVolume(p, g[T \ {Max(T)}], locks[Max(T)])
           folds(g) == g = [T \in SUBSET S |-> step(g, T)]
           iter == CHOOSE g : folds(g)
           first == SpendVolume(p, SpendStart(p), o)
           done == [T \in SUBSET S |->
                      IF T = {} THEN SpendStart(p)
                      ELSE IF T = {1} THEN first
                      ELSE IF T = {2} THEN SpendVolume(p, SpendStart(p), q)
                      ELSE SpendVolume(p, first, q)]
<1>1. SpendAll(p, locks) = iter[S]
  <2>1. DOMAIN locks = S
    OBVIOUS
  <2>2. QED BY <2>1 DEF SpendAll, FoldLeft, MapThenFoldSet, SpendStart
<1>2. /\ SUBSET S = {{}, {1}, {2}, {1, 2}}
      /\ {1} \ {1} = {} /\ {2} \ {2} = {} /\ {1, 2} \ {2} = {1}
      /\ {1} # {2} /\ {1, 2} # {1} /\ {1, 2} # {2} /\ {1} # {} /\ {2} # {} /\ {1, 2} # {}
  OBVIOUS
<1>3. folds(done)
  <2>1. step(done, {}) = done[{}]
    BY <1>2
  <2>2. step(done, {1}) = done[{1}]
    BY <1>2, GreatestOfTwo
  <2>3. step(done, {2}) = done[{2}]
    BY <1>2, GreatestOfTwo
  <2>4. step(done, {1, 2}) = done[{1, 2}]
    BY <1>2, GreatestOfTwo
  <2> HIDE DEF step
  <2>5. QED BY <1>2, <2>1, <2>2, <2>3, <2>4
<1>4. folds(iter)
  <2> HIDE DEF folds
  <2>1. QED BY <1>3
<1> HIDE DEF iter
<1>5. iter[{}] = step(iter, {}) /\ iter[{1}] = step(iter, {1}) /\ iter[{1, 2}] = step(iter, {1, 2})
  <2> HIDE DEF step
  <2>1. QED BY <1>2, <1>4
<1>6. locks = <<o, q>> /\ locks[1] = o /\ locks[2] = q
  OBVIOUS
<1> HIDE DEF locks
<1>7. iter[{}] = SpendStart(p)
  BY <1>5
<1>8. iter[{1}] = first
  <2>1. iter[{1}] = SpendVolume(p, iter[{1} \ {Max({1})}], locks[Max({1})])
    BY <1>2, <1>5
  <2>2. QED BY <1>2, <1>6, <1>7, <2>1, GreatestOfTwo
<1>9. iter[{1, 2}] = SpendVolume(p, first, q)
  <2>1. iter[{1, 2}] = SpendVolume(p, iter[{1, 2} \ {Max({1, 2})}], locks[Max({1, 2})])
    BY <1>2, <1>5
  <2> HIDE DEF first
  <2>2. QED BY <1>2, <1>6, <1>8, <2>1, GreatestOfTwo
<1>10. QED BY <1>1, <1>6, <1>9

\* What one lock takes of a token.
TakenBy(o, t) == IF o.ad_token = t THEN Scaled(o) ELSE 0

\* What locks draw, of one token or on one ad, among one lock and among two.
LEMMA SumOfOneLock ==
  ASSUME NEW o, Scaled(o) \in Nat, NEW here, here = {} \/ here = {1}
  PROVE SumOver(here, AmountsOf(<<o>>)) = IF here = {1} THEN Scaled(o) ELSE 0
<1>1. PICK f : f = AmountsOf(<<o>>)
  OBVIOUS
<1>2. f[1] = Scaled(o)
  BY <1>1 DEF AmountsOf
<1>3. SumOver({1}, f) = f[1]
  BY <1>2, SumOfOne
<1>4. SumOver({}, f) = 0 /\ {} # {1}
  BY SumEmpty
<1>5. QED BY <1>1, <1>2, <1>3, <1>4

LEMMA SumOfTwoLocks ==
  ASSUME NEW o, NEW q, Scaled(o) \in Nat, Scaled(q) \in Nat, NEW first \in BOOLEAN,
         NEW second \in BOOLEAN, NEW here,
         here = (IF first THEN {1} ELSE {}) \cup (IF second THEN {2} ELSE {})
  PROVE SumOver(here, AmountsOf(<<o, q>>)) =
          (IF first THEN Scaled(o) ELSE 0) + (IF second THEN Scaled(q) ELSE 0)
<1>1. PICK f : f = AmountsOf(<<o, q>>)
  OBVIOUS
<1>2. f[1] = Scaled(o) /\ f[2] = Scaled(q)
  BY <1>1 DEF AmountsOf
<1>3. SumOver({1}, f) = f[1] /\ SumOver({2}, f) = f[2]
  BY <1>2, SumOfOne
<1>4. SumOver({1, 2}, f) = f[1] + f[2]
  <2>1. 1 # 2
    OBVIOUS
  <2>2. QED BY <1>2, <2>1, SumOfTwo
<1>5. SumOver({}, f) = 0
  BY SumEmpty
<1>6. CASE first /\ second
  <2>1. here = {1, 2}
    BY <1>6
  <2>2. QED BY <1>1, <1>2, <1>4, <1>6, <2>1
<1>7. CASE first /\ ~second
  <2>1. here = {1}
    BY <1>7
  <2>2. QED BY <1>1, <1>2, <1>3, <1>7, <2>1
<1>8. CASE ~first /\ second
  <2>1. here = {2}
    BY <1>8
  <2>2. QED BY <1>1, <1>2, <1>3, <1>8, <2>1
<1>9. CASE ~first /\ ~second
  <2>1. here = {}
    BY <1>9
  <2>2. QED BY <1>1, <1>5, <1>9, <2>1
<1>10. QED BY <1>6, <1>7, <1>8, <1>9

LEMMA TakenOfOne ==
  ASSUME NEW o, Scaled(o) \in Nat, NEW t
  PROVE Taken(<<o>>, t) = TakenBy(o, t)
<1>1. PICK here : here = {i \in DOMAIN <<o>> : <<o>>[i].ad_token = t}
  OBVIOUS
<1>2. here = IF o.ad_token = t THEN {1} ELSE {}
  <2>1. DOMAIN <<o>> = {1} /\ <<o>>[1] = o
    OBVIOUS
  <2>2. QED BY <1>1, <2>1
<1>3. SumOver(here, AmountsOf(<<o>>)) = IF here = {1} THEN Scaled(o) ELSE 0
  <2>1. here = {} \/ here = {1}
    BY <1>2
  <2>2. QED BY <2>1, SumOfOneLock
<1>4. QED BY <1>1, <1>2, <1>3 DEF Taken, TakenBy

LEMMA TakenOfTwo ==
  ASSUME NEW o, NEW q, Scaled(o) \in Nat, Scaled(q) \in Nat, NEW t
  PROVE Taken(<<o, q>>, t) = TakenBy(o, t) + TakenBy(q, t)
<1>1. PICK here : here = {i \in DOMAIN <<o, q>> : <<o, q>>[i].ad_token = t}
  OBVIOUS
<1>2. PICK first \in BOOLEAN, second \in BOOLEAN :
        first = (o.ad_token = t) /\ second = (q.ad_token = t)
  OBVIOUS
<1>3. here = (IF first THEN {1} ELSE {}) \cup (IF second THEN {2} ELSE {})
  <2>1. DOMAIN <<o, q>> = {1, 2} /\ <<o, q>>[1] = o /\ <<o, q>>[2] = q
    OBVIOUS
  <2>2. QED BY <1>1, <1>2, <2>1
<1>4. SumOver(here, AmountsOf(<<o, q>>)) =
        (IF first THEN Scaled(o) ELSE 0) + (IF second THEN Scaled(q) ELSE 0)
  BY <1>3, SumOfTwoLocks
<1>5. Taken(<<o, q>>, t) = SumOver(here, AmountsOf(<<o, q>>))
  BY <1>1 DEF Taken
<1>6. /\ TakenBy(o, t) = IF first THEN Scaled(o) ELSE 0
      /\ TakenBy(q, t) = IF second THEN Scaled(q) ELSE 0
  BY <1>2 DEF TakenBy
<1>7. QED BY <1>4, <1>5, <1>6

-----------------------------------------------------------------------------
(* The account's limits and the agents' policies.                          *)

\* Buckets that were written, each under the rule its policy has for the token,
\* and the account's volumes.
BucketsOK(p, buckets) ==
  /\ buckets \in [Tokens -> Bucket \cup {Nil}]
  /\ \A t \in Tokens : buckets[t] # Nil =>
       p.ad_tokens[t] # Nil /\ GoodBucket(p.ad_tokens[t].rate, buckets[t], now)

VolumesOK(v) ==
  /\ v \in [Tokens -> AccountVolume \cup {Nil}]
  /\ \A t \in Tokens : v[t] # Nil => GoodBucket(v[t].limit, v[t].bucket, now)

\* What they have left of a token.
BucketLeft(p, buckets, t) ==
  IF t \in AdTokens(p)
    THEN Available(p.ad_tokens[t].rate, BucketFor(p, buckets, t), now) ELSE 0
VolumeLeft(v, t) == IF v[t] = Nil THEN 0 ELSE Available(v[t].limit, v[t].bucket, now)

PoliciesInv ==
  /\ policies \in [Agents -> AgentRow \cup {Nil}]
  /\ agentLeft \in [Agents -> [Tokens -> Nat]]
  /\ \A a \in Agents : policies[a] # Nil => BucketsOK(policies[a], policies[a].buckets)
  /\ \A a \in Agents, t \in Tokens : AgentAvailable(a, t) = agentLeft[a][t]

VolumesInv ==
  /\ volumeLeft \in [Tokens -> Nat]
  /\ VolumesOK(volume)
  /\ \A t \in Tokens : VolumeAvailable(t) = volumeLeft[t]

AllowancesInv == PoliciesInv /\ VolumesInv

LEMMA AllowancesInit == AgentAccountInit => AllowancesInv
BY DEF AgentAccountInit, AllowancesInv, PoliciesInv, VolumesInv, VolumesOK, AgentAvailable,
       VolumeAvailable

LEMMA AllowancesSame ==
  ASSUME AllowancesInv, now' = now, UNCHANGED volumeVars, UNCHANGED policyVars
  PROVE AllowancesInv'
BY DEF AllowancesInv, PoliciesInv, VolumesInv, VolumesOK, BucketsOK, AgentAvailable,
       VolumeAvailable, volumeVars, policyVars, BucketFor

\* One lock: it must fit both allowances, and comes off both.
LEMMA SpendVolumeStep ==
  ASSUME now \in Nat, NEW p \in AgentRow, NEW o \in Orders,
         NEW acc, acc = [ok |-> acc.ok, buckets |-> acc.buckets, volume |-> acc.volume],
         BucketsOK(p, acc.buckets), VolumesOK(acc.volume),
         p.ad_tokens[o.ad_token] # Nil, acc.volume[o.ad_token] # Nil, Scaled(o) \in Nat,
         NEW r, r = SpendVolume(p, acc, o), r.ok
  PROVE /\ r = [ok |-> r.ok, buckets |-> r.buckets, volume |-> r.volume]
        /\ acc.ok
        /\ BucketsOK(p, r.buckets) /\ VolumesOK(r.volume)
        /\ \A t \in Tokens : acc.volume[t] # Nil => r.volume[t] # Nil
        /\ \A t \in Tokens :
             /\ BucketLeft(p, r.buckets, t) = BucketLeft(p, acc.buckets, t) - TakenBy(o, t)
             /\ VolumeLeft(r.volume, t) = VolumeLeft(acc.volume, t) - TakenBy(o, t)
             /\ BucketLeft(p, r.buckets, t) \in Nat /\ VolumeLeft(r.volume, t) \in Nat
<1> DEFINE token == o.ad_token
           amount == Scaled(o)
           rule == p.ad_tokens[token]
           bucket == BucketFor(p, acc.buckets, token)
           vol == acc.volume[token]
           spentBucket == Spent(rule.rate, bucket, amount, now)
           spentVolume == Spent(vol.limit, vol.bucket, amount, now)
<1>1. token \in Tokens
  BY AgentAccountAssumption DEF OrderInput
<1>2. rule \in [max_per_order : Nat, rate : Limit]
  BY <1>1 DEF AgentRow, TokenRules
<1>3. rule.rate \in Limit
  BY <1>2
<1>4. GoodBucket(rule.rate, bucket, now)
  <2>1. CASE acc.buckets[token] = Nil
    BY <1>3, <2>1, FullBucket DEF BucketFor
  <2>2. CASE acc.buckets[token] # Nil
    BY <1>1, <2>2 DEF BucketFor, BucketsOK
  <2>3. QED BY <2>1, <2>2
<1>5. vol \in AccountVolume /\ GoodBucket(vol.limit, vol.bucket, now)
  BY <1>1 DEF VolumesOK
<1>6. /\ acc.ok /\ CanSpend(rule.rate, bucket, amount, now)
      /\ CanSpend(vol.limit, vol.bucket, amount, now)
      /\ r.buckets = [acc.buckets EXCEPT ![token] = spentBucket]
      /\ r.volume = [acc.volume EXCEPT ![token].bucket = spentVolume]
      /\ r = [ok |-> r.ok, buckets |-> r.buckets, volume |-> r.volume]
  BY DEF SpendVolume
<1>7. /\ GoodBucket(rule.rate, spentBucket, now)
      /\ Available(rule.rate, spentBucket, now) = Available(rule.rate, bucket, now) - amount
  BY <1>4, <1>6, SpentBucket
<1>8. /\ GoodBucket(vol.limit, spentVolume, now)
      /\ Available(vol.limit, spentVolume, now) = Available(vol.limit, vol.bucket, now) - amount
  BY <1>5, <1>6, SpentBucket
<1>9. spentBucket \in Bucket /\ spentBucket # Nil /\ spentVolume \in Bucket
  BY <1>7, <1>8, AgentAccountAssumption DEF GoodBucket
<1> HIDE DEF spentBucket, spentVolume
<1>10. PICK v : v = [vol EXCEPT !.bucket = spentVolume]
  OBVIOUS
<1>11. v \in AccountVolume /\ v.limit = vol.limit /\ v.bucket = spentVolume /\ v # Nil
  BY <1>5, <1>9, <1>10, AgentAccountAssumption DEF AccountVolume
<1>12. r.volume = [acc.volume EXCEPT ![token] = v]
  BY <1>6, <1>10
<1>13. BucketsOK(p, r.buckets)
  BY <1>1, <1>6, <1>7, <1>9 DEF BucketsOK
<1>14. VolumesOK(r.volume)
  <2>1. r.volume \in [Tokens -> AccountVolume \cup {Nil}]
    BY <1>11, <1>12 DEF VolumesOK
  <2>2. ASSUME NEW t \in Tokens, r.volume[t] # Nil
        PROVE GoodBucket(r.volume[t].limit, r.volume[t].bucket, now)
    <3>1. CASE t = token
      <4>1. r.volume[t] = v
        BY <1>12, <3>1 DEF VolumesOK
      <4>2. QED BY <1>8, <1>11, <4>1
    <3>2. CASE t # token
      <4>1. r.volume[t] = acc.volume[t]
        BY <1>12, <3>2 DEF VolumesOK
      <4>2. QED BY <2>2, <4>1 DEF VolumesOK
    <3>3. QED BY <3>1, <3>2
  <2>3. QED BY <2>1, <2>2 DEF VolumesOK
<1>15. ASSUME NEW t \in Tokens
       PROVE /\ BucketLeft(p, r.buckets, t) = BucketLeft(p, acc.buckets, t) - TakenBy(o, t)
             /\ VolumeLeft(r.volume, t) = VolumeLeft(acc.volume, t) - TakenBy(o, t)
             /\ BucketLeft(p, r.buckets, t) \in Nat /\ VolumeLeft(r.volume, t) \in Nat
             /\ acc.volume[t] # Nil => r.volume[t] # Nil
  <2>1. CASE t = token
    <3>1. r.buckets[t] = spentBucket /\ r.volume[t] = v
      BY <1>6, <1>12, <2>1 DEF BucketsOK, VolumesOK
    <3>2. t \in AdTokens(p)
      BY <2>1 DEF AdTokens
    <3>3. /\ BucketLeft(p, r.buckets, t) = Available(rule.rate, spentBucket, now)
          /\ BucketLeft(p, acc.buckets, t) = Available(rule.rate, bucket, now)
      BY <1>9, <2>1, <3>1, <3>2 DEF BucketLeft, BucketFor
    <3>4. /\ VolumeLeft(r.volume, t) = Available(vol.limit, spentVolume, now)
          /\ VolumeLeft(acc.volume, t) = Available(vol.limit, vol.bucket, now)
      BY <1>11, <2>1, <3>1 DEF VolumeLeft
    <3>5. TakenBy(o, t) = amount
      BY <2>1 DEF TakenBy
    <3>6. /\ Available(rule.rate, spentBucket, now) \in Nat
          /\ Available(vol.limit, spentVolume, now) \in Nat
      BY <1>7, <1>8, AvailableType DEF GoodBucket
    <3>7. QED BY <1>7, <1>8, <1>11, <3>1, <3>3, <3>4, <3>5, <3>6
  <2>2. CASE t # token
    <3>1. r.buckets[t] = acc.buckets[t] /\ r.volume[t] = acc.volume[t]
      BY <1>6, <1>12, <2>2 DEF BucketsOK, VolumesOK
    <3>2. /\ BucketLeft(p, r.buckets, t) = BucketLeft(p, acc.buckets, t)
          /\ VolumeLeft(r.volume, t) = VolumeLeft(acc.volume, t)
      BY <3>1 DEF BucketLeft, BucketFor, VolumeLeft
    <3>3. TakenBy(o, t) = 0
      BY <2>2 DEF TakenBy
    <3>4. BucketLeft(p, acc.buckets, t) \in Nat
      <4>1. CASE t \notin AdTokens(p)
        BY <4>1 DEF BucketLeft
      <4>2. CASE t \in AdTokens(p)
        <5>1. p.ad_tokens[t].rate \in Limit
          BY <4>2 DEF AdTokens, AgentRow, TokenRules
        <5>2. GoodBucket(p.ad_tokens[t].rate, BucketFor(p, acc.buckets, t), now)
          <6>1. CASE acc.buckets[t] = Nil
            BY <5>1, <6>1, FullBucket DEF BucketFor
          <6>2. CASE acc.buckets[t] # Nil
            BY <6>2 DEF BucketFor, BucketsOK
          <6>3. QED BY <6>1, <6>2
        <5>3. QED BY <4>2, <5>2, AvailableType DEF BucketLeft, GoodBucket
      <4>3. QED BY <4>1, <4>2
    <3>5. VolumeLeft(acc.volume, t) \in Nat
      <4>1. CASE acc.volume[t] = Nil
        BY <4>1 DEF VolumeLeft
      <4>2. CASE acc.volume[t] # Nil
        BY <4>2, AvailableType DEF VolumeLeft, VolumesOK, GoodBucket
      <4>3. QED BY <4>1, <4>2
    <3>6. QED BY <3>1, <3>2, <3>3, <3>4, <3>5
  <2>3. QED BY <2>1, <2>2
<1>16. QED BY <1>6, <1>13, <1>14, <1>15

LEMMA PoliciesSame ==
  ASSUME PoliciesInv, now' = now, UNCHANGED policyVars PROVE PoliciesInv'
BY DEF PoliciesInv, BucketsOK, AgentAvailable, policyVars, BucketFor

LEMMA VolumesSame ==
  ASSUME VolumesInv, now' = now, UNCHANGED volumeVars PROVE VolumesInv'
BY DEF VolumesInv, VolumesOK, VolumeAvailable, volumeVars

\* set_account_limit: the new bucket has what the old one had left, clamped.
LEMMA VolumesSetLimit ==
  ASSUME now \in Nat, VolumesInv, NEW t \in Tokens, NEW limit \in Limits, SetAccountLimit(t, limit)
  PROVE VolumesInv'
<1> DEFINE cur == volume[t]
           bucket == IF cur = Nil THEN Full(limit, now)
                     ELSE Settle(cur.limit, limit, cur.bucket, now)
           left == IF cur = Nil THEN limit.capacity ELSE Capped(volumeLeft[t], limit.capacity)
<1>1. limit \in Limit
  BY AgentAccountAssumption
<1>2. /\ now' = now
      /\ volume' = [volume EXCEPT ![t] = [limit |-> limit, bucket |-> bucket]]
      /\ volumeLeft' = [volumeLeft EXCEPT ![t] = left]
  BY DEF SetAccountLimit
<1>3. GoodBucket(limit, bucket, now) /\ Available(limit, bucket, now) = left
  <2>1. CASE cur = Nil
    BY <1>1, <2>1, FullBucket
  <2>2. CASE cur # Nil
    <3>1. GoodBucket(cur.limit, cur.bucket, now)
      BY <2>2 DEF VolumesInv, VolumesOK
    <3>2. Available(cur.limit, cur.bucket, now) = volumeLeft[t]
      BY <2>2 DEF VolumesInv, VolumeAvailable
    <3>3. QED BY <1>1, <2>2, <3>1, <3>2, SettledBucket
  <2>3. QED BY <2>1, <2>2
<1> HIDE DEF bucket, left
<1>4. bucket \in Bucket /\ left \in Nat
  BY <1>1, <1>3, AvailableType DEF GoodBucket
<1>5. PICK row : row = [limit |-> limit, bucket |-> bucket]
  OBVIOUS
<1>6. row \in AccountVolume /\ row.limit = limit /\ row.bucket = bucket /\ row # Nil
  BY <1>1, <1>4, <1>5, AgentAccountAssumption DEF AccountVolume
<1>7. volume' = [volume EXCEPT ![t] = row]
  BY <1>2, <1>5
<1>8. VolumesOK(volume)'
  <2>1. volume' \in [Tokens -> AccountVolume \cup {Nil}]
    BY <1>6, <1>7 DEF VolumesInv, VolumesOK
  <2>2. ASSUME NEW u \in Tokens, volume'[u] # Nil
        PROVE GoodBucket(volume'[u].limit, volume'[u].bucket, now')
    <3>1. CASE u = t
      BY <1>2, <1>3, <1>6, <1>7, <3>1 DEF VolumesInv, VolumesOK
    <3>2. CASE u # t
      BY <1>2, <1>7, <2>2, <3>2 DEF VolumesInv, VolumesOK
    <3>3. QED BY <3>1, <3>2
  <2>3. QED BY <2>1, <2>2 DEF VolumesOK
<1>9. volumeLeft' \in [Tokens -> Nat]
  BY <1>2, <1>4 DEF VolumesInv
<1>10. ASSUME NEW u \in Tokens PROVE VolumeAvailable(u)' = volumeLeft'[u]
  <2>1. CASE u = t
    <3>1. volume'[u] = row /\ volumeLeft'[u] = left
      BY <1>2, <1>7, <2>1 DEF VolumesInv, VolumesOK
    <3>2. QED BY <1>2, <1>3, <1>6, <3>1 DEF VolumeAvailable
  <2>2. CASE u # t
    <3>1. volume'[u] = volume[u] /\ volumeLeft'[u] = volumeLeft[u]
      BY <1>2, <1>7, <2>2 DEF VolumesInv, VolumesOK
    <3>2. QED BY <1>2, <3>1 DEF VolumeAvailable, VolumesInv
  <2>3. QED BY <2>1, <2>2
<1>11. QED BY <1>8, <1>9, <1>10 DEF VolumesInv

\* A policy written whole, with its allowances beside it.
LEMMA PolicyWritten ==
  ASSUME PoliciesInv, now' = now, NEW agent \in Agents, NEW row \in AgentRow,
         BucketsOK(row, row.buckets), NEW left \in [Tokens -> Nat],
         \A t \in Tokens : BucketLeft(row, row.buckets, t) = left[t],
         policies' = [policies EXCEPT ![agent] = row],
         agentLeft' = [agentLeft EXCEPT ![agent] = left]
  PROVE PoliciesInv'
<1>1. row # Nil
  BY AgentAccountAssumption
<1>2. /\ policies' \in [Agents -> AgentRow \cup {Nil}]
      /\ agentLeft' \in [Agents -> [Tokens -> Nat]]
  BY DEF PoliciesInv
<1>3. ASSUME NEW a \in Agents
      PROVE /\ policies'[a] # Nil => BucketsOK(policies[a], policies[a].buckets)'
            /\ \A t \in Tokens : AgentAvailable(a, t)' = agentLeft'[a][t]
  <2>1. CASE a = agent
    <3>1. policies'[a] = row /\ agentLeft'[a] = left
      BY <2>1 DEF PoliciesInv
    <3>2. BucketsOK(policies[a], policies[a].buckets)'
      BY <3>1 DEF BucketsOK
    <3>3. \A t \in Tokens : AgentAvailable(a, t)' = BucketLeft(row, row.buckets, t)
      BY <1>1, <3>1 DEF AgentAvailable, BucketLeft, BucketFor
    <3>4. QED BY <3>1, <3>2, <3>3
  <2>2. CASE a # agent
    <3>1. policies'[a] = policies[a] /\ agentLeft'[a] = agentLeft[a]
      BY <2>2 DEF PoliciesInv
    <3>2. policies[a] # Nil => BucketsOK(policies[a], policies[a].buckets)'
      BY <3>1 DEF PoliciesInv, BucketsOK
    <3>3. \A t \in Tokens : AgentAvailable(a, t)' = AgentAvailable(a, t)
      BY <3>1 DEF AgentAvailable, BucketFor
    <3>4. QED BY <3>1, <3>2, <3>3 DEF PoliciesInv
  <2>3. QED BY <2>1, <2>2
<1>4. QED BY <1>2, <1>3 DEF PoliciesInv

\* The row a policy is stored in has the policy's fields.
LEMMA PolicyRowFields ==
  ASSUME NEW p \in PolicyInput, NEW buckets \in [Tokens -> Bucket \cup {Nil}]
  PROVE /\ PolicyRow(p, buckets) \in AgentRow
        /\ PolicyRow(p, buckets).ad_tokens = p.ad_tokens
        /\ PolicyRow(p, buckets).buckets = buckets
BY DEF PolicyRow, PolicyInput, AgentRow

\* set_policy: an instant tightening keeps what each token had left, clamped; any
\* other write starts full.
LEMMA PoliciesSetPolicy ==
  ASSUME now \in Nat, PoliciesInv, NEW agent \in Agents, NEW p \in Policies, SetPolicy(agent, p)
  PROVE PoliciesInv'
<1> DEFINE cur == policies[agent]
           carried == AnyGuarded /\ cur # Nil /\ IsPolicyTightening(cur, p)
           left == [t \in Tokens |->
                      IF t \notin AdTokens(p) THEN 0
                      ELSE IF carried THEN Capped(agentLeft[agent][t], p.ad_tokens[t].rate.capacity)
                      ELSE p.ad_tokens[t].rate.capacity]
<1>1. p \in PolicyInput
  BY AgentAccountAssumption
<1>2. \A t \in AdTokens(p) : p.ad_tokens[t].rate \in Limit /\ p.ad_tokens[t] # Nil /\ t \in Tokens
  BY <1>1 DEF AdTokens, PolicyInput, TokenRules
<1>3. PICK buckets :
        buckets = IF carried THEN CarryBuckets(cur, p) ELSE [t \in Tokens |-> Nil]
  OBVIOUS
<1>4. /\ now' = now
      /\ policies' = [policies EXCEPT ![agent] = PolicyRow(p, buckets)]
      /\ agentLeft' = [agentLeft EXCEPT ![agent] = left]
  BY <1>3 DEF SetPolicy
<1>5. ASSUME NEW t \in Tokens, buckets[t] # Nil
      PROVE /\ carried /\ t \in AdTokens(p) /\ t \in AdTokens(cur)
            /\ GoodBucket(p.ad_tokens[t].rate, buckets[t], now)
            /\ Available(p.ad_tokens[t].rate, buckets[t], now) =
                 Capped(agentLeft[agent][t], p.ad_tokens[t].rate.capacity)
  <2>1. /\ carried /\ t \in AdTokens(p) /\ cur.buckets[t] # Nil
        /\ buckets[t] = Settle(cur.ad_tokens[t].rate, p.ad_tokens[t].rate, cur.buckets[t], now)
    BY <1>3, <1>5 DEF CarryBuckets
  <2>2. /\ GoodBucket(cur.ad_tokens[t].rate, cur.buckets[t], now) /\ cur.ad_tokens[t] # Nil
    BY <2>1 DEF PoliciesInv, BucketsOK
  <2>3. Available(cur.ad_tokens[t].rate, cur.buckets[t], now) = agentLeft[agent][t]
    <3>1. t \in AdTokens(cur)
      BY <2>2 DEF AdTokens
    <3>2. AgentAvailable(agent, t) = Available(cur.ad_tokens[t].rate, cur.buckets[t], now)
      BY <2>1, <3>1 DEF AgentAvailable, BucketFor
    <3>3. QED BY <3>2 DEF PoliciesInv
  <2>4. QED BY <1>2, <2>1, <2>2, <2>3, SettledBucket DEF AdTokens
<1>6. ASSUME NEW t \in AdTokens(p), carried, buckets[t] = Nil
      PROVE Capped(agentLeft[agent][t], p.ad_tokens[t].rate.capacity) = p.ad_tokens[t].rate.capacity
  <2>1. cur.buckets[t] = Nil
    <3>1. SUFFICES ASSUME cur.buckets[t] # Nil PROVE FALSE
      OBVIOUS
    <3>2. GoodBucket(cur.ad_tokens[t].rate, cur.buckets[t], now)
      BY <1>2, <1>6, <3>1 DEF PoliciesInv, BucketsOK
    <3>3. Settle(cur.ad_tokens[t].rate, p.ad_tokens[t].rate, cur.buckets[t], now) \in Bucket
      BY <1>2, <3>2, SettledBucket DEF GoodBucket
    <3>4. buckets[t] = Settle(cur.ad_tokens[t].rate, p.ad_tokens[t].rate, cur.buckets[t], now)
      BY <1>2, <1>3, <1>6, <3>1 DEF CarryBuckets
    <3>5. QED BY <1>6, <3>3, <3>4, AgentAccountAssumption
  <2>2. /\ cur # Nil /\ cur.ad_tokens[t] # Nil
        /\ p.ad_tokens[t].rate.capacity <= cur.ad_tokens[t].rate.capacity
    BY <1>6 DEF IsPolicyTightening
  <2>3. t \in AdTokens(cur) /\ cur.ad_tokens[t].rate \in Limit
    BY <1>2, <2>2 DEF AdTokens, PoliciesInv, AgentRow, TokenRules
  <2>4. AgentAvailable(agent, t) =
          Available(cur.ad_tokens[t].rate, Full(cur.ad_tokens[t].rate, now), now)
    BY <2>1, <2>2, <2>3 DEF AgentAvailable, BucketFor
  <2>5. agentLeft[agent][t] = cur.ad_tokens[t].rate.capacity
    BY <1>2, <2>3, <2>4, FullBucket DEF PoliciesInv
  <2>6. p.ad_tokens[t].rate.capacity \in Nat /\ cur.ad_tokens[t].rate.capacity \in Nat
    BY <1>2, <2>3 DEF Limit
  <2>7. QED BY <2>2, <2>5, <2>6 DEF Capped
<1>7. buckets \in [Tokens -> Bucket \cup {Nil}]
  <2>1. \A t \in Tokens : buckets[t] \in Bucket \cup {Nil}
    BY <1>5 DEF GoodBucket
  <2>2. buckets = [t \in Tokens |-> buckets[t]]
    BY <1>3 DEF CarryBuckets
  <2>3. QED BY <2>1, <2>2
<1> HIDE DEF carried, cur, left
<1>8. PICK row : row = PolicyRow(p, buckets)
  OBVIOUS
<1>9. row \in AgentRow /\ row.ad_tokens = p.ad_tokens /\ row.buckets = buckets
  BY <1>1, <1>7, <1>8, PolicyRowFields
<1>10. BucketsOK(row, row.buckets)
  <2>1. \A t \in Tokens : buckets[t] # Nil => p.ad_tokens[t] # Nil
    BY <1>2, <1>5
  <2>2. QED BY <1>5, <1>7, <1>9, <2>1 DEF BucketsOK
<1>11. ASSUME NEW t \in Tokens
       PROVE BucketLeft(row, row.buckets, t) = left[t] /\ left[t] \in Nat
  <2>1. AdTokens(row) = AdTokens(p)
    BY <1>9 DEF AdTokens
  <2>2. CASE t \notin AdTokens(p)
    BY <2>1, <2>2 DEF BucketLeft, left
  <2>3. CASE t \in AdTokens(p)
    <3>1. p.ad_tokens[t].rate \in Limit /\ p.ad_tokens[t].rate.capacity \in Nat
      BY <1>2, <2>3 DEF Limit
    <3>2. BucketLeft(row, row.buckets, t) =
            Available(p.ad_tokens[t].rate,
                      IF buckets[t] = Nil THEN Full(p.ad_tokens[t].rate, now) ELSE buckets[t], now)
      BY <1>9, <2>1, <2>3 DEF BucketLeft, BucketFor
    <3>3. left[t] = IF carried THEN Capped(agentLeft[agent][t], p.ad_tokens[t].rate.capacity)
                    ELSE p.ad_tokens[t].rate.capacity
      BY <2>3 DEF left
    <3>4. CASE buckets[t] = Nil
      <4>1. Available(p.ad_tokens[t].rate, Full(p.ad_tokens[t].rate, now), now) =
              p.ad_tokens[t].rate.capacity
        BY <3>1, FullBucket
      <4>2. QED BY <1>6, <2>3, <3>1, <3>2, <3>3, <3>4, <4>1
    <3>5. CASE buckets[t] # Nil
      <4>1. Available(p.ad_tokens[t].rate, buckets[t], now) = left[t]
        BY <1>5, <3>3, <3>5
      <4>2. Available(p.ad_tokens[t].rate, buckets[t], now) \in Nat
        BY <1>5, <3>5, AvailableType DEF GoodBucket
      <4>3. QED BY <3>2, <3>5, <4>1, <4>2
    <3>6. QED BY <3>4, <3>5
  <2>4. QED BY <2>2, <2>3
<1>12. left \in [Tokens -> Nat]
  BY <1>11 DEF left
<1>13. QED BY <1>4, <1>8, <1>9, <1>10, <1>11, <1>12, PolicyWritten

\* revoke_agent leaves what the agent had left.
LEMMA PoliciesRevoked ==
  ASSUME PoliciesInv, NEW agent \in Agents, RevokeAgent(agent)
  PROVE PoliciesInv'
<1>1. /\ now' = now /\ policies[agent] # Nil /\ agentLeft' = agentLeft
      /\ policies' = [policies EXCEPT ![agent].revoked = TRUE]
  BY DEF RevokeAgent, policyVars
<1>2. PICK p : p = policies[agent]
  OBVIOUS
<1>3. p \in AgentRow
  BY <1>1, <1>2 DEF PoliciesInv
<1>4. PICK row : row = [p EXCEPT !.revoked = TRUE]
  OBVIOUS
<1>5. row \in AgentRow /\ row.ad_tokens = p.ad_tokens /\ row.buckets = p.buckets
  BY <1>3, <1>4 DEF AgentRow
<1>6. policies' = [policies EXCEPT ![agent] = row]
  BY <1>1, <1>2, <1>4
<1>7. BucketsOK(row, row.buckets)
  BY <1>1, <1>2, <1>5 DEF PoliciesInv, BucketsOK
<1>8. ASSUME NEW t \in Tokens PROVE BucketLeft(row, row.buckets, t) = agentLeft[agent][t]
  <2>1. AgentAvailable(agent, t) = BucketLeft(row, row.buckets, t)
    BY <1>1, <1>2, <1>5 DEF AgentAvailable, BucketLeft, BucketFor, AdTokens
  <2>2. QED BY <2>1 DEF PoliciesInv
<1>9. PICK left : left = agentLeft[agent]
  OBVIOUS
<1>10. left \in [Tokens -> Nat] /\ agentLeft' = [agentLeft EXCEPT ![agent] = left]
  BY <1>1, <1>9 DEF PoliciesInv
<1>11. \A t \in Tokens : BucketLeft(row, row.buckets, t) = left[t]
  BY <1>8, <1>9
<1>12. now' = now
  BY <1>1
<1>13. QED BY <1>5, <1>6, <1>7, <1>10, <1>11, <1>12, PolicyWritten

\* A second refills every allowance; one that was never spent from stays full.
LEMMA VolumesTick ==
  ASSUME now \in Nat, VolumesInv, Tick PROVE VolumesInv'
<1>1. /\ now' = now + 1 /\ volume' = volume
      /\ volumeLeft' = [t \in Tokens |-> IF volume[t] = Nil THEN 0
                                         ELSE Refilled(volumeLeft[t], volume[t].limit)]
  BY DEF Tick
<1>2. ASSUME NEW t \in Tokens, volume[t] # Nil
      PROVE /\ GoodBucket(volume[t].limit, volume[t].bucket, now + 1)
            /\ Available(volume[t].limit, volume[t].bucket, now + 1) =
                 Refilled(volumeLeft[t], volume[t].limit)
            /\ Refilled(volumeLeft[t], volume[t].limit) \in Nat
  <2>1. GoodBucket(volume[t].limit, volume[t].bucket, now)
    BY <1>2 DEF VolumesInv, VolumesOK
  <2>2. Available(volume[t].limit, volume[t].bucket, now) = volumeLeft[t]
    BY <1>2 DEF VolumesInv, VolumeAvailable
  <2>3. /\ GoodBucket(volume[t].limit, volume[t].bucket, now + 1)
        /\ Available(volume[t].limit, volume[t].bucket, now + 1) =
             Refilled(Available(volume[t].limit, volume[t].bucket, now), volume[t].limit)
    BY <2>1, BucketTicks
  <2>4. volume[t].limit \in Limit /\ volume[t].bucket \in Bucket /\ now + 1 \in Nat
    BY <2>1 DEF GoodBucket
  <2>5. QED BY <2>2, <2>3, <2>4, AvailableType
<1>3. volumeLeft' \in [Tokens -> Nat]
  BY <1>1, <1>2 DEF VolumesInv
<1>4. \A t \in Tokens : VolumeAvailable(t)' = volumeLeft'[t]
  BY <1>1, <1>2 DEF VolumeAvailable
<1>5. VolumesOK(volume)'
  BY <1>1, <1>2 DEF VolumesInv, VolumesOK
<1>6. QED BY <1>3, <1>4, <1>5 DEF VolumesInv

LEMMA PoliciesTick ==
  ASSUME now \in Nat, PoliciesInv, Tick PROVE PoliciesInv'
<1>1. /\ now' = now + 1 /\ policies' = policies
      /\ agentLeft' = [a \in Agents |-> [t \in Tokens |->
           IF policies[a] = Nil \/ t \notin AdTokens(policies[a]) THEN 0
           ELSE Refilled(agentLeft[a][t], policies[a].ad_tokens[t].rate)]]
  BY DEF Tick
<1>2. ASSUME NEW a \in Agents, NEW t \in Tokens, policies[a] # Nil, policies[a].buckets[t] # Nil
      PROVE /\ GoodBucket(policies[a].ad_tokens[t].rate, policies[a].buckets[t], now + 1)
            /\ Available(policies[a].ad_tokens[t].rate, policies[a].buckets[t], now + 1) =
                 Refilled(Available(policies[a].ad_tokens[t].rate, policies[a].buckets[t], now),
                          policies[a].ad_tokens[t].rate)
  <2>1. GoodBucket(policies[a].ad_tokens[t].rate, policies[a].buckets[t], now)
    BY <1>2 DEF PoliciesInv, BucketsOK
  <2>2. QED BY <2>1, BucketTicks
<1>3. ASSUME NEW a \in Agents, NEW t \in Tokens
      PROVE AgentAvailable(a, t)' = agentLeft'[a][t] /\ agentLeft'[a][t] \in Nat
  <2>1. CASE policies[a] = Nil \/ t \notin AdTokens(policies[a])
    BY <1>1, <2>1 DEF AgentAvailable, AdTokens
  <2>2. CASE policies[a] # Nil /\ t \in AdTokens(policies[a])
    <3>1. PICK rate : rate = policies[a].ad_tokens[t].rate
      OBVIOUS
    <3>2. rate \in Limit /\ rate.capacity \in Nat /\ rate.refill_per_second \in Nat
      BY <2>2, <3>1 DEF AdTokens, PoliciesInv, AgentRow, TokenRules, Limit
    <3>3. agentLeft'[a][t] = Refilled(agentLeft[a][t], rate)
      BY <1>1, <2>2, <3>1
    <3>4. agentLeft[a][t] = AgentAvailable(a, t) /\ agentLeft[a][t] \in Nat
      BY DEF PoliciesInv
    <3>5. CASE policies[a].buckets[t] = Nil
      <4>1. /\ AgentAvailable(a, t) = Available(rate, Full(rate, now), now)
            /\ AgentAvailable(a, t)' = Available(rate, Full(rate, now + 1), now + 1)
        BY <1>1, <2>2, <3>1, <3>5 DEF AgentAvailable, BucketFor, AdTokens
      <4>2. now + 1 \in Nat
        OBVIOUS
      <4>3. /\ Available(rate, Full(rate, now), now) = rate.capacity
            /\ Available(rate, Full(rate, now + 1), now + 1) = rate.capacity
        BY <3>2, <4>2, FullBucket
      <4>4. Refilled(rate.capacity, rate) = rate.capacity
        BY <3>2 DEF Refilled, Capped
      <4>5. QED BY <3>2, <3>3, <3>4, <4>1, <4>3, <4>4
    <3>6. CASE policies[a].buckets[t] # Nil
      <4>1. PICK bucket : bucket = policies[a].buckets[t]
        OBVIOUS
      <4>2. /\ AgentAvailable(a, t) = Available(rate, bucket, now)
            /\ AgentAvailable(a, t)' = Available(rate, bucket, now + 1)
        BY <1>1, <2>2, <3>1, <3>6, <4>1 DEF AgentAvailable, BucketFor, AdTokens
      <4>3. /\ Available(rate, bucket, now + 1) = Refilled(Available(rate, bucket, now), rate)
            /\ bucket \in Bucket /\ now + 1 \in Nat
        BY <1>2, <2>2, <3>1, <3>6, <4>1 DEF GoodBucket
      <4>4. Available(rate, bucket, now + 1) \in Nat
        BY <3>2, <4>3, AvailableType
      <4>5. QED BY <3>3, <3>4, <4>2, <4>3, <4>4
    <3>7. QED BY <3>5, <3>6
  <2>3. QED BY <2>1, <2>2
<1>4. agentLeft' \in [Agents -> [Tokens -> Nat]]
  <2>1. \A a \in Agents : agentLeft'[a] \in [Tokens -> Nat]
    BY <1>1, <1>3
  <2>2. QED BY <1>1, <2>1
<1>5. ASSUME NEW a \in Agents, policies'[a] # Nil
      PROVE BucketsOK(policies[a], policies[a].buckets)'
  BY <1>1, <1>2, <1>5 DEF PoliciesInv, BucketsOK
<1>6. QED BY <1>1, <1>3, <1>4, <1>5 DEF PoliciesInv

\* An entry's locks come off the agent's buckets and the account's.
LEMMA AllowancesSpent ==
  ASSUME AllowancesInv, NEW agent \in Agents, NEW locks, CheckAuth(agent, locks),
         NEW p, p = policies[agent], NEW after, after = SpendAll(p, locks),
         BucketsOK(p, after.buckets), VolumesOK(after.volume),
         \A t \in Tokens :
           /\ BucketLeft(p, after.buckets, t) = BucketLeft(p, p.buckets, t) - Taken(locks, t)
           /\ VolumeLeft(after.volume, t) = VolumeLeft(volume, t) - Taken(locks, t)
           /\ BucketLeft(p, after.buckets, t) \in Nat /\ VolumeLeft(after.volume, t) \in Nat
  PROVE AllowancesInv'
<1>1. p \in AgentRow /\ p # Nil /\ now' = now
  BY DEF CheckAuth, AllowancesInv, PoliciesInv
<1>2. PICK row : row = [p EXCEPT !.buckets = after.buckets]
  OBVIOUS
<1>3. row \in AgentRow /\ row.ad_tokens = p.ad_tokens /\ row.buckets = after.buckets
  BY <1>1, <1>2 DEF AgentRow, BucketsOK
<1>4. PICK left : left = [t \in Tokens |-> agentLeft[agent][t] - Taken(locks, t)]
  OBVIOUS
<1>5. /\ policies' = [policies EXCEPT ![agent] = row]
      /\ agentLeft' = [agentLeft EXCEPT ![agent] = left]
  BY <1>2, <1>4 DEF CheckAuth
<1>6. /\ volume' = after.volume
      /\ volumeLeft' = [t \in Tokens |-> volumeLeft[t] - Taken(locks, t)]
  BY DEF CheckAuth
<1>7. PoliciesInv'
  <2>1. BucketsOK(row, row.buckets)
    BY <1>3 DEF BucketsOK
  <2>2. ASSUME NEW t \in Tokens
        PROVE BucketLeft(row, row.buckets, t) = left[t] /\ left[t] \in Nat
    <3>1. BucketLeft(row, row.buckets, t) = BucketLeft(p, after.buckets, t)
      BY <1>3 DEF BucketLeft, BucketFor, AdTokens
    <3>2. BucketLeft(p, p.buckets, t) = agentLeft[agent][t]
      <4>1. BucketLeft(p, p.buckets, t) = AgentAvailable(agent, t)
        BY <1>1 DEF BucketLeft, AgentAvailable
      <4>2. QED BY <4>1 DEF AllowancesInv, PoliciesInv
    <3>3. QED BY <1>4, <3>1, <3>2
  <2>3. left \in [Tokens -> Nat]
    BY <1>4, <2>2
  <2>4. PoliciesInv
    BY DEF AllowancesInv
  <2>5. QED BY <1>1, <1>3, <1>5, <2>1, <2>2, <2>3, <2>4, PolicyWritten
<1>8. VolumesInv'
  <2>1. VolumesOK(volume)'
    BY <1>1, <1>6 DEF VolumesOK
  <2>2. ASSUME NEW t \in Tokens
        PROVE VolumeAvailable(t)' = volumeLeft'[t] /\ volumeLeft'[t] \in Nat
    <3>1. VolumeAvailable(t)' = VolumeLeft(after.volume, t) /\ VolumeLeft(volume, t) = volumeLeft[t]
      BY <1>1, <1>6 DEF VolumeAvailable, VolumeLeft, AllowancesInv, VolumesInv
    <3>2. QED BY <1>6, <3>1
  <2>3. volumeLeft' \in [Tokens -> Nat]
    BY <1>6, <2>2
  <2>4. QED BY <2>1, <2>2, <2>3 DEF VolumesInv
<1>9. QED BY <1>7, <1>8 DEF AllowancesInv

\* What an agent's lock needs before its size is compared.
LEMMA LockedAmount ==
  ASSUME NEW p \in AgentRow, NEW o \in Orders, LockAllowed(p, o)
  PROVE Scaled(o) \in Nat /\ p.ad_tokens[o.ad_token] # Nil
<1>1. o.ad_token \in Tokens
  BY AgentAccountAssumption DEF OrderInput
<1>2. /\ p.ad_tokens[o.ad_token] # Nil
      /\ Scaled(o) \in 1..p.ad_tokens[o.ad_token].max_per_order
  BY DEF LockAllowed
<1>3. p.ad_tokens[o.ad_token].max_per_order \in Nat
  BY <1>1, <1>2 DEF AgentRow, TokenRules
<1>4. QED BY <1>2, <1>3

LEMMA AllowancesOneLock ==
  ASSUME now \in Nat, AllowancesInv, NEW agent \in Agents, NEW o \in Orders,
         CheckAuth(agent, <<o>>)
  PROVE AllowancesInv'
<1> DEFINE locks == <<o>>
<1>1. PICK p : p = policies[agent]
  OBVIOUS
<1>2. PICK after : after = SpendAll(p, locks)
  OBVIOUS
<1>3. /\ p # Nil /\ after.ok
      /\ \A i \in 1..Len(locks) : LockAllowed(p, locks[i]) /\ volume[locks[i].ad_token] # Nil
  BY <1>1, <1>2 DEF CheckAuth
<1>4. Len(locks) = 1 /\ locks[1] = o /\ CheckAuth(agent, locks)
  OBVIOUS
<1>5. LockAllowed(p, o) /\ volume[o.ad_token] # Nil
  BY <1>3, <1>4
<1>6. p \in AgentRow /\ BucketsOK(p, p.buckets) /\ VolumesOK(volume)
  BY <1>1, <1>3 DEF AllowancesInv, PoliciesInv, VolumesInv
<1>7. Scaled(o) \in Nat /\ p.ad_tokens[o.ad_token] # Nil
  BY <1>5, <1>6, LockedAmount
<1>8. after = SpendVolume(p, SpendStart(p), o)
  BY <1>2, SpendOne
<1>9. PICK acc : acc = SpendStart(p)
  OBVIOUS
<1>10. /\ acc = [ok |-> acc.ok, buckets |-> acc.buckets, volume |-> acc.volume]
       /\ acc.buckets = p.buckets /\ acc.volume = volume
  BY <1>9 DEF SpendStart
<1>11. /\ BucketsOK(p, after.buckets) /\ VolumesOK(after.volume)
       /\ \A t \in Tokens :
            /\ BucketLeft(p, after.buckets, t) = BucketLeft(p, acc.buckets, t) - TakenBy(o, t)
            /\ VolumeLeft(after.volume, t) = VolumeLeft(acc.volume, t) - TakenBy(o, t)
            /\ BucketLeft(p, after.buckets, t) \in Nat /\ VolumeLeft(after.volume, t) \in Nat
  BY <1>3, <1>5, <1>6, <1>7, <1>8, <1>9, <1>10, SpendVolumeStep
<1>12. \A t \in Tokens : Taken(locks, t) = TakenBy(o, t)
  BY <1>7, TakenOfOne
<1> HIDE DEF locks
<1>13. \A t \in Tokens :
         /\ BucketLeft(p, after.buckets, t) = BucketLeft(p, p.buckets, t) - Taken(locks, t)
         /\ VolumeLeft(after.volume, t) = VolumeLeft(volume, t) - Taken(locks, t)
         /\ BucketLeft(p, after.buckets, t) \in Nat /\ VolumeLeft(after.volume, t) \in Nat
  BY <1>10, <1>11, <1>12
<1>14. QED BY <1>1, <1>2, <1>4, <1>11, <1>13, AllowancesSpent

LEMMA AllowancesTwoLocks ==
  ASSUME now \in Nat, AllowancesInv, NEW agent \in Agents, NEW o \in Orders, NEW q \in Orders,
         CheckAuth(agent, <<o, q>>)
  PROVE AllowancesInv'
<1> DEFINE locks == <<o, q>>
<1>1. PICK p : p = policies[agent]
  OBVIOUS
<1>2. PICK after : after = SpendAll(p, locks)
  OBVIOUS
<1>3. /\ p # Nil /\ after.ok
      /\ \A i \in 1..Len(locks) : LockAllowed(p, locks[i]) /\ volume[locks[i].ad_token] # Nil
  BY <1>1, <1>2 DEF CheckAuth
<1>4. Len(locks) = 2 /\ locks[1] = o /\ locks[2] = q /\ CheckAuth(agent, locks)
  OBVIOUS
<1>5. /\ LockAllowed(p, o) /\ volume[o.ad_token] # Nil
      /\ LockAllowed(p, q) /\ volume[q.ad_token] # Nil
  BY <1>3, <1>4
<1>6. p \in AgentRow /\ BucketsOK(p, p.buckets) /\ VolumesOK(volume)
  BY <1>1, <1>3 DEF AllowancesInv, PoliciesInv, VolumesInv
<1>7. /\ Scaled(o) \in Nat /\ p.ad_tokens[o.ad_token] # Nil
      /\ Scaled(q) \in Nat /\ p.ad_tokens[q.ad_token] # Nil
  BY <1>5, <1>6, LockedAmount
<1>8. PICK acc : acc = SpendStart(p)
  OBVIOUS
<1>9. /\ acc = [ok |-> acc.ok, buckets |-> acc.buckets, volume |-> acc.volume]
      /\ acc.buckets = p.buckets /\ acc.volume = volume
  BY <1>8 DEF SpendStart
<1>10. PICK first : first = SpendVolume(p, acc, o)
  OBVIOUS
<1>11. after = SpendVolume(p, first, q)
  BY <1>2, <1>8, <1>10, SpendTwo
<1>12. first.ok
  BY <1>3, <1>11 DEF SpendVolume
<1>13. /\ first = [ok |-> first.ok, buckets |-> first.buckets, volume |-> first.volume]
       /\ BucketsOK(p, first.buckets) /\ VolumesOK(first.volume)
       /\ \A t \in Tokens : acc.volume[t] # Nil => first.volume[t] # Nil
       /\ \A t \in Tokens :
            /\ BucketLeft(p, first.buckets, t) = BucketLeft(p, acc.buckets, t) - TakenBy(o, t)
            /\ VolumeLeft(first.volume, t) = VolumeLeft(acc.volume, t) - TakenBy(o, t)
            /\ BucketLeft(p, first.buckets, t) \in Nat /\ VolumeLeft(first.volume, t) \in Nat
  BY <1>5, <1>6, <1>7, <1>9, <1>10, <1>12, SpendVolumeStep
<1>14. q.ad_token \in Tokens
  BY AgentAccountAssumption DEF OrderInput
<1>15. first.volume[q.ad_token] # Nil
  BY <1>5, <1>9, <1>13, <1>14
<1>16. /\ BucketsOK(p, after.buckets) /\ VolumesOK(after.volume)
       /\ \A t \in Tokens :
            /\ BucketLeft(p, after.buckets, t) = BucketLeft(p, first.buckets, t) - TakenBy(q, t)
            /\ VolumeLeft(after.volume, t) = VolumeLeft(first.volume, t) - TakenBy(q, t)
            /\ BucketLeft(p, after.buckets, t) \in Nat /\ VolumeLeft(after.volume, t) \in Nat
  BY <1>3, <1>6, <1>7, <1>11, <1>13, <1>15, SpendVolumeStep
<1>17. \A t \in Tokens : Taken(locks, t) = TakenBy(o, t) + TakenBy(q, t)
  BY <1>7, TakenOfTwo
<1>18. \A t \in Tokens : TakenBy(o, t) \in Nat /\ TakenBy(q, t) \in Nat
  BY <1>7 DEF TakenBy
<1> HIDE DEF locks
<1>19. ASSUME NEW t \in Tokens
       PROVE /\ BucketLeft(p, after.buckets, t) = BucketLeft(p, p.buckets, t) - Taken(locks, t)
             /\ VolumeLeft(after.volume, t) = VolumeLeft(volume, t) - Taken(locks, t)
  <2>1. BucketLeft(p, p.buckets, t) \in Nat /\ VolumeLeft(volume, t) \in Nat
    <3>1. BucketLeft(p, p.buckets, t) = AgentAvailable(agent, t)
      BY <1>1, <1>3 DEF BucketLeft, AgentAvailable
    <3>2. VolumeLeft(volume, t) = VolumeAvailable(t)
      BY DEF VolumeLeft, VolumeAvailable
    <3>3. QED BY <3>1, <3>2 DEF AllowancesInv, PoliciesInv, VolumesInv
  <2>2. PICK a \in Nat, b \in Nat : a = BucketLeft(p, p.buckets, t) /\ b = VolumeLeft(volume, t)
    BY <2>1
  <2>3. PICK c \in Nat, d \in Nat : c = TakenBy(o, t) /\ d = TakenBy(q, t)
    BY <1>18
  <2>4. BucketLeft(p, after.buckets, t) = (a - c) - d /\ VolumeLeft(after.volume, t) = (b - c) - d
    BY <1>9, <1>13, <1>16, <2>2, <2>3
  <2>5. Taken(locks, t) = c + d
    BY <1>17, <2>3
  <2>6. QED BY <2>2, <2>4, <2>5
<1>20. QED BY <1>1, <1>2, <1>4, <1>16, <1>19, AllowancesSpent

LEMMA AllowancesStep ==
  ASSUME RailsInv, AllowancesInv, [AgentAccountNext]_agentAccountVars PROVE AllowancesInv'
<1>0. now \in Nat
  BY DEF RailsInv
<1>1. CASE UNCHANGED agentAccountVars
  BY <1>1, AllowancesSame DEF agentAccountVars
<1>2. CASE Tick
  BY <1>0, <1>2, VolumesTick, PoliciesTick DEF AllowancesInv
<1>3. CASE Migrate
  BY <1>3, AllowancesSame DEF Migrate
<1>4. ASSUME NEW ts \in TargetSets, SetTargets(ts) PROVE AllowancesInv'
  BY <1>4, AllowancesSame DEF SetTargets
<1>5. ASSUME NEW t \in Tokens, NEW limit \in Limits, SetAccountLimit(t, limit)
      PROVE AllowancesInv'
  <2>1. now' = now /\ UNCHANGED policyVars
    BY <1>5 DEF SetAccountLimit
  <2>2. QED BY <1>0, <1>5, <2>1, VolumesSetLimit, PoliciesSame DEF AllowancesInv
<1>6. ASSUME NEW a \in Agents, RevokeAgent(a) PROVE AllowancesInv'
  <2>1. now' = now /\ UNCHANGED volumeVars
    BY <1>6 DEF RevokeAgent
  <2>2. QED BY <1>6, <2>1, PoliciesRevoked, VolumesSame DEF AllowancesInv
<1>7. ASSUME NEW a \in Agents, NEW p \in Policies, SetPolicy(a, p) PROVE AllowancesInv'
  <2>1. now' = now /\ UNCHANGED volumeVars
    BY <1>7 DEF SetPolicy
  <2>2. QED BY <1>0, <1>7, <2>1, PoliciesSetPolicy, VolumesSame DEF AllowancesInv
<1>8. ASSUME NEW ad \in Ads, NEW g \in Settings \cup {Nil}, SetGuardRail(ad, g)
      PROVE AllowancesInv'
  BY <1>8, AllowancesSame DEF SetGuardRail
<1>9. ASSUME NEW e \in Escrows, NEW ad \in Ads, DisarmClosedAd(e, ad) PROVE AllowancesInv'
  BY <1>9, AllowancesSame DEF DisarmClosedAd
<1>10. ASSUME NEW call \in Announcements, Schedule(call[1], call[2], call[3])
       PROVE AllowancesInv'
  BY <1>10, AllowancesSame DEF Schedule
<1>11. ASSUME NEW row \in Rows, Cancel(row) PROVE AllowancesInv'
  BY <1>11, AllowancesSame DEF Cancel
<1>12. ASSUME NEW w \in Wasms, Upgrade(w) PROVE AllowancesInv'
  BY <1>12, AllowancesSame DEF Upgrade
<1>13. ASSUME NEW t \in Tokens, NEW to \in Payees, NEW amount \in Amounts, Sweep(t, to, amount)
       PROVE AllowancesInv'
  BY <1>13, AllowancesSame DEF Sweep
<1>14. ASSUME NEW e \in Escrows, NEW ad \in Ads, NEW amount \in Amounts
       PROVE /\ FundAd(e, ad, amount) => AllowancesInv'
             /\ \A s \in Signers : CreateAd(e, ad, amount, s) => AllowancesInv'
             /\ \A to \in Payees : CallWithdraw(e, ad, amount, to) => AllowancesInv'
             /\ \A paid \in BOOLEAN : OrderEnds(e, ad, amount, paid) => AllowancesInv'
  BY AllowancesSame DEF FundAd, CreateAd, CallWithdraw, OrderEnds
<1>15. ASSUME NEW e \in Escrows, NEW ad \in Ads
       PROVE /\ \A to \in Payees : CallClose(e, ad, to) => AllowancesInv'
             /\ \A s \in Signers : CallRepoint(e, ad, s) => AllowancesInv'
  BY AllowancesSame DEF CallClose, CallRepoint
<1>16. ASSUME NEW fn \in {"halt_settlement", "resume_settlement"}, CallHalt(fn)
       PROVE AllowancesInv'
  BY <1>16, AllowancesSame DEF CallHalt
<1>17. ASSUME NEW fn \in {"dispute", "claim", "transfer"}, NEW t \in Tokens, NEW paid, NEW pulled,
              NEW received, CallOther(fn, t, paid, pulled, received)
       PROVE AllowancesInv'
  BY <1>17, AllowancesSame DEF CallOther
<1>18. ASSUME NEW o \in Orders, CallLock(o) PROVE AllowancesInv'
  BY <1>18, AllowancesSame DEF CallLock
<1>19. ASSUME NEW a \in Agents, NEW o \in Orders, CheckAuth(a, <<o>>) PROVE AllowancesInv'
  BY <1>0, <1>19, AllowancesOneLock
<1>20. ASSUME NEW a \in Agents, NEW o \in Orders, NEW q \in Orders, CheckAuth(a, <<o, q>>)
       PROVE AllowancesInv'
  BY <1>0, <1>20, AllowancesTwoLocks
<1>21. ASSUME NEW ad \in Ads, Archive(ad) PROVE AllowancesInv'
  BY <1>21, AllowancesSame DEF Archive
<1>22. CASE AgentAccountNext
  BY <1>22, <1>2, <1>3, <1>4, <1>5, <1>6, <1>7, <1>8, <1>9, <1>10, <1>11, <1>12, <1>13, <1>14,
     <1>15, <1>16, <1>17, <1>18, <1>19, <1>20, <1>21 DEF AgentAccountNext
<1>23. QED BY <1>1, <1>22

LEMMA AllowancesExact == RailsInv /\ AllowancesInv => AllowanceIsExact
BY DEF RailsInv, AllowancesInv, PoliciesInv, VolumesInv, AllowanceIsExact

-----------------------------------------------------------------------------
(* The pinned escrows, the funds at rest and the ads.                      *)

TargetsOK == targets # {} /\ targets \subseteq Contracts
RestOK == rest \in [Tokens -> Nat]
BookOK ==
  /\ book \in [Escrows -> [Ads -> AdRow \cup {Nil}]]
  /\ \A e \in Escrows, ad \in Ads : book[e][ad] # Nil => book[e][ad].locked <= book[e][ad].balance

HoldingsInv == TargetsOK /\ RestOK /\ BookOK

LEMMA HoldingsInit == AgentAccountInit => HoldingsInv
BY AgentAccountAssumption DEF AgentAccountInit, HoldingsInv, TargetsOK, RestOK, BookOK

\* What a call pays in, pulls and brings back leaves no debt at rest.
LEMMA RestMoved ==
  ASSUME RestOK, NEW t \in Tokens, NEW paid \in Nat, NEW pulled \in Nat, NEW received \in Nat,
         Moved(t, paid, pulled, received)
  PROVE RestOK'
<1>1. PICK held \in Nat : held = rest[t]
  BY DEF RestOK
<1>2. held + paid + received \in pulled..MaxHeld + pulled
  BY <1>1 DEF Moved
<1>3. PICK left \in Nat : left = held + paid + received - pulled
  BY <1>2, AgentAccountAssumption
<1>4. rest' = [rest EXCEPT ![t] = left]
  BY <1>1, <1>3 DEF Moved
<1>5. QED BY <1>4 DEF RestOK

\* An ad's row written whole.
LEMMA BookWritten ==
  ASSUME BookOK, NEW e \in Escrows, NEW ad \in Ads, NEW row \in AdRow, row.locked <= row.balance,
         book' = [book EXCEPT ![e][ad] = row]
  PROVE BookOK'
<1>1. PICK shelf : shelf = [book[e] EXCEPT ![ad] = row]
  OBVIOUS
<1>2. shelf \in [Ads -> AdRow \cup {Nil}] /\ book' = [book EXCEPT ![e] = shelf]
  BY <1>1 DEF BookOK
<1>3. book' \in [Escrows -> [Ads -> AdRow \cup {Nil}]]
  BY <1>2 DEF BookOK
<1>4. ASSUME NEW f \in Escrows, NEW a \in Ads, book'[f][a] # Nil
      PROVE book'[f][a].locked <= book'[f][a].balance
  <2>1. CASE f = e /\ a = ad
    BY <1>1, <1>2, <2>1 DEF BookOK
  <2>2. CASE ~(f = e /\ a = ad)
    <3>1. book'[f][a] = book[f][a]
      BY <1>1, <1>2, <2>2 DEF BookOK
    <3>2. QED BY <1>4, <3>1 DEF BookOK
  <2>3. QED BY <2>1, <2>2
<1>5. QED BY <1>3, <1>4 DEF BookOK

\* What an ad's row holds.
LEMMA BookRow ==
  ASSUME BookOK, NEW e \in Escrows, NEW ad \in Ads, book[e][ad] # Nil
  PROVE /\ book[e][ad] \in AdRow /\ book[e][ad].locked <= book[e][ad].balance
        /\ book[e][ad].locked \in Nat /\ book[e][ad].balance \in Nat
BY DEF BookOK, AdRow

LEMMA BookDeposited ==
  ASSUME BookOK, NEW e \in Escrows, NEW ad \in Ads, NEW amount \in Nat, book[e][ad] # Nil,
         Deposited(e, ad, amount)
  PROVE BookOK'
<1>1. PICK old \in AdRow : /\ old = book[e][ad] /\ old.locked <= old.balance
                           /\ old.locked \in Nat /\ old.balance \in Nat
  BY BookRow
<1>2. PICK row : row = [old EXCEPT !.balance = old.balance + amount]
  OBVIOUS
<1>3. row \in AdRow /\ row.locked = old.locked /\ row.balance = old.balance + amount
  BY <1>1, <1>2 DEF AdRow
<1>4. book' = [book EXCEPT ![e][ad] = row]
  BY <1>1, <1>2 DEF Deposited
<1>5. row.locked <= row.balance
  BY <1>1, <1>3
<1>6. QED BY <1>3, <1>4, <1>5, BookWritten

LEMMA BookWithdrawn ==
  ASSUME BookOK, NEW e \in Escrows, NEW ad \in Ads, NEW amount \in Nat, Withdrawn(e, ad, amount)
  PROVE BookOK'
<1>1. PICK old \in AdRow : /\ old = book[e][ad] /\ old.locked <= old.balance
                           /\ old.locked \in Nat /\ old.balance \in Nat
  BY BookRow DEF Withdrawn
<1>2. PICK left \in Nat : left = old.balance - amount /\ old.locked <= left
  <2>1. amount <= old.balance - old.locked
    BY <1>1 DEF Withdrawn, Free
  <2>2. PICK b \in Nat, l \in Nat : b = old.balance /\ l = old.locked
    BY <1>1
  <2>3. amount <= b - l
    BY <2>1, <2>2
  <2>4. b - amount \in Nat /\ l <= b - amount
    BY <2>3
  <2>5. QED BY <2>2, <2>4
<1>3. PICK row : row = [old EXCEPT !.balance = left]
  OBVIOUS
<1>4. row \in AdRow /\ row.locked = old.locked /\ row.balance = left
  BY <1>1, <1>3 DEF AdRow
<1>5. book' = [book EXCEPT ![e][ad] = row]
  BY <1>1, <1>2, <1>3 DEF Withdrawn
<1>6. QED BY <1>2, <1>4, <1>5, BookWritten

LEMMA BookClosed ==
  ASSUME BookOK, NEW e \in Escrows, NEW ad \in Ads, Closed(e, ad)
  PROVE BookOK'
<1>1. PICK old \in AdRow : old = book[e][ad] /\ old.locked = 0
  BY BookRow DEF Closed
<1>2. PICK row : row = [old EXCEPT !.balance = 0, !.open = FALSE]
  OBVIOUS
<1>3. row \in AdRow /\ row.locked = 0 /\ row.balance = 0
  BY <1>1, <1>2 DEF AdRow
<1>4. book' = [book EXCEPT ![e][ad] = row]
  BY <1>1, <1>2 DEF Closed
<1>5. row.locked <= row.balance
  BY <1>3
<1>6. QED BY <1>3, <1>4, <1>5, BookWritten

LEMMA BookOrderEnds ==
  ASSUME BookOK, NEW e \in Escrows, NEW ad \in Ads, NEW amount, NEW paid \in BOOLEAN,
         OrderEnds(e, ad, amount, paid)
  PROVE BookOK'
<1>1. PICK old \in AdRow : /\ old = book[e][ad] /\ old.locked <= old.balance
                           /\ old.locked \in Nat /\ old.balance \in Nat
  BY BookRow DEF OrderEnds
<1>2. amount \in 1..old.locked
  BY <1>1 DEF OrderEnds
<1>3. PICK locked \in Nat, balance \in Nat :
        /\ locked = old.locked - amount /\ locked <= balance
        /\ balance = IF paid THEN old.balance - amount ELSE old.balance
  BY <1>1, <1>2
<1>4. PICK row : row = [old EXCEPT !.locked = locked, !.balance = balance]
  OBVIOUS
<1>5. row \in AdRow /\ row.locked = locked /\ row.balance = balance
  BY <1>1, <1>4 DEF AdRow
<1>6. book' = [book EXCEPT ![e][ad] = row]
  BY <1>1, <1>3, <1>4 DEF OrderEnds
<1>7. QED BY <1>3, <1>5, <1>6, BookWritten

\* Locks that find liquidity stay within it.
LEMMA BookLocked ==
  ASSUME BookOK, NEW locks, IsFiniteSet(DOMAIN locks), \A i \in DOMAIN locks : Scaled(locks[i]) \in Nat,
         LocksFit(book, locks), book' = LockAll(book, locks)
  PROVE BookOK'
<1>1. ASSUME NEW e \in Escrows, NEW ad \in Ads
      PROVE /\ book'[e][ad] \in AdRow \cup {Nil}
            /\ book'[e][ad] # Nil => book'[e][ad].locked <= book'[e][ad].balance
  <2>1. CASE LocksOn(locks, e, ad) = {}
    <3>1. book'[e][ad] = book[e][ad]
      BY <2>1 DEF LockAll
    <3>2. QED BY <3>1 DEF BookOK
  <2>2. CASE LocksOn(locks, e, ad) # {}
    <3>1. book[e][ad] # Nil /\ book[e][ad].locked + Reserved(locks, e, ad) <= book[e][ad].balance
      BY <2>2 DEF LocksFit
    <3>2. PICK old \in AdRow : old = book[e][ad] /\ old.locked \in Nat /\ old.balance \in Nat
      BY <3>1, BookRow
    <3>3. Reserved(locks, e, ad) \in Nat
      <4>1. LocksOn(locks, e, ad) \subseteq DOMAIN locks
        BY DEF LocksOn
      <4>2. IsFiniteSet(LocksOn(locks, e, ad))
        BY <4>1, FS_Subset
      <4>3. AmountsOn(LocksOn(locks, e, ad), AmountsOf(locks))
        BY <4>1 DEF AmountsOn, AmountsOf
      <4>4. QED BY <4>2, <4>3, SumType DEF Reserved
    <3>4. PICK locked \in Nat : locked = old.locked + Reserved(locks, e, ad)
      BY <3>2, <3>3
    <3>5. PICK row : row = [old EXCEPT !.locked = locked]
      OBVIOUS
    <3>6. row \in AdRow /\ row.locked = locked /\ row.balance = old.balance
      BY <3>2, <3>5 DEF AdRow
    <3>7. book'[e][ad] = row
      BY <2>2, <3>2, <3>4, <3>5 DEF LockAll
    <3>8. QED BY <3>1, <3>2, <3>4, <3>6, <3>7
  <2>3. QED BY <2>1, <2>2
<1>2. book' \in [Escrows -> [Ads -> AdRow \cup {Nil}]]
  BY <1>1 DEF LockAll
<1>3. QED BY <1>1, <1>2 DEF BookOK

\* An agent's entry: every lock has an amount.
LEMMA BookAuthorized ==
  ASSUME AllowancesInv, BookOK, NEW agent \in Agents, NEW locks, locks \in Seq(Orders),
         CheckAuth(agent, locks)
  PROVE BookOK'
<1>1. PICK p : p = policies[agent]
  OBVIOUS
<1>2. /\ p \in AgentRow
      /\ \A i \in 1..Len(locks) : LockAllowed(p, locks[i])
      /\ LocksFit(book, locks) /\ book' = LockAll(book, locks)
  BY <1>1 DEF CheckAuth, AllowancesInv, PoliciesInv
<1>3. DOMAIN locks = 1..Len(locks) /\ Len(locks) \in Nat /\ \A i \in 1..Len(locks) : locks[i] \in Orders
  OBVIOUS
<1>4. \A i \in DOMAIN locks : Scaled(locks[i]) \in Nat
  BY <1>2, <1>3, LockedAmount
<1>5. IsFiniteSet(DOMAIN locks)
  BY <1>3, FS_Interval
<1>6. QED BY <1>2, <1>4, <1>5, BookLocked

\* What each step does to the funds at rest and to the ads, by what it calls.
LEMMA HoldingsSame ==
  ASSUME HoldingsInv, UNCHANGED <<targets, rest, book>> PROVE HoldingsInv'
BY DEF HoldingsInv, TargetsOK, RestOK, BookOK

LEMMA TargetsSame == ASSUME TargetsOK, targets' = targets PROVE TargetsOK'
BY DEF TargetsOK

LEMMA RestSame == ASSUME RestOK, rest' = rest PROVE RestOK'
BY DEF RestOK

LEMMA BookSame == ASSUME BookOK, book' = book PROVE BookOK'
BY DEF BookOK

LEMMA HoldingsSetTargets ==
  ASSUME HoldingsInv, NEW ts \in TargetSets, SetTargets(ts) PROVE HoldingsInv'
<1>1. TargetsOK'
  BY AgentAccountAssumption DEF SetTargets, TargetsOK
<1>2. QED BY <1>1, RestSame, BookSame DEF SetTargets, HoldingsInv, escrowVars

LEMMA HoldingsSweep ==
  ASSUME HoldingsInv, NEW t \in Tokens, NEW to, NEW amount \in Amounts, Sweep(t, to, amount)
  PROVE HoldingsInv'
<1>1. PICK held \in Nat : held = rest[t]
  BY DEF HoldingsInv, RestOK
<1>2. amount \in Nat /\ amount <= held
  BY <1>1, AgentAccountAssumption DEF Sweep
<1>3. held - amount \in Nat
  BY <1>2
<1>4. rest' = IF to = Me THEN rest ELSE [rest EXCEPT ![t] = held - amount]
  BY <1>1 DEF Sweep
<1>5. RestOK'
  BY <1>3, <1>4 DEF HoldingsInv, RestOK
<1>6. QED BY <1>5, TargetsSame, BookSame DEF Sweep, HoldingsInv, adminVars, escrowVars

LEMMA HoldingsFundAd ==
  ASSUME HoldingsInv, NEW e \in Escrows, NEW ad \in Ads, NEW amount \in Amounts,
         FundAd(e, ad, amount)
  PROVE HoldingsInv'
<1>1. amount \in Nat /\ AdToken[ad] \in Tokens /\ 0 \in Nat
  BY AgentAccountAssumption
<1>2. /\ book[e][ad] # Nil /\ Deposited(e, ad, amount) /\ targets' = targets
      /\ Moved(AdToken[ad], amount, amount, 0)
  BY DEF FundAd, adminVars
<1>3. BookOK'
  BY <1>1, <1>2, BookDeposited DEF HoldingsInv
<1>4. RestOK'
  BY <1>1, <1>2, RestMoved DEF HoldingsInv
<1>5. QED BY <1>2, <1>3, <1>4, TargetsSame DEF HoldingsInv

LEMMA HoldingsCreateAd ==
  ASSUME HoldingsInv, NEW e \in Escrows, NEW ad \in Ads, NEW amount \in Amounts, NEW s \in Signers,
         CreateAd(e, ad, amount, s)
  PROVE HoldingsInv'
<1>1. amount \in Nat /\ AdToken[ad] \in Tokens /\ 0 \in Nat
  BY AgentAccountAssumption
<1>2. PICK row : row = [balance |-> amount, locked |-> 0, open |-> TRUE, signer |-> s]
  OBVIOUS
<1>3. row \in AdRow /\ row.locked <= row.balance
  BY <1>1, <1>2 DEF AdRow
<1>4. book' = [book EXCEPT ![e][ad] = row] /\ Moved(AdToken[ad], amount, amount, 0) /\ targets' = targets
  BY <1>2 DEF CreateAd, adminVars
<1>5. BookOK'
  BY <1>3, <1>4, BookWritten DEF HoldingsInv
<1>6. RestOK'
  BY <1>1, <1>4, RestMoved DEF HoldingsInv
<1>7. QED BY <1>4, <1>5, <1>6, TargetsSame DEF HoldingsInv

LEMMA HoldingsWithdraw ==
  ASSUME HoldingsInv, NEW e \in Escrows, NEW ad \in Ads, NEW amount \in Amounts, NEW to,
         CallWithdraw(e, ad, amount, to)
  PROVE HoldingsInv'
<1>1. amount \in Nat /\ AdToken[ad] \in Tokens /\ 0 \in Nat
  BY AgentAccountAssumption
<1>2. /\ Withdrawn(e, ad, amount) /\ targets' = targets
      /\ Moved(AdToken[ad], 0, 0, ReceivedBy(to, amount))
  BY DEF CallWithdraw, adminVars
<1>3. ReceivedBy(to, amount) \in Nat
  BY <1>1 DEF ReceivedBy
<1>4. BookOK'
  BY <1>1, <1>2, BookWithdrawn DEF HoldingsInv
<1>5. RestOK'
  BY <1>1, <1>2, <1>3, RestMoved DEF HoldingsInv
<1>6. QED BY <1>2, <1>4, <1>5, TargetsSame DEF HoldingsInv

LEMMA HoldingsClose ==
  ASSUME HoldingsInv, NEW e \in Escrows, NEW ad \in Ads, NEW to, CallClose(e, ad, to)
  PROVE HoldingsInv'
<1>1. /\ Closed(e, ad) /\ targets' = targets /\ AdToken[ad] \in Tokens /\ 0 \in Nat
      /\ Moved(AdToken[ad], 0, 0, ReceivedBy(to, book[e][ad].balance))
  BY AgentAccountAssumption DEF CallClose, adminVars
<1>2. ReceivedBy(to, book[e][ad].balance) \in Nat
  <2>1. book[e][ad].balance \in Nat
    BY <1>1, BookRow DEF Closed, HoldingsInv
  <2>2. QED BY <2>1 DEF ReceivedBy
<1>3. BookOK'
  BY <1>1, BookClosed DEF HoldingsInv
<1>4. RestOK'
  BY <1>1, <1>2, RestMoved DEF HoldingsInv
<1>5. QED BY <1>1, <1>3, <1>4, TargetsSame DEF HoldingsInv

LEMMA HoldingsRepoint ==
  ASSUME HoldingsInv, NEW e \in Escrows, NEW ad \in Ads, NEW s \in Signers, CallRepoint(e, ad, s)
  PROVE HoldingsInv'
<1>1. /\ book[e][ad] # Nil /\ targets' = targets /\ rest' = rest
      /\ book' = [book EXCEPT ![e][ad].signer = s]
  BY DEF CallRepoint, adminVars
<1>2. PICK old \in AdRow : old = book[e][ad] /\ old.locked <= old.balance
  BY <1>1, BookRow DEF HoldingsInv
<1>3. PICK row : row = [old EXCEPT !.signer = s]
  OBVIOUS
<1>4. row \in AdRow /\ row.locked = old.locked /\ row.balance = old.balance
  BY <1>2, <1>3 DEF AdRow
<1>5. book' = [book EXCEPT ![e][ad] = row]
  BY <1>1, <1>2, <1>3
<1>6. row.locked <= row.balance
  BY <1>2, <1>4
<1>7. BookOK'
  BY <1>4, <1>5, <1>6, BookWritten DEF HoldingsInv
<1>8. QED BY <1>1, <1>7, TargetsSame, RestSame DEF HoldingsInv

LEMMA HoldingsLock ==
  ASSUME HoldingsInv, NEW o \in Orders, CallLock(o) PROVE HoldingsInv'
<1> DEFINE locks == <<o>>
<1>1. /\ Scaled(o) \in Nat /\ LocksFit(book, locks) /\ book' = LockAll(book, locks)
      /\ targets' = targets /\ rest' = rest
  BY DEF CallLock, adminVars
<1>2. DOMAIN locks = {1} /\ locks[1] = o
  OBVIOUS
<1>3. IsFiniteSet(DOMAIN locks) /\ \A i \in DOMAIN locks : Scaled(locks[i]) \in Nat
  BY <1>1, <1>2, FS_Singleton
<1> HIDE DEF locks
<1>4. BookOK'
  BY <1>1, <1>3, BookLocked DEF HoldingsInv
<1>5. QED BY <1>1, <1>4, TargetsSame, RestSame DEF HoldingsInv

LEMMA HoldingsOther ==
  ASSUME HoldingsInv, NEW fn, NEW t \in Tokens, NEW paid \in {0} \cup Amounts,
         NEW pulled \in {0} \cup Amounts, NEW received \in {0} \cup Amounts,
         CallOther(fn, t, paid, pulled, received)
  PROVE HoldingsInv'
<1>1. paid \in Nat /\ pulled \in Nat /\ received \in Nat
  BY AgentAccountAssumption
<1>2. targets' = targets /\ book' = book
  BY DEF CallOther, adminVars, escrowVars
<1>3. CASE fn \in TokenFunctions
  <2>1. PICK held \in Nat : held = rest[t]
    BY DEF HoldingsInv, RestOK
  <2>2. held - pulled \in Nat
    BY <1>1, <1>3, <2>1 DEF CallOther
  <2>3. rest' = [rest EXCEPT ![t] = held - pulled]
    BY <1>3, <2>1 DEF CallOther
  <2>4. RestOK'
    BY <2>2, <2>3 DEF HoldingsInv, RestOK
  <2>5. QED BY <1>2, <2>4, TargetsSame, BookSame DEF HoldingsInv
<1>4. CASE fn \notin TokenFunctions
  <2>1. Moved(t, paid, pulled, received)
    BY <1>4 DEF CallOther
  <2>2. RestOK'
    BY <1>1, <2>1, RestMoved DEF HoldingsInv
  <2>3. QED BY <1>2, <2>2, TargetsSame, BookSame DEF HoldingsInv
<1>5. QED BY <1>3, <1>4

LEMMA HoldingsStep ==
  ASSUME AllowancesInv, HoldingsInv, [AgentAccountNext]_agentAccountVars PROVE HoldingsInv'
<1>1. CASE UNCHANGED agentAccountVars
  BY <1>1, HoldingsSame DEF agentAccountVars, adminVars, escrowVars
<1>2. CASE Tick
  BY <1>2, HoldingsSame DEF Tick, adminVars, escrowVars
<1>3. CASE Migrate
  BY <1>3, HoldingsSame DEF Migrate, escrowVars
<1>4. ASSUME NEW ts \in TargetSets, SetTargets(ts) PROVE HoldingsInv'
  BY <1>4, HoldingsSetTargets
<1>5. ASSUME NEW t \in Tokens, NEW limit \in Limits, SetAccountLimit(t, limit) PROVE HoldingsInv'
  BY <1>5, HoldingsSame DEF SetAccountLimit, adminVars, escrowVars
<1>6. ASSUME NEW a \in Agents
      PROVE /\ RevokeAgent(a) => HoldingsInv'
            /\ \A p \in Policies : SetPolicy(a, p) => HoldingsInv'
  BY HoldingsSame DEF RevokeAgent, SetPolicy, adminVars, escrowVars
<1>7. ASSUME NEW ad \in Ads, NEW g \in Settings \cup {Nil}, SetGuardRail(ad, g) PROVE HoldingsInv'
  BY <1>7, HoldingsSame DEF SetGuardRail, adminVars, escrowVars
<1>8. ASSUME NEW e \in Escrows, NEW ad \in Ads, DisarmClosedAd(e, ad) PROVE HoldingsInv'
  BY <1>8, HoldingsSame DEF DisarmClosedAd, adminVars, escrowVars
<1>9. ASSUME NEW call \in Announcements, Schedule(call[1], call[2], call[3]) PROVE HoldingsInv'
  BY <1>9, HoldingsSame DEF Schedule, adminVars, escrowVars
<1>10. ASSUME NEW row \in Rows, Cancel(row) PROVE HoldingsInv'
  BY <1>10, HoldingsSame DEF Cancel, adminVars, escrowVars
<1>11. ASSUME NEW w \in Wasms, Upgrade(w) PROVE HoldingsInv'
  BY <1>11, HoldingsSame DEF Upgrade, escrowVars
<1>12. ASSUME NEW t \in Tokens, NEW to \in Payees, NEW amount \in Amounts, Sweep(t, to, amount)
       PROVE HoldingsInv'
  BY <1>12, HoldingsSweep
<1>13. ASSUME NEW e \in Escrows, NEW ad \in Ads, NEW amount \in Amounts
       PROVE /\ FundAd(e, ad, amount) => HoldingsInv'
             /\ \A s \in Signers : CreateAd(e, ad, amount, s) => HoldingsInv'
             /\ \A to \in Payees : CallWithdraw(e, ad, amount, to) => HoldingsInv'
  BY HoldingsFundAd, HoldingsCreateAd, HoldingsWithdraw
<1>14. ASSUME NEW e \in Escrows, NEW ad \in Ads, NEW amount \in Amounts, NEW paid \in BOOLEAN,
              OrderEnds(e, ad, amount, paid)
       PROVE HoldingsInv'
  <2>1. BookOK'
    BY <1>14, BookOrderEnds DEF HoldingsInv
  <2>2. QED BY <1>14, <2>1, TargetsSame, RestSame DEF OrderEnds, HoldingsInv, adminVars
<1>15. ASSUME NEW e \in Escrows, NEW ad \in Ads
       PROVE /\ \A to \in Payees : CallClose(e, ad, to) => HoldingsInv'
             /\ \A s \in Signers : CallRepoint(e, ad, s) => HoldingsInv'
  BY HoldingsClose, HoldingsRepoint
<1>16. ASSUME NEW fn \in {"halt_settlement", "resume_settlement"}, CallHalt(fn) PROVE HoldingsInv'
  BY <1>16, HoldingsSame DEF CallHalt, adminVars
<1>17. ASSUME NEW fn \in {"dispute", "claim", "transfer"}, NEW t \in Tokens,
              NEW paid \in {0} \cup Amounts, NEW pulled \in {0} \cup Amounts,
              NEW received \in {0} \cup Amounts, CallOther(fn, t, paid, pulled, received)
       PROVE HoldingsInv'
  BY <1>17, HoldingsOther
<1>18. ASSUME NEW o \in Orders, CallLock(o) PROVE HoldingsInv'
  BY <1>18, HoldingsLock
<1>19. ASSUME NEW a \in Agents, NEW locks, locks \in Seq(Orders), CheckAuth(a, locks)
       PROVE HoldingsInv'
  <2>1. BookOK'
    BY <1>19, BookAuthorized DEF HoldingsInv
  <2>2. targets' = targets /\ rest' = rest
    BY <1>19 DEF CheckAuth, adminVars
  <2>3. QED BY <2>1, <2>2, TargetsSame, RestSame DEF HoldingsInv
<1>20. \A o \in Orders : <<o>> \in Seq(Orders) /\ \A q \in Orders : <<o, q>> \in Seq(Orders)
  OBVIOUS
<1>21. ASSUME NEW ad \in Ads, Archive(ad) PROVE HoldingsInv'
  BY <1>21, HoldingsSame DEF Archive, adminVars, escrowVars
<1>22. CASE AgentAccountNext
  BY <1>22, <1>2, <1>3, <1>4, <1>5, <1>6, <1>7, <1>8, <1>9, <1>10, <1>11, <1>12, <1>13, <1>14,
     <1>15, <1>16, <1>17, <1>18, <1>19, <1>20, <1>21 DEF AgentAccountNext
<1>23. QED BY <1>1, <1>22

-----------------------------------------------------------------------------
(* The account, whole.                                                     *)

AgentAccountInv == RailsInv /\ RowsInv /\ AllowancesInv /\ HoldingsInv

LEMMA AgentAccountInvariant == AgentAccountSpec => []AgentAccountInv
<1>1. AgentAccountInit => AgentAccountInv
  BY RailsInit, RowsInit, AllowancesInit, HoldingsInit DEF AgentAccountInv
<1>2. AgentAccountInv /\ [AgentAccountNext]_agentAccountVars => AgentAccountInv'
  BY RailsStep, RowsStep, AllowancesStep, HoldingsStep DEF AgentAccountInv
<1>3. QED BY <1>1, <1>2, PTL DEF AgentAccountSpec

\* A pending announcement waits the delay that times its scope now, and closes
\* within its ad's window, however often rails were armed and tightened since
\* (guard_set's restamp and clamp_windows, clear_all_schedules).
THEOREM PendingRowsWait == AgentAccountSpec => []RowsWaitTheDelay
<1>1. AgentAccountInv => RowsWaitTheDelay
  BY RowsWait DEF AgentAccountInv
<1>2. QED BY <1>1, AgentAccountInvariant, PTL

\* A lazily refilled bucket gives exactly what one refilled every second and
\* debited by every spend has left, whatever the limits, the re-configurations
\* and the number of locks in an entry (rate_limit.rs, carry_buckets).
THEOREM AllowancesAreExact == AgentAccountSpec => []AllowanceIsExact
<1>1. AgentAccountInv => AllowanceIsExact
  BY AllowancesExact DEF AgentAccountInv
<1>2. QED BY <1>1, AgentAccountInvariant, PTL

\* The account's rows keep their shape, no bucket is overfull, the roster is
\* the ads with a row, and no ad has more locked than it holds.
THEOREM AgentTypeCorrect == AgentAccountSpec => []AgentTypeOK
<1>1. ASSUME AgentAccountInv PROVE AgentTypeOK
  <2>1. TargetsOK /\ \A t \in Tokens : rest[t] \in Nat
    BY <1>1 DEF AgentAccountInv, HoldingsInv, RestOK
  <2>2. /\ roster = {ad \in Ads : rails[ad] # Nil}
        /\ Cardinality(roster) <= MaxGuardedAds /\ archived \subseteq roster
        /\ \A ad \in roster :
             /\ GuardBounds(rails[ad])
             /\ GoodBucket(rails[ad].rate, rails[ad].bucket, now)
    BY <1>1 DEF AgentAccountInv, RailsInv
  <2>3. ASSUME NEW row \in Rows, schedules[row] # Nil
        PROVE now >= schedules[row].announced /\ schedules[row].expires_at > schedules[row].ready_at
    <3>1. RowOK(row) /\ schedules[row] \in ScheduleRow /\ now \in Nat
      BY <1>1, <2>3 DEF AgentAccountInv, RowsInv, RailsInv
    <3>2. /\ schedules[row].announced \in Nat /\ schedules[row].ready_at \in Nat
          /\ schedules[row].expires_at \in Nat
      BY <3>1 DEF ScheduleRow
    <3>3. schedules[row].announced <= now /\ schedules[row].ready_at < schedules[row].expires_at
      BY <2>3, <3>1 DEF RowOK
    <3>4. QED BY <3>1, <3>2, <3>3
  <2>4. \A t \in Tokens : volume[t] # Nil => GoodBucket(volume[t].limit, volume[t].bucket, now)
    BY <1>1 DEF AgentAccountInv, AllowancesInv, VolumesInv, VolumesOK
  <2>5. \A a \in Agents, t \in Tokens : policies[a] # Nil /\ policies[a].buckets[t] # Nil =>
          GoodBucket(policies[a].ad_tokens[t].rate, policies[a].buckets[t], now)
    BY <1>1 DEF AgentAccountInv, AllowancesInv, PoliciesInv, BucketsOK
  <2>6. ASSUME NEW e \in Escrows, NEW ad \in Ads, book[e][ad] # Nil
        PROVE book[e][ad].locked \in 0..book[e][ad].balance
    BY <1>1, <2>6, BookRow DEF AgentAccountInv, HoldingsInv
  <2>7. QED BY <2>1, <2>2, <2>3, <2>4, <2>5, <2>6 DEF AgentTypeOK, TargetsOK, GoodBucket
<1>2. QED BY <1>1, AgentAccountInvariant, PTL

-----------------------------------------------------------------------------
(* What a step uses up was announced.                                      *)

LEMMA AccountRow ==
  ASSUME NEW action \in AccountActions PROVE <<Me, action>> \in Rows
BY DEF Rows, RowsOf, ActionsFor

LEMMA AdActionRow ==
  ASSUME NEW ad \in Ads, NEW action \in AdActions PROVE <<ad, action>> \in Rows
BY AgentAccountAssumption DEF Rows, RowsOf, ActionsFor

\* What authorizes a call now was announced the longest delay in force ago.
LEMMA SpentWasAnnounced ==
  ASSUME RailsInv, RowsInv, NEW row \in Rows, NEW args, Matured(row, args),
         schedules'[row] = Nil
  PROVE Announced(row, args)
<1>1. PICK s : s = schedules[row]
  OBVIOUS
<1>2. s # Nil /\ s.args = args /\ s.ready_at <= now /\ now < s.expires_at
  BY <1>1 DEF Matured
<1>3. s.ready_at \in Nat /\ s.announced \in Nat /\ now \in Nat
  BY <1>1, <1>2 DEF RowsInv, ScheduleRow, RailsInv
<1>4. TimedBy(row[1]) \in SUBSET roster
  BY DEF TimedBy
<1>5. PICK delay \in Nat : delay = Longest(TimedBy(row[1]))
  BY <1>4, LongestBounds
<1>6. s.ready_at - s.announced >= delay
  BY <1>1, <1>2, <1>5, RowsWait DEF RowsWaitTheDelay
<1>7. now - s.announced >= delay
  BY <1>2, <1>3, <1>6
<1>8. QED BY <1>1, <1>2, <1>5, <1>7 DEF Announced

\* spend, where the caller asks for a row of the account.
LEMMA AccountSpends ==
  ASSUME RailsInv, RowsInv, NEW action \in AccountActions, NEW args,
         Matured(<<Me, action>>, args),
         schedules' = [schedules EXCEPT ![<<Me, action>>] = Nil]
  PROVE Announced(<<Me, action>>, args)
<1>1. PICK row \in Rows : row = <<Me, action>>
  BY AccountRow
<1>2. schedules'[row] = Nil
  BY <1>1 DEF RowsInv
<1>3. QED BY <1>1, <1>2, SpentWasAnnounced

LEMMA AdSpends ==
  ASSUME RailsInv, RowsInv, NEW ad \in Ads, NEW action \in AdActions, NEW args,
         Matured(<<ad, action>>, args),
         schedules' = [schedules EXCEPT ![<<ad, action>>] = Nil]
  PROVE Announced(<<ad, action>>, args)
<1>1. PICK row \in Rows : row = <<ad, action>>
  BY AdActionRow
<1>2. schedules'[row] = Nil
  BY <1>1 DEF RowsInv
<1>3. QED BY <1>1, <1>2, SpentWasAnnounced

-----------------------------------------------------------------------------
(* What leaves each part of the account no wider than it was.              *)

LEMMA AgentNotWider ==
  ASSUME PoliciesInv, PoliciesInv', NEW a \in Agents,
         \A o \in Orders, t \in now..MaxTime : MayLock(policies'[a], o, t) => MayLock(policies[a], o, t),
         now' = now => \A t \in Tokens : agentLeft'[a][t] <= agentLeft[a][t]
  PROVE AgentKept(a)
<1>1. ASSUME now' = now, NEW t \in Tokens
      PROVE ~(AgentAvailable(a, t)' > AgentAvailable(a, t))
  <2>1. AgentAvailable(a, t)' = agentLeft'[a][t] /\ AgentAvailable(a, t) = agentLeft[a][t]
    BY DEF PoliciesInv
  <2>2. PICK m \in Nat, n \in Nat : m = agentLeft'[a][t] /\ n = agentLeft[a][t]
    BY DEF PoliciesInv
  <2>3. m <= n
    BY <1>1, <2>2
  <2>4. ~(m > n)
    BY <2>3
  <2>5. QED BY <2>1, <2>2, <2>4
<1>2. QED BY <1>1 DEF AgentKept, AgentWidened

LEMMA RailNotWeaker ==
  ASSUME RailsInv, RailsInv', NEW ad \in roster, rails'[ad] # Nil,
         rails'[ad].threshold <= rails[ad].threshold, rails'[ad].delay >= rails[ad].delay,
         rails'[ad].window <= rails[ad].window,
         rails'[ad].rate.capacity <= rails[ad].rate.capacity,
         rails'[ad].rate.refill_per_second <= rails[ad].rate.refill_per_second,
         now' = now => railLeft'[ad] <= railLeft[ad]
  PROVE RailKept(ad)
<1>1. ad \in Ads /\ rails[ad] \in GuardRow /\ rails'[ad] \in GuardRow
  BY DEF RailsInv
<1>2. /\ rails[ad].threshold \in Nat /\ rails'[ad].threshold \in Nat
      /\ rails[ad].delay \in Nat /\ rails'[ad].delay \in Nat
      /\ rails[ad].window \in Nat /\ rails'[ad].window \in Nat
      /\ rails[ad].rate \in Limit /\ rails'[ad].rate \in Limit
  BY <1>1 DEF GuardRow
<1>3. /\ rails[ad].rate.capacity \in Nat /\ rails'[ad].rate.capacity \in Nat
      /\ rails[ad].rate.refill_per_second \in Nat /\ rails'[ad].rate.refill_per_second \in Nat
  BY <1>2 DEF Limit
<1>4. ASSUME now' = now PROVE ~(RailAvailable(ad)' > RailAvailable(ad))
  <2>1. RailAvailable(ad)' = railLeft'[ad] /\ RailAvailable(ad) = railLeft[ad]
    BY <1>1 DEF RailsInv
  <2>2. PICK m \in Nat, n \in Nat : m = railLeft'[ad] /\ n = railLeft[ad]
    BY <1>1 DEF RailsInv
  <2>3. m <= n
    BY <1>4, <2>2
  <2>4. QED BY <2>1, <2>2, <2>3
<1>5. ~RailWeakened(ad)
  BY <1>2, <1>3, <1>4 DEF RailWeakened
<1>6. QED BY <1>5 DEF RailKept

LEMMA LimitNotRaised ==
  ASSUME VolumesInv, VolumesInv', NEW t \in Tokens, volume[t] = Nil => volume'[t] = Nil,
         volume[t] # Nil => volume'[t].limit = volume[t].limit
  PROVE LimitKept(t)
<1>1. CASE volume[t] = Nil
  BY <1>1 DEF LimitKept, LimitRaised
<1>2. CASE volume[t] # Nil
  <2>1. volume[t].limit \in Limit
    BY <1>2 DEF VolumesInv, VolumesOK, AccountVolume
  <2>2. volume[t].limit.capacity \in Nat /\ volume[t].limit.refill_per_second \in Nat
    BY <2>1 DEF Limit
  <2>3. QED BY <1>2, <2>2 DEF LimitKept, LimitRaised
<1>3. QED BY <1>1, <1>2

\* A part no step touched is as narrow as it was.
LEMMA PartsKept ==
  ASSUME AgentAccountInv, AgentAccountInv'
  PROVE /\ targets' = targets => ReachKept
        /\ code' = code => CodeKept
        /\ halted' = halted => HaltKept
        /\ rest' = rest => \A t \in Tokens : RestKept(t)
        /\ volume' = volume => \A t \in Tokens : LimitKept(t)
        /\ UNCHANGED policyVars => \A a \in Agents : AgentKept(a)
        /\ UNCHANGED <<rails, railLeft>> => \A ad \in roster : RailKept(ad)
        /\ book' = book => \A e \in Escrows, ad \in roster : AdKept(e, ad)
<1>1. /\ targets' = targets => ReachKept
      /\ code' = code => CodeKept
      /\ halted' = halted => HaltKept
      /\ book' = book => \A e \in Escrows, ad \in roster : AdKept(e, ad)
  BY DEF ReachKept, CodeKept, HaltKept, AdKept
<1>2. ASSUME rest' = rest, NEW t \in Tokens PROVE RestKept(t)
  <2>1. PICK n \in Nat : n = rest[t]
    BY DEF AgentAccountInv, HoldingsInv, RestOK
  <2>2. QED BY <1>2, <2>1 DEF RestKept
<1>3. ASSUME volume' = volume, NEW t \in Tokens PROVE LimitKept(t)
  BY <1>3 DEF LimitKept, LimitRaised
<1>4. ASSUME UNCHANGED policyVars, NEW a \in Agents PROVE AgentKept(a)
  <2>1. policies' = policies /\ agentLeft' = agentLeft
    BY <1>4 DEF policyVars
  <2>2. \A t \in Tokens : agentLeft'[a][t] <= agentLeft[a][t]
    <3>1. \A t \in Tokens : agentLeft[a][t] \in Nat
      BY DEF AgentAccountInv, AllowancesInv, PoliciesInv
    <3>2. QED BY <2>1, <3>1
  <2>3. QED BY <2>1, <2>2, AgentNotWider DEF AgentAccountInv, AllowancesInv
<1>5. ASSUME UNCHANGED <<rails, railLeft>>, NEW ad \in roster PROVE RailKept(ad)
  <2>1. rails[ad] # Nil /\ rails[ad] \in GuardRow /\ railLeft[ad] \in Nat
    BY DEF AgentAccountInv, RailsInv
  <2>2. /\ rails[ad].threshold \in Nat /\ rails[ad].delay \in Nat /\ rails[ad].window \in Nat
        /\ rails[ad].rate.capacity \in Nat /\ rails[ad].rate.refill_per_second \in Nat
    BY <2>1 DEF GuardRow, Limit
  <2>3. QED BY <1>5, <2>1, <2>2, RailNotWeaker DEF AgentAccountInv
<1>6. QED BY <1>1, <1>2, <1>3, <1>4, <1>5

-----------------------------------------------------------------------------
(* What each call does to an ad that was there: its signer and whether it  *)
(* is open stay, and d of its free liquidity is gone.                      *)

AdMoves(e, ad, d) ==
  book[e][ad] # Nil =>
    /\ book'[e][ad].signer = book[e][ad].signer /\ book'[e][ad].open = book[e][ad].open
    /\ Free(e, ad)' = Free(e, ad) - d

\* A call rewrites one ad's row.
OnlyRow(e, ad, row) ==
  /\ book'[e][ad] = row
  /\ \A f \in Escrows, a \in Ads : <<f, a>> # <<e, ad>> => book'[f][a] = book[f][a]

LEMMA RowAt ==
  ASSUME BookOK, NEW e \in Escrows, NEW ad \in Ads, NEW row,
         book' = [book EXCEPT ![e][ad] = row]
  PROVE OnlyRow(e, ad, row)
<1>1. PICK shelf : shelf = [book[e] EXCEPT ![ad] = row]
  OBVIOUS
<1>2. book' = [book EXCEPT ![e] = shelf]
  BY <1>1
<1>3. QED BY <1>1, <1>2 DEF BookOK, OnlyRow

LEMMA AdStays ==
  ASSUME BookOK, NEW e \in Escrows, NEW ad \in Ads, book'[e][ad] = book[e][ad]
  PROVE AdMoves(e, ad, 0)
<1>1. SUFFICES ASSUME book[e][ad] # Nil PROVE AdMoves(e, ad, 0)
  BY DEF AdMoves
<1>2. PICK b \in Nat, l \in Nat : b = book[e][ad].balance /\ l = book[e][ad].locked
  BY <1>1, BookRow
<1>3. b - l = b - l - 0
  BY <1>2
<1>4. QED BY <1>2, <1>3 DEF AdMoves, Free

\* A row written with a new balance and a new lock.
LEMMA AdWritten ==
  ASSUME BookOK, NEW e \in Escrows, NEW ad \in Ads, NEW balance \in Int, NEW locked \in Int,
         NEW d \in Int, NEW old \in AdRow, old = book[e][ad],
         NEW row, row.balance = balance, row.locked = locked,
         row.signer = old.signer, row.open = old.open, OnlyRow(e, ad, row),
         balance - locked = old.balance - old.locked - d
  PROVE /\ AdMoves(e, ad, d)
        /\ \A f \in Escrows, a \in Ads : <<f, a>> # <<e, ad>> => AdMoves(f, a, 0)
<1>1. AdMoves(e, ad, d)
  BY DEF AdMoves, Free, OnlyRow
<1>2. QED BY <1>1, AdStays DEF OnlyRow

LEMMA DepositMoves ==
  ASSUME BookOK, NEW e \in Escrows, NEW ad \in Ads, NEW amount \in Nat, book[e][ad] # Nil,
         Deposited(e, ad, amount)
  PROVE /\ AdMoves(e, ad, 0 - amount)
        /\ \A f \in Escrows, a \in Ads : <<f, a>> # <<e, ad>> => AdMoves(f, a, 0)
<1>1. PICK old \in AdRow : old = book[e][ad] /\ old.locked \in Nat /\ old.balance \in Nat
  BY BookRow
<1>2. PICK balance \in Int, locked \in Int : balance = old.balance + amount /\ locked = old.locked
  BY <1>1
<1>3. PICK row : row = [old EXCEPT !.balance = balance, !.locked = locked]
  OBVIOUS
<1>4. book' = [book EXCEPT ![e][ad] = row]
  <2>1. row = [old EXCEPT !.balance = old.balance + amount]
    BY <1>1, <1>2, <1>3 DEF AdRow
  <2>2. QED BY <1>1, <2>1 DEF Deposited
<1>5. OnlyRow(e, ad, row)
  BY <1>4, RowAt
<1>6. /\ row.balance = balance /\ row.locked = locked
      /\ row.signer = old.signer /\ row.open = old.open
  BY <1>1, <1>3 DEF AdRow
<1>7. balance - locked = old.balance - old.locked - (0 - amount) /\ 0 - amount \in Int
  BY <1>1, <1>2
<1>8. QED BY <1>1, <1>7, <1>5, <1>6, AdWritten

LEMMA WithdrawalMoves ==
  ASSUME BookOK, NEW e \in Escrows, NEW ad \in Ads, NEW amount \in Nat, Withdrawn(e, ad, amount)
  PROVE /\ AdMoves(e, ad, amount)
        /\ \A f \in Escrows, a \in Ads : <<f, a>> # <<e, ad>> => AdMoves(f, a, 0)
<1>1. PICK old \in AdRow : old = book[e][ad] /\ old.locked \in Nat /\ old.balance \in Nat
  BY BookRow DEF Withdrawn
<1>2. PICK balance \in Int, locked \in Int : balance = old.balance - amount /\ locked = old.locked
  BY <1>1
<1>3. PICK row : row = [old EXCEPT !.balance = balance, !.locked = locked]
  OBVIOUS
<1>4. book' = [book EXCEPT ![e][ad] = row]
  <2>1. row = [old EXCEPT !.balance = old.balance - amount]
    BY <1>1, <1>2, <1>3 DEF AdRow
  <2>2. QED BY <1>1, <2>1 DEF Withdrawn
<1>5. OnlyRow(e, ad, row)
  BY <1>4, RowAt
<1>6. /\ row.balance = balance /\ row.locked = locked
      /\ row.signer = old.signer /\ row.open = old.open
  BY <1>1, <1>3 DEF AdRow
<1>7. balance - locked = old.balance - old.locked - amount /\ amount \in Int
  BY <1>1, <1>2
<1>8. QED BY <1>1, <1>7, <1>5, <1>6, AdWritten

LEMMA EndingMoves ==
  ASSUME BookOK, NEW e \in Escrows, NEW ad \in Ads, NEW amount, NEW paid \in BOOLEAN,
         OrderEnds(e, ad, amount, paid)
  PROVE \A f \in Escrows, a \in Ads : \E n \in Nat : AdMoves(f, a, 0 - n)
<1>1. PICK old \in AdRow : old = book[e][ad] /\ old.locked \in Nat /\ old.balance \in Nat
  BY BookRow DEF OrderEnds
<1>2. amount \in 1..old.locked /\ book[e][ad] # Nil
  BY <1>1 DEF OrderEnds
<1>3. PICK b \in Nat, l \in Nat, m \in Nat :
        b = old.balance /\ l = old.locked /\ m = amount /\ m <= l
  BY <1>1, <1>2
<1>4. PICK balance \in Int, n \in Nat :
        /\ balance = (IF paid THEN b - m ELSE b)
        /\ balance - (l - m) = b - l - (0 - n)
  <2>1. CASE paid
    <3>1. (b - m) - (l - m) = b - l - (0 - 0)
      OBVIOUS
    <3>2. QED BY <2>1, <3>1
  <2>2. CASE ~paid
    <3>1. b - (l - m) = b - l - (0 - m)
      OBVIOUS
    <3>2. QED BY <2>2, <3>1
  <2>3. QED BY <2>1, <2>2
<1>5. PICK locked \in Int : locked = l - m
  OBVIOUS
<1>6. PICK row : row = [old EXCEPT !.balance = balance, !.locked = locked]
  OBVIOUS
<1>7. book' = [book EXCEPT ![e][ad] = row]
  <2>1. row = [old EXCEPT !.locked = locked, !.balance = balance]
    BY <1>1, <1>6 DEF AdRow
  <2>2. QED BY <1>1, <1>3, <1>4, <1>5, <2>1 DEF OrderEnds
<1>8. PICK d \in Int : d = 0 - n
  OBVIOUS
<1>9. 0 = 0 - 0 /\ balance - locked = old.balance - old.locked - d
  BY <1>3, <1>4, <1>5, <1>8
<1>10. /\ AdMoves(e, ad, d)
       /\ \A f \in Escrows, a \in Ads : <<f, a>> # <<e, ad>> => AdMoves(f, a, 0)
  <2>1. OnlyRow(e, ad, row)
    BY <1>7, RowAt
  <2>2. /\ row.balance = balance /\ row.locked = locked
        /\ row.signer = old.signer /\ row.open = old.open
    BY <1>1, <1>6 DEF AdRow
  <2>3. QED BY <1>1, <1>9, <2>1, <2>2, AdWritten
<1>11. QED BY <1>8, <1>9, <1>10

LEMMA LockMoves ==
  ASSUME BookOK, NEW locks, \A i \in DOMAIN locks : Scaled(locks[i]) \in Nat,
         IsFiniteSet(DOMAIN locks), book' = LockAll(book, locks),
         NEW e \in Escrows, NEW ad \in Ads
  PROVE /\ Reserved(locks, e, ad) \in Nat
        /\ AdMoves(e, ad, Reserved(locks, e, ad))
<1>1. Reserved(locks, e, ad) \in Nat /\ (LocksOn(locks, e, ad) = {} => Reserved(locks, e, ad) = 0)
  <2>1. LocksOn(locks, e, ad) \subseteq DOMAIN locks
    BY DEF LocksOn
  <2>2. IsFiniteSet(LocksOn(locks, e, ad))
    BY <2>1, FS_Subset
  <2>3. AmountsOn(LocksOn(locks, e, ad), AmountsOf(locks))
    BY <2>1 DEF AmountsOn, AmountsOf
  <2>4. QED BY <2>2, <2>3, SumType, SumEmpty DEF Reserved
<1>2. CASE LocksOn(locks, e, ad) = {}
  <2>1. book'[e][ad] = book[e][ad]
    BY <1>2 DEF LockAll
  <2>2. QED BY <1>1, <1>2, <2>1, AdStays
<1>3. CASE LocksOn(locks, e, ad) # {} /\ book[e][ad] # Nil
  <2>1. PICK old \in AdRow : old = book[e][ad] /\ old.locked \in Nat /\ old.balance \in Nat
    BY <1>3, BookRow
  <2>2. PICK n \in Nat : n = Reserved(locks, e, ad)
    BY <1>1
  <2>3. PICK row : row = [old EXCEPT !.locked = old.locked + n]
    OBVIOUS
  <2>4. /\ row.balance = old.balance /\ row.locked = old.locked + n
        /\ row.signer = old.signer /\ row.open = old.open
    BY <2>1, <2>3 DEF AdRow
  <2>5. book'[e][ad] = row
    BY <1>3, <2>1, <2>2, <2>3 DEF LockAll
  <2>6. row.balance - row.locked = old.balance - old.locked - n
    BY <2>1, <2>4
  <2>7. AdMoves(e, ad, n)
    BY <2>1, <2>4, <2>5, <2>6 DEF AdMoves, Free
  <2>8. QED BY <1>1, <2>2, <2>7
<1>4. QED BY <1>1, <1>2, <1>3 DEF AdMoves

-----------------------------------------------------------------------------
(* Each operation against what may not widen.                              *)

\* check_owner_call: what it spends of a row was announced; an instant call comes
\* off its rail's allowance, and no rail's settings move.
LEMMA OwnerCallAnnounced ==
  ASSUME RailsInv, RowsInv, NEW fn, NEW args, CheckOwnerCall(fn, args)
  PROVE /\ fn = "resume_settlement" /\ AnyGuarded => Announced(<<Me, fn>>, args)
        /\ fn \in {"close_ad", "set_settlement_signer"} /\ NamedAd(fn, args) \in roster =>
             Announced(<<NamedAd(fn, args), fn>>, args)
<1>1. ASSUME fn = "resume_settlement", AnyGuarded PROVE Announced(<<Me, fn>>, args)
  <2>1. Matured(<<Me, fn>>, args) /\ schedules' = [schedules EXCEPT ![<<Me, fn>>] = Nil]
    BY <1>1 DEF CheckOwnerCall, SpendIf
  <2>2. fn \in AccountActions
    BY <1>1 DEF AccountActions
  <2>3. QED BY <2>1, <2>2, AccountSpends
<1>2. ASSUME fn \in {"close_ad", "set_settlement_signer"}, NamedAd(fn, args) \in roster
      PROVE Announced(<<NamedAd(fn, args), fn>>, args)
  <2>1. PICK ad : ad = NamedAd(fn, args)
    OBVIOUS
  <2>2. fn \in AdActions \ {"set_guard_rail"} /\ fn # "resume_settlement"
    BY <1>2 DEF AdActions
  <2>3. Matured(<<ad, fn>>, args) /\ schedules' = [schedules EXCEPT ![<<ad, fn>>] = Nil]
    BY <1>2, <2>1, <2>2 DEF CheckOwnerCall, SpendIf, IsGuarded
  <2>4. ad \in Ads
    BY <1>2, <2>1 DEF RailsInv
  <2>5. QED BY <2>1, <2>2, <2>3, <2>4, AdSpends
<1>3. QED BY <1>1, <1>2

\* What comes off an ad is announced or paid by its rail.
LEMMA OwnerCallCharged ==
  ASSUME RailsInv, RailsInv', RowsInv, now' = now, NEW fn \in {"withdraw_from_ad", "lock_for_order"},
         NEW args, CheckOwnerCall(fn, args), NEW ad \in roster, ad = NamedAd(fn, args),
         NEW amount \in Nat, amount = CallAmount(fn, args)
  PROVE \/ Announced(<<ad, fn>>, args)
        \/ amount <= rails[ad].threshold /\ RailAvailable(ad) - RailAvailable(ad)' = amount
<1>1. fn \in AdActions \ {"set_guard_rail"} /\ fn # "resume_settlement"
      /\ fn \notin {"close_ad", "set_settlement_signer"}
  BY DEF AdActions
<1>2. PICK g : g = GetGuardRail(ad)
  OBVIOUS
<1>3. /\ g # Nil
      /\ SpendIf(amount > g.threshold, <<ad, fn>>, args)
      /\ IF amount > g.threshold THEN UNCHANGED railVars
         ELSE /\ rails' = [rails EXCEPT ![ad].bucket = Spent(g.rate, g.bucket, amount, now)]
              /\ railLeft' = [railLeft EXCEPT ![ad] = railLeft[ad] - amount]
  BY <1>1, <1>2 DEF CheckOwnerCall, IsGuarded
<1>4. g = rails[ad] /\ g \in GuardRow /\ ad \in Ads
  BY <1>2, <1>3 DEF GetGuardRail, RailsInv
<1>5. CASE amount > g.threshold
  <2>1. Matured(<<ad, fn>>, args) /\ schedules' = [schedules EXCEPT ![<<ad, fn>>] = Nil]
    BY <1>3, <1>5 DEF SpendIf
  <2>2. QED BY <1>1, <1>4, <2>1, AdSpends
<1>6. CASE ~(amount > g.threshold)
  <2>1. railLeft' = [railLeft EXCEPT ![ad] = railLeft[ad] - amount]
    BY <1>3, <1>6
  <2>2. /\ RailAvailable(ad) = railLeft[ad] /\ RailAvailable(ad)' = railLeft'[ad]
        /\ railLeft \in [Ads -> Nat]
    BY <1>4 DEF RailsInv
  <2>3. PICK n \in Nat : n = railLeft[ad]
    BY <1>4, <2>2
  <2>4. railLeft'[ad] = n - amount
    BY <1>4, <2>1, <2>2, <2>3
  <2>5. n - (n - amount) = amount
    OBVIOUS
  <2>6. g.threshold \in Nat
    BY <1>4 DEF GuardRow
  <2>7. amount <= rails[ad].threshold
    BY <1>4, <1>6, <2>6
  <2>8. QED BY <2>2, <2>3, <2>4, <2>5, <2>7
<1>7. QED BY <1>5, <1>6

\* And no rail is weaker for it.
LEMMA OwnerCallKeepsRails ==
  ASSUME RailsInv, RailsInv', NEW fn, NEW args, CheckOwnerCall(fn, args),
         fn \in {"withdraw_from_ad", "lock_for_order"} => CallAmount(fn, args) \in Nat,
         NEW ad \in roster
  PROVE RailKept(ad)
<1>1. ad \in Ads /\ rails[ad] \in GuardRow /\ rails[ad] # Nil /\ railLeft[ad] \in Nat
  BY DEF RailsInv
<1>2. PICK row : row = rails[ad]
  OBVIOUS
<1>3. /\ row.threshold \in Nat /\ row.delay \in Nat /\ row.window \in Nat
      /\ row.rate.capacity \in Nat /\ row.rate.refill_per_second \in Nat
  BY <1>1, <1>2 DEF GuardRow, Limit
<1>4. CASE UNCHANGED railVars
  <2>1. rails' = rails /\ railLeft' = railLeft
    BY <1>4 DEF railVars
  <2>2. QED BY <1>1, <1>2, <1>3, <2>1, RailNotWeaker
<1>5. CASE ~UNCHANGED railVars
  <2>1. PICK named, amount, bucket :
          /\ named = NamedAd(fn, args) /\ amount = CallAmount(fn, args)
          /\ fn \in AdActions \ {"set_guard_rail"} /\ fn \notin {"close_ad", "set_settlement_signer"}
          /\ named \in roster
          /\ rails' = [rails EXCEPT ![named].bucket = bucket]
          /\ railLeft' = [railLeft EXCEPT ![named] = railLeft[named] - amount]
          /\ UNCHANGED <<roster, archived>>
    BY <1>5 DEF CheckOwnerCall, IsGuarded
  <2>2. amount \in Nat
    BY <2>1 DEF AdActions
  <2>3. named \in Ads
    BY <2>1 DEF RailsInv
  <2>4. CASE named # ad
    <3>1. rails'[ad] = rails[ad] /\ railLeft'[ad] = railLeft[ad]
      BY <1>1, <2>1, <2>4 DEF RailsInv
    <3>2. QED BY <1>1, <1>2, <1>3, <3>1, RailNotWeaker
  <2>5. CASE named = ad
    <3>1. PICK new : new = [row EXCEPT !.bucket = bucket]
      OBVIOUS
    <3>2. /\ new.threshold = row.threshold /\ new.delay = row.delay /\ new.window = row.window
          /\ new.rate = row.rate
      BY <1>1, <1>2, <3>1 DEF GuardRow
    <3>3. rails' = [rails EXCEPT ![ad] = new]
      BY <1>2, <2>1, <2>5, <3>1
    <3>4. rails'[ad] = new
      BY <1>1, <3>3 DEF RailsInv
    <3>5. new # Nil
      BY <2>1, <2>5, <3>4 DEF RailsInv
    <3>6. railLeft'[ad] <= railLeft[ad]
      <4>1. railLeft'[ad] = railLeft[ad] - amount
        BY <1>1, <2>1, <2>5 DEF RailsInv
      <4>2. QED BY <1>1, <2>2, <4>1
    <3>7. QED BY <1>2, <1>3, <3>2, <3>4, <3>5, <3>6, RailNotWeaker
  <2>6. QED BY <2>4, <2>5
<1>6. QED BY <1>4, <1>5

\* set_guard_rail: what it loosens was announced with the settings it stores.
LEMMA RailSettings ==
  ASSUME NEW g \in GuardSettings, NEW bucket
  PROVE Inputs(RailRow(g, bucket), {"bucket"}) = g
BY DEF Inputs, RailRow, GuardSettings

LEMMA KeptSetGuardRail ==
  ASSUME RailsInv, RailsInv', RowsInv, NEW ad \in Ads, NEW g \in Settings \cup {Nil},
         SetGuardRail(ad, g), NEW a \in roster
  PROVE RailKept(a)
<1>1. a \in Ads /\ rails[a] \in GuardRow /\ rails[a] # Nil /\ railLeft[a] \in Nat
  BY DEF RailsInv
<1>2. /\ rails[a].threshold \in Nat /\ rails[a].delay \in Nat /\ rails[a].window \in Nat
      /\ rails[a].rate \in Limit
      /\ rails[a].rate.capacity \in Nat /\ rails[a].rate.refill_per_second \in Nat
  BY <1>1 DEF GuardRow, Limit
<1>3. CASE a # ad
  <2>1. rails'[a] = rails[a] /\ railLeft'[a] = railLeft[a]
    BY <1>1, <1>3 DEF SetGuardRail, Disarm, RailsInv
  <2>2. QED BY <1>1, <1>2, <2>1, RailNotWeaker
<1>4. CASE a = ad
  <2>1. PICK cur : cur = GetGuardRail(ad)
    OBVIOUS
  <2>2. cur # Nil /\ cur = rails[ad]
    BY <1>4, <2>1 DEF SetGuardRail, IsGuarded, GetGuardRail
  <2>3. CASE g = Nil \/ ~IsTightening(cur, g)
    <3>1. Matured(<<ad, "set_guard_rail">>, <<ad, g>>) /\ schedules' = SchedulesCleared(ad)
      BY <2>1, <2>2, <2>3 DEF SetGuardRail, Disarm
    <3>2. PICK row \in Rows : row = <<ad, "set_guard_rail">>
      BY AdActionRow DEF AdActions
    <3>3. row \in RowsOf(ad)
      BY <3>2, AgentAccountAssumption DEF RowsOf, ActionsFor, AdActions
    <3>4. schedules'[row] = Nil
      BY <3>1, <3>3 DEF SchedulesCleared
    <3>5. Announced(row, <<ad, g>>)
      BY <3>1, <3>2, <3>4, SpentWasAnnounced
    <3>6. g = IF rails'[ad] = Nil THEN Nil ELSE Inputs(rails'[ad], {"bucket"})
      <4>1. CASE g = Nil
        <5>1. rails'[ad] = Nil
          BY <4>1 DEF SetGuardRail, Disarm, RailsInv
        <5>2. QED BY <4>1, <5>1
      <4>2. CASE g # Nil
        <5>1. g \in GuardSettings
          BY <4>2, AgentAccountAssumption
        <5>2. PICK bucket : rails' = [rails EXCEPT ![ad] = RailRow(g, bucket)]
          BY <4>2 DEF SetGuardRail
        <5>3. rails'[ad] = RailRow(g, bucket)
          BY <5>2 DEF RailsInv
        <5>4. roster' = roster \cup {ad}
          BY <4>2 DEF SetGuardRail
        <5>5. rails'[ad] # Nil
          BY <5>4 DEF RailsInv
        <5>6. QED BY <5>1, <5>3, <5>5, RailSettings
      <4>3. QED BY <4>1, <4>2
    <3>7. QED BY <1>4, <3>2, <3>5, <3>6 DEF RailKept
  <2>4. CASE g # Nil /\ IsTightening(cur, g)
    <3>1. g \in GuardSettings
      BY <2>4, AgentAccountAssumption
    <3>2. PICK bucket : rails' = [rails EXCEPT ![ad] = RailRow(g, bucket)]
      BY <2>4 DEF SetGuardRail
    <3>3. rails'[ad] = RailRow(g, bucket)
      BY <3>2 DEF RailsInv
    <3>4. /\ rails'[ad].threshold = g.threshold /\ rails'[ad].delay = g.delay
          /\ rails'[ad].window = g.window /\ rails'[ad].rate = g.rate
      BY <3>3 DEF RailRow
    <3>5. rails'[ad] # Nil
      <4>1. roster' = roster \cup {ad}
        BY <2>4 DEF SetGuardRail
      <4>2. QED BY <4>1 DEF RailsInv
    <3>6. railLeft'[ad] <= railLeft[ad]
      <4>1. railLeft'[ad] = Capped(railLeft[ad], g.rate.capacity)
        BY <1>1, <1>4, <2>1, <2>2, <2>4 DEF SetGuardRail, RailsInv
      <4>2. g.rate.capacity \in Nat
        BY <3>1 DEF GuardSettings, Limit
      <4>3. QED BY <1>1, <1>4, <4>1, <4>2 DEF Capped
    <3>7. QED BY <1>4, <2>2, <2>4, <3>4, <3>5, <3>6, RailNotWeaker DEF IsTightening
  <2>5. QED BY <2>3, <2>4
<1>5. QED BY <1>3, <1>4

\* disarm_closed_ad: the account is as well guarded without the rail.
LEMMA KeptDisarmClosedAd ==
  ASSUME RailsInv, RailsInv', NEW e \in Escrows, NEW ad \in Ads, DisarmClosedAd(e, ad),
         NEW a \in roster
  PROVE RailKept(a)
<1>1. a \in Ads /\ rails[a] \in GuardRow /\ rails[a] # Nil /\ railLeft[a] \in Nat
  BY DEF RailsInv
<1>2. /\ e \in targets /\ IsClosedAd(e, ad) /\ roster' = roster \ {ad}
      /\ Longest(roster \ {ad}) >= Longest(roster) /\ Shortest(roster \ {ad}) <= Shortest(roster)
      /\ rails' = [rails EXCEPT ![ad] = Nil] /\ railLeft' = [railLeft EXCEPT ![ad] = 0]
  BY DEF DisarmClosedAd, Disarm
<1>3. CASE a # ad
  <2>1. rails'[a] = rails[a] /\ railLeft'[a] = railLeft[a]
    BY <1>1, <1>2, <1>3 DEF RailsInv
  <2>2. /\ rails[a].threshold \in Nat /\ rails[a].delay \in Nat /\ rails[a].window \in Nat
        /\ rails[a].rate.capacity \in Nat /\ rails[a].rate.refill_per_second \in Nat
    BY <1>1 DEF GuardRow, Limit
  <2>3. QED BY <1>1, <2>1, <2>2, RailNotWeaker
<1>4. CASE a = ad
  <2>1. \A b \in roster \ {ad} : rails'[b] = rails[b]
    BY <1>2 DEF RailsInv
  <2>2. /\ {rails'[b].delay : b \in roster'} = {rails[b].delay : b \in roster \ {ad}}
        /\ {rails'[b].window : b \in roster'} = {rails[b].window : b \in roster \ {ad}}
    BY <1>2, <2>1
  <2>3. Longest(roster)' = Longest(roster \ {ad}) /\ Shortest(roster)' = Shortest(roster \ {ad})
    BY <2>2 DEF Longest, Shortest
  <2>4. rails'[ad] = Nil
    BY <1>2 DEF RailsInv
  <2>5. DeadAdDisarmed(ad)
    BY <1>2, <2>3, <2>4 DEF DeadAdDisarmed
  <2>6. QED BY <1>4, <2>5 DEF RailKept
<1>5. QED BY <1>3, <1>4

\* set_policy: what it widens was announced with the policy it stores.
LEMMA PolicySettings ==
  ASSUME NEW p \in PolicyInput, NEW buckets
  PROVE Inputs(PolicyRow(p, buckets), {"revoked", "buckets"}) = p
BY DEF Inputs, PolicyRow, PolicyInput

LEMMA TighterMayLockLess ==
  ASSUME NEW cur \in AgentRow, cur # Nil, ~cur.revoked, NEW p \in PolicyInput, NEW buckets,
         IsPolicyTightening(cur, p), NEW o \in Orders, NEW t \in Int,
         MayLock(PolicyRow(p, buckets), o, t)
  PROVE MayLock(cur, o, t)
<1>1. /\ p.valid_until = 0 \/ t < p.valid_until
      /\ o.signer = p.settlement_signer /\ o.order_token \in p.order_tokens
      /\ p.ad_scope # Nil => o.ad \in p.ad_scope
      /\ p.ad_tokens[o.ad_token] # Nil
      /\ Scaled(o) # Nil /\ Scaled(o) \in 1..p.ad_tokens[o.ad_token].max_per_order
  BY DEF MayLock, PolicyRow, AdInScope
<1>2. o.ad_token \in Tokens
  BY AgentAccountAssumption DEF OrderInput
<1>3. /\ p.ad_tokens[o.ad_token] \in [max_per_order : Nat, rate : Limit]
      /\ p.valid_until \in Nat /\ cur.valid_until \in Nat
  BY <1>1, <1>2 DEF PolicyInput, AgentRow, TokenRules
<1>4. o.ad_token \in AdTokens(p)
  BY <1>1, <1>2 DEF AdTokens
<1>5. /\ cur.ad_tokens[o.ad_token] # Nil
      /\ p.ad_tokens[o.ad_token].max_per_order <= cur.ad_tokens[o.ad_token].max_per_order
  BY <1>4 DEF IsPolicyTightening
<1>6. cur.ad_tokens[o.ad_token] \in [max_per_order : Nat, rate : Limit]
  BY <1>2, <1>5 DEF AgentRow, TokenRules
<1>7. PICK m \in Nat, n \in Nat :
        m = p.ad_tokens[o.ad_token].max_per_order /\ n = cur.ad_tokens[o.ad_token].max_per_order
  BY <1>3, <1>6
<1>8. Scaled(o) \in 1..n
  <2>1. PICK amount : amount = Scaled(o)
    OBVIOUS
  <2>2. amount \in 1..m /\ m <= n
    BY <1>1, <1>5, <1>7, <2>1
  <2>3. QED BY <2>1, <2>2
<1>9. cur.valid_until = 0 \/ t < cur.valid_until
  <2>1. cur.valid_until # 0 => p.valid_until \in 1..cur.valid_until
    BY DEF IsPolicyTightening
  <2>2. QED BY <1>1, <1>3, <2>1
<1>10. /\ o.signer = cur.settlement_signer /\ o.order_token \in cur.order_tokens
       /\ AdInScope(cur, o.ad)
  BY <1>1 DEF IsPolicyTightening, AdInScope
<1>11. QED BY <1>1, <1>5, <1>7, <1>8, <1>9, <1>10 DEF MayLock

LEMMA KeptSetPolicy ==
  ASSUME RailsInv, RowsInv, PoliciesInv, PoliciesInv', AnyGuarded,
         NEW agent \in Agents, NEW p \in Policies, SetPolicy(agent, p), NEW a \in Agents
  PROVE AgentKept(a)
<1>1. p \in PolicyInput
  BY AgentAccountAssumption
<1>2. PICK cur : cur = policies[agent]
  OBVIOUS
<1>3. PICK carried \in BOOLEAN : carried = (cur # Nil /\ IsPolicyTightening(cur, p))
  OBVIOUS
<1>4. PICK buckets : policies' = [policies EXCEPT ![agent] = PolicyRow(p, buckets)]
  BY DEF SetPolicy
<1>5. /\ agentLeft' = [agentLeft EXCEPT ![agent] =
           [t \in Tokens |->
              IF t \notin AdTokens(p) THEN 0
              ELSE IF carried THEN Capped(agentLeft[agent][t], p.ad_tokens[t].rate.capacity)
              ELSE p.ad_tokens[t].rate.capacity]]
      /\ SpendIf(~carried, <<Me, "set_policy">>, <<agent, p>>)
      /\ cur # Nil => ~cur.revoked
  BY <1>2, <1>3 DEF SetPolicy
<1>6. agentLeft \in [Agents -> [Tokens -> Nat]] /\ policies \in [Agents -> AgentRow \cup {Nil}]
  BY DEF PoliciesInv
<1>7. CASE a # agent
  <2>1. policies'[a] = policies[a] /\ agentLeft'[a] = agentLeft[a]
    BY <1>4, <1>5, <1>6, <1>7
  <2>2. \A t \in Tokens : agentLeft'[a][t] <= agentLeft[a][t]
    <3>1. \A t \in Tokens : agentLeft[a][t] \in Nat
      BY <1>6
    <3>2. QED BY <2>1, <3>1
  <2>3. QED BY <2>1, <2>2, AgentNotWider
<1>8. CASE a = agent /\ carried
  <2>1. cur \in AgentRow /\ cur # Nil /\ ~cur.revoked /\ IsPolicyTightening(cur, p)
    BY <1>2, <1>3, <1>5, <1>6, <1>8
  <2>2. policies'[a] = PolicyRow(p, buckets) /\ policies[a] = cur
    BY <1>2, <1>4, <1>6, <1>8
  <2>3. ASSUME NEW o \in Orders, NEW t \in now..MaxTime, MayLock(policies'[a], o, t)
        PROVE MayLock(policies[a], o, t)
    BY <1>1, <2>1, <2>2, <2>3, TighterMayLockLess
  <2>4. ASSUME NEW t \in Tokens PROVE agentLeft'[a][t] <= agentLeft[a][t]
    <3>1. agentLeft[a][t] \in Nat
      BY <1>6
    <3>2. CASE t \notin AdTokens(p)
      <4>1. agentLeft'[a][t] = 0
        BY <1>5, <1>6, <1>8, <3>2
      <4>2. QED BY <3>1, <4>1
    <3>3. CASE t \in AdTokens(p)
      <4>1. agentLeft'[a][t] = Capped(agentLeft[a][t], p.ad_tokens[t].rate.capacity)
        BY <1>5, <1>6, <1>8, <3>3
      <4>2. p.ad_tokens[t].rate.capacity \in Nat
        BY <1>1, <3>3 DEF AdTokens, PolicyInput, TokenRules, Limit
      <4>3. QED BY <3>1, <4>1, <4>2 DEF Capped
    <3>4. QED BY <3>2, <3>3
  <2>5. QED BY <2>3, <2>4, AgentNotWider
<1>9. CASE a = agent /\ ~carried
  <2>1. Matured(<<Me, "set_policy">>, <<agent, p>>)
        /\ schedules' = [schedules EXCEPT ![<<Me, "set_policy">>] = Nil]
    BY <1>5, <1>9 DEF SpendIf
  <2>2. Announced(<<Me, "set_policy">>, <<agent, p>>)
    <3>1. "set_policy" \in AccountActions
      BY DEF AccountActions
    <3>2. QED BY <2>1, <3>1, AccountSpends
  <2>3. policies'[a] = PolicyRow(p, buckets)
    BY <1>4, <1>6, <1>9
  <2>4. Inputs(policies'[a], {"revoked", "buckets"}) = p
    BY <1>1, <2>3, PolicySettings
  <2>5. QED BY <1>9, <2>2, <2>4 DEF AgentKept
<1>10. QED BY <1>7, <1>8, <1>9

\* revoke_agent only takes away.
LEMMA KeptRevokeAgent ==
  ASSUME PoliciesInv, PoliciesInv', NEW agent \in Agents, RevokeAgent(agent), NEW a \in Agents
  PROVE AgentKept(a)
<1>1. /\ agentLeft' = agentLeft /\ policies[agent] # Nil
      /\ policies' = [policies EXCEPT ![agent].revoked = TRUE]
      /\ agentLeft \in [Agents -> [Tokens -> Nat]] /\ policies \in [Agents -> AgentRow \cup {Nil}]
  BY DEF RevokeAgent, PoliciesInv
<1>2. \A t \in Tokens : agentLeft'[a][t] <= agentLeft[a][t]
  <2>1. \A t \in Tokens : agentLeft[a][t] \in Nat
    BY <1>1
  <2>2. QED BY <1>1, <2>1
<1>3. ASSUME NEW o \in Orders, NEW t \in now..MaxTime, MayLock(policies'[a], o, t)
      PROVE MayLock(policies[a], o, t)
  <2>1. CASE a # agent
    <3>1. policies'[a] = policies[a]
      BY <1>1, <2>1
    <3>2. QED BY <1>3, <3>1
  <2>2. CASE a = agent
    <3>1. PICK row : row = [policies[agent] EXCEPT !.revoked = TRUE]
      OBVIOUS
    <3>2. row.revoked
      BY <1>1, <3>1 DEF AgentRow
    <3>3. policies'[a] = row
      BY <1>1, <2>2, <3>1
    <3>4. QED BY <1>3, <3>2, <3>3 DEF MayLock
  <2>3. QED BY <2>1, <2>2
<1>4. QED BY <1>2, <1>3, AgentNotWider

\* set_account_limit: what it raises was announced with the limit it stores.
LEMMA KeptSetAccountLimit ==
  ASSUME RailsInv, RowsInv, VolumesInv, VolumesInv', AnyGuarded,
         NEW t \in Tokens, NEW limit \in Limits, SetAccountLimit(t, limit), NEW u \in Tokens
  PROVE LimitKept(u)
<1>1. limit \in Limit
  BY AgentAccountAssumption
<1>2. PICK cur : cur = volume[t]
  OBVIOUS
<1>3. /\ SpendIf(~IsLimitTightening(cur, limit), <<Me, "set_account_limit">>, <<t, limit>>)
      /\ \E bucket : volume' = [volume EXCEPT ![t] = [limit |-> limit, bucket |-> bucket]]
  BY <1>2 DEF SetAccountLimit
<1>4. PICK bucket : volume' = [volume EXCEPT ![t] = [limit |-> limit, bucket |-> bucket]]
  BY <1>3
<1>5. DOMAIN volume = Tokens
  BY DEF VolumesInv, VolumesOK
<1>6. CASE u # t
  <2>1. volume'[u] = volume[u]
    BY <1>4, <1>5, <1>6
  <2>2. QED BY <2>1 DEF LimitKept, LimitRaised
<1>7. CASE u = t
  <2>1. volume'[u].limit = limit
    BY <1>4, <1>5, <1>7
  <2>2. CASE IsLimitTightening(cur, limit)
    <3>1. cur # Nil /\ limit.capacity <= cur.limit.capacity
          /\ limit.refill_per_second <= cur.limit.refill_per_second
      BY <2>2 DEF IsLimitTightening
    <3>2. cur \in AccountVolume
      BY <1>2, <3>1 DEF VolumesInv, VolumesOK
    <3>3. /\ cur.limit.capacity \in Nat /\ cur.limit.refill_per_second \in Nat
          /\ limit.capacity \in Nat /\ limit.refill_per_second \in Nat
      BY <1>1, <3>2 DEF AccountVolume, Limit
    <3>4. QED BY <1>2, <1>7, <2>1, <3>1, <3>3 DEF LimitKept, LimitRaised
  <2>3. CASE ~IsLimitTightening(cur, limit)
    <3>1. Matured(<<Me, "set_account_limit">>, <<t, limit>>)
          /\ schedules' = [schedules EXCEPT ![<<Me, "set_account_limit">>] = Nil]
      BY <1>3, <2>3 DEF SpendIf
    <3>2. "set_account_limit" \in AccountActions
      BY DEF AccountActions
    <3>3. Announced(<<Me, "set_account_limit">>, <<t, limit>>)
      BY <3>1, <3>2, AccountSpends
    <3>4. QED BY <1>7, <2>1, <3>3 DEF LimitKept
  <2>4. QED BY <2>2, <2>3
<1>8. QED BY <1>6, <1>7

\* call_with: a token the account pays or approves ends where it began.
LEMMA KeptMoved ==
  ASSUME RestOK, NEW t \in Tokens, NEW paid \in Nat, NEW pulled \in Nat, NEW received \in Nat,
         Moved(t, paid, pulled, received), NEW u \in Tokens
  PROVE RestKept(u)
<1>1. rest \in [Tokens -> Nat]
  BY DEF RestOK
<1>2. PICK left : left = rest[t] + paid + received - pulled
  OBVIOUS
<1>3. rest' = [rest EXCEPT ![t] = left] /\ (paid + pulled > 0 => paid + received = pulled)
  BY <1>2 DEF Moved
<1>4. left \in Int /\ left >= rest[t]
  <2>1. PICK n \in Nat : n = rest[t]
    BY <1>1
  <2>2. CASE paid + pulled > 0
    BY <1>2, <1>3, <2>1, <2>2
  <2>3. CASE ~(paid + pulled > 0)
    <3>1. paid = 0 /\ pulled = 0
      BY <2>3
    <3>2. QED BY <1>2, <2>1, <3>1
  <2>4. QED BY <2>2, <2>3
<1>5. PICK n \in Nat : n = rest[u]
  BY <1>1
<1>6. rest'[u] >= rest[u] /\ rest'[u] \in Int
  <2>1. CASE u = t
    BY <1>1, <1>3, <1>4, <2>1
  <2>2. CASE u # t
    BY <1>1, <1>3, <1>5, <2>2
  <2>3. QED BY <2>1, <2>2
<1>7. QED BY <1>5, <1>6 DEF RestKept

\* sweep: the one way out for funds at rest is announced.
LEMMA KeptSweep ==
  ASSUME RailsInv, RowsInv, RestOK, AnyGuarded,
         NEW t \in Tokens, NEW to \in Payees, NEW amount \in Amounts, Sweep(t, to, amount),
         NEW u \in Tokens
  PROVE RestKept(u)
<1>1. Announced(<<Me, "sweep">>, <<t, to, amount>>)
  <2>1. Matured(<<Me, "sweep">>, <<t, to, amount>>)
        /\ schedules' = [schedules EXCEPT ![<<Me, "sweep">>] = Nil]
    BY DEF Sweep, SpendIf
  <2>2. "sweep" \in AccountActions
    BY DEF AccountActions
  <2>3. QED BY <2>1, <2>2, AccountSpends
<1>2. rest \in [Tokens -> Nat] /\ amount \in Nat
  BY AgentAccountAssumption DEF RestOK
<1>3. PICK n \in Nat : n = rest[u]
  BY <1>2
<1>4. CASE u # t \/ to = Me
  <2>1. rest'[u] = rest[u]
    BY <1>2, <1>4 DEF Sweep
  <2>2. QED BY <1>3, <2>1 DEF RestKept
<1>5. CASE u = t /\ to # Me
  <2>1. rest'[u] = rest[u] - amount
    BY <1>2, <1>5 DEF Sweep
  <2>2. rest[u] - rest'[u] = amount
    BY <1>2, <1>3, <2>1
  <2>3. QED BY <1>1, <1>5, <2>2 DEF RestKept
<1>6. QED BY <1>4, <1>5

\* A call that moves an ad's liquidity and nothing else of it.
LEMMA MovesKeepAd ==
  ASSUME NEW e, NEW ad, NEW d, AdMoves(e, ad, d)
  PROVE AdKept(e, ad)
BY DEF AdMoves, AdKept

LEMMA KeptFundAd ==
  ASSUME BookOK, NEW e \in Escrows, NEW ad \in Ads, NEW amount \in Amounts, FundAd(e, ad, amount),
         NEW f \in Escrows, NEW a \in Ads
  PROVE AdKept(f, a)
<1>1. amount \in Nat /\ book[e][ad] # Nil /\ Deposited(e, ad, amount)
  BY AgentAccountAssumption DEF FundAd
<1>2. /\ AdMoves(e, ad, 0 - amount)
      /\ \A g \in Escrows, b \in Ads : <<g, b>> # <<e, ad>> => AdMoves(g, b, 0)
  BY <1>1, DepositMoves
<1>3. CASE <<f, a>> = <<e, ad>>
  BY <1>2, <1>3, MovesKeepAd
<1>4. CASE <<f, a>> # <<e, ad>>
  BY <1>2, <1>4, MovesKeepAd
<1>5. QED BY <1>3, <1>4

LEMMA KeptWithdraw ==
  ASSUME BookOK, NEW e \in Escrows, NEW ad \in Ads, NEW amount \in Amounts, NEW to,
         CallWithdraw(e, ad, amount, to), NEW f \in Escrows, NEW a \in Ads
  PROVE AdKept(f, a)
<1>1. amount \in Nat /\ Withdrawn(e, ad, amount)
  BY AgentAccountAssumption DEF CallWithdraw
<1>2. /\ AdMoves(e, ad, amount)
      /\ \A g \in Escrows, b \in Ads : <<g, b>> # <<e, ad>> => AdMoves(g, b, 0)
  BY <1>1, WithdrawalMoves
<1>3. CASE <<f, a>> = <<e, ad>>
  BY <1>2, <1>3, MovesKeepAd
<1>4. CASE <<f, a>> # <<e, ad>>
  BY <1>2, <1>4, MovesKeepAd
<1>5. QED BY <1>3, <1>4

LEMMA KeptOrderEnds ==
  ASSUME BookOK, NEW e \in Escrows, NEW ad \in Ads, NEW amount, NEW paid \in BOOLEAN,
         OrderEnds(e, ad, amount, paid), NEW f \in Escrows, NEW a \in Ads
  PROVE AdKept(f, a)
<1>1. \E n \in Nat : AdMoves(f, a, 0 - n)
  BY EndingMoves
<1>2. QED BY <1>1, MovesKeepAd

LEMMA KeptLocks ==
  ASSUME BookOK, NEW locks, \A i \in DOMAIN locks : Scaled(locks[i]) \in Nat,
         IsFiniteSet(DOMAIN locks), book' = LockAll(book, locks), NEW f \in Escrows, NEW a \in Ads
  PROVE AdKept(f, a)
<1>1. AdMoves(f, a, Reserved(locks, f, a))
  BY LockMoves
<1>2. QED BY <1>1, MovesKeepAd

\* create_ad opens an ad that was not there.
LEMMA KeptCreateAd ==
  ASSUME BookOK, NEW e \in Escrows, NEW ad \in Ads, NEW amount, NEW signer,
         CreateAd(e, ad, amount, signer), NEW f \in Escrows, NEW a \in Ads
  PROVE AdKept(f, a)
<1>1. PICK row : row = [balance |-> amount, locked |-> 0, open |-> TRUE, signer |-> signer]
  OBVIOUS
<1>2. book[e][ad] = Nil /\ book' = [book EXCEPT ![e][ad] = row]
  BY <1>1 DEF CreateAd
<1>3. \A g \in Escrows, b \in Ads : <<g, b>> # <<e, ad>> => book'[g][b] = book[g][b]
  BY <1>2, RowAt DEF OnlyRow
<1>4. CASE <<f, a>> = <<e, ad>>
  BY <1>2, <1>4 DEF AdKept
<1>5. CASE <<f, a>> # <<e, ad>>
  BY <1>3, <1>5 DEF AdKept
<1>6. QED BY <1>4, <1>5

\* call: another signer, or the end of an ad, was announced.
LEMMA KeptRepoint ==
  ASSUME RailsInv, RowsInv, BookOK, NEW e \in Escrows, NEW ad \in Ads, NEW signer,
         CallRepoint(e, ad, signer), NEW f \in Escrows, NEW a \in roster
  PROVE AdKept(f, a)
<1>1. PICK old : old = book[e][ad]
  OBVIOUS
<1>2. PICK row : row = [old EXCEPT !.signer = signer]
  OBVIOUS
<1>3. old \in AdRow /\ book' = [book EXCEPT ![e][ad] = row]
  BY <1>1, <1>2 DEF CallRepoint, BookOK
<1>4. OnlyRow(e, ad, row) /\ a \in Ads
  BY <1>3, RowAt DEF RailsInv
<1>5. CASE <<f, a>> # <<e, ad>>
  BY <1>4, <1>5 DEF AdKept, OnlyRow
<1>6. CASE f = e /\ a = ad
  <2>1. row.signer = signer /\ row.open = old.open
    BY <1>2, <1>3 DEF AdRow
  <2>2. CheckOwnerCall("set_settlement_signer", <<ad, signer>>)
    BY DEF CallRepoint
  <2>3. NamedAd("set_settlement_signer", <<ad, signer>>) = ad
    BY DEF NamedAd
  <2>4. Announced(<<ad, "set_settlement_signer">>, <<ad, signer>>)
    BY <1>6, <2>2, <2>3, OwnerCallAnnounced
  <2>5. QED BY <1>1, <1>4, <1>6, <2>1, <2>4 DEF AdKept, OnlyRow
<1>7. QED BY <1>5, <1>6

LEMMA KeptClose ==
  ASSUME RailsInv, RowsInv, BookOK, NEW e \in Escrows, NEW ad \in Ads, NEW to \in Payees,
         CallClose(e, ad, to), NEW f \in Escrows, NEW a \in roster
  PROVE AdKept(f, a)
<1>1. PICK old : old = book[e][ad]
  OBVIOUS
<1>2. PICK row : row = [old EXCEPT !.balance = 0, !.open = FALSE]
  OBVIOUS
<1>3. old \in AdRow
  BY <1>1 DEF CallClose, Closed, BookOK
<1>4. book' = [book EXCEPT ![e][ad] = row]
  BY <1>1, <1>2 DEF CallClose, Closed
<1>5. OnlyRow(e, ad, row) /\ a \in Ads
  BY <1>4, RowAt DEF RailsInv
<1>6. CASE <<f, a>> # <<e, ad>>
  BY <1>5, <1>6 DEF AdKept, OnlyRow
<1>7. CASE f = e /\ a = ad
  <2>1. row.signer = old.signer
    BY <1>2, <1>3 DEF AdRow
  <2>2. CheckOwnerCall("close_ad", <<ad, to>>)
    BY DEF CallClose
  <2>3. NamedAd("close_ad", <<ad, to>>) = ad
    BY DEF NamedAd
  <2>4. Announced(<<ad, "close_ad">>, <<ad, to>>)
    BY <1>7, <2>2, <2>3, OwnerCallAnnounced
  <2>5. QED BY <1>1, <1>5, <1>7, <2>1, <2>4 DEF AdKept, OnlyRow
<1>8. QED BY <1>6, <1>7

-----------------------------------------------------------------------------
(* An agent's entry.                                                       *)

\* No spend moves a limit.
LimitsStand(w) ==
  /\ DOMAIN w = Tokens
  /\ \A t \in Tokens : /\ volume[t] = Nil => w[t] = Nil
                       /\ volume[t] # Nil => DOMAIN w[t] = {"limit", "bucket"}
                                             /\ w[t].limit = volume[t].limit

LEMMA SpendKeepsLimits ==
  ASSUME NEW p, NEW acc, NEW o, o.ad_token \in Tokens, volume[o.ad_token] # Nil,
         LimitsStand(acc.volume)
  PROVE LimitsStand(SpendVolume(p, acc, o).volume)
<1>1. PICK token, old : token = o.ad_token /\ old = acc.volume[token]
  OBVIOUS
<1>2. PICK bucket : SpendVolume(p, acc, o).volume = [acc.volume EXCEPT ![token].bucket = bucket]
  BY <1>1 DEF SpendVolume
<1>3. PICK row : row = [old EXCEPT !.bucket = bucket]
  OBVIOUS
<1>4. PICK w : w = [acc.volume EXCEPT ![token] = row]
  OBVIOUS
<1>5. SpendVolume(p, acc, o).volume = w
  BY <1>1, <1>2, <1>3, <1>4
<1>6. DOMAIN old = {"limit", "bucket"} /\ old.limit = volume[token].limit
  BY <1>1 DEF LimitsStand
<1>7. DOMAIN row = {"limit", "bucket"} /\ row.limit = volume[token].limit
  BY <1>3, <1>6
<1>8. LimitsStand(w)
  BY <1>1, <1>4, <1>7 DEF LimitsStand
<1>9. QED BY <1>5, <1>8

LEMMA LimitsStandNow == ASSUME VolumesInv PROVE LimitsStand(volume)
BY DEF LimitsStand, VolumesInv, VolumesOK, AccountVolume

LEMMA OneLockKeepsLimits ==
  ASSUME VolumesInv, NEW agent, NEW o \in Orders, CheckAuth(agent, <<o>>)
  PROVE LimitsStand(volume')
<1>1. PICK p, locks : p = policies[agent] /\ locks = <<o>>
  OBVIOUS
<1>2. volume' = SpendAll(p, locks).volume
      /\ \A i \in 1..Len(locks) : volume[locks[i].ad_token] # Nil
  BY <1>1 DEF CheckAuth
<1>3. Len(locks) = 1 /\ locks[1] = o
  BY <1>1
<1>4. o.ad_token \in Tokens /\ volume[o.ad_token] # Nil
  BY <1>2, <1>3, AgentAccountAssumption DEF OrderInput
<1>5. PICK acc : acc = SpendStart(p)
  OBVIOUS
<1>6. LimitsStand(acc.volume)
  BY <1>5, LimitsStandNow DEF SpendStart
<1>7. QED BY <1>1, <1>2, <1>4, <1>5, <1>6, SpendOne, SpendKeepsLimits

LEMMA TwoLocksKeepLimits ==
  ASSUME VolumesInv, NEW agent, NEW o \in Orders, NEW q \in Orders, CheckAuth(agent, <<o, q>>)
  PROVE LimitsStand(volume')
<1>1. PICK p, locks : p = policies[agent] /\ locks = <<o, q>>
  OBVIOUS
<1>2. volume' = SpendAll(p, locks).volume
      /\ \A i \in 1..Len(locks) : volume[locks[i].ad_token] # Nil
  BY <1>1 DEF CheckAuth
<1>3. Len(locks) = 2 /\ locks[1] = o /\ locks[2] = q
  BY <1>1
<1>4. /\ o.ad_token \in Tokens /\ volume[o.ad_token] # Nil
      /\ q.ad_token \in Tokens /\ volume[q.ad_token] # Nil
  BY <1>2, <1>3, AgentAccountAssumption DEF OrderInput
<1>5. PICK acc : acc = SpendStart(p)
  OBVIOUS
<1>6. PICK first : first = SpendVolume(p, acc, o)
  OBVIOUS
<1>7. LimitsStand(acc.volume)
  BY <1>5, LimitsStandNow DEF SpendStart
<1>8. LimitsStand(first.volume)
  BY <1>4, <1>6, <1>7, SpendKeepsLimits
<1>9. LimitsStand(SpendVolume(p, first, q).volume)
  BY <1>4, <1>8, SpendKeepsLimits
<1>10. QED BY <1>1, <1>2, <1>5, <1>6, <1>9, SpendTwo

\* An entry's locks are orders with an amount, and what they take of a token is one.
EntryOK(locks) ==
  /\ IsFiniteSet(DOMAIN locks)
  /\ \A i \in DOMAIN locks : Scaled(locks[i]) \in Nat /\ locks[i] \in Orders
  /\ \A t \in Tokens : Taken(locks, t) \in Nat

LEMMA EntryLocks ==
  ASSUME PoliciesInv, NEW agent \in Agents, NEW locks, NEW n \in Nat,
         DOMAIN locks = 1..n, Len(locks) = n, \A i \in 1..n : locks[i] \in Orders,
         CheckAuth(agent, locks)
  PROVE EntryOK(locks)
<1>1. PICK p : p = policies[agent]
  OBVIOUS
<1>2. p # Nil /\ \A i \in 1..n : LockAllowed(p, locks[i])
  BY <1>1 DEF CheckAuth
<1>3. p \in AgentRow
  BY <1>1, <1>2 DEF PoliciesInv
<1>4. \A i \in DOMAIN locks : Scaled(locks[i]) \in Nat
  BY <1>2, <1>3, LockedAmount
<1>5. IsFiniteSet(DOMAIN locks)
  BY FS_Interval
<1>6. ASSUME NEW t \in Tokens PROVE Taken(locks, t) \in Nat
  <2>1. PICK here : here = {i \in DOMAIN locks : locks[i].ad_token = t}
    OBVIOUS
  <2>2. IsFiniteSet(here) /\ here \subseteq DOMAIN locks
    BY <1>5, <2>1, FS_Subset
  <2>3. AmountsOn(here, AmountsOf(locks))
    BY <1>4, <2>2 DEF AmountsOn, AmountsOf
  <2>4. QED BY <2>1, <2>2, <2>3, SumType DEF Taken
<1>7. QED BY <1>4, <1>5, <1>6 DEF EntryOK

\* __check_auth: what an entry takes comes off the agent's allowance.
LEMMA EntryCharged ==
  ASSUME PoliciesInv, PoliciesInv', VolumesInv, VolumesInv', NEW agent \in Agents, NEW locks,
         EntryOK(locks), CheckAuth(agent, locks), NEW t \in Tokens
  PROVE /\ AgentAvailable(agent, t) - AgentAvailable(agent, t)' = Taken(locks, t)
        /\ VolumeAvailable(t) - VolumeAvailable(t)' = Taken(locks, t)
<1>1. /\ AgentAvailable(agent, t) = agentLeft[agent][t]
      /\ AgentAvailable(agent, t)' = agentLeft'[agent][t]
      /\ VolumeAvailable(t) = volumeLeft[t] /\ VolumeAvailable(t)' = volumeLeft'[t]
  BY DEF PoliciesInv, VolumesInv
<1>2. PICK m \in Nat, n \in Nat, k \in Nat :
        m = agentLeft[agent][t] /\ n = volumeLeft[t] /\ k = Taken(locks, t)
  BY DEF PoliciesInv, VolumesInv, EntryOK
<1>3. agentLeft'[agent][t] = m - k /\ volumeLeft'[t] = n - k
  <2>1. PICK left : left = [u \in Tokens |-> agentLeft[agent][u] - Taken(locks, u)]
    OBVIOUS
  <2>2. agentLeft' = [agentLeft EXCEPT ![agent] = left]
    BY <2>1 DEF CheckAuth
  <2>3. agentLeft'[agent] = left
    BY <2>2 DEF PoliciesInv
  <2>4. QED BY <1>2, <2>1, <2>3 DEF CheckAuth
<1>4. m - (m - k) = k /\ n - (n - k) = k
  OBVIOUS
<1>5. QED BY <1>1, <1>2, <1>3, <1>4

LEMMA EntryKeepsAgents ==
  ASSUME PoliciesInv, PoliciesInv', NEW agent \in Agents, NEW locks, EntryOK(locks),
         CheckAuth(agent, locks), NEW a \in Agents
  PROVE AgentKept(a)
<1>1. PICK buckets, left :
        /\ policies' = [policies EXCEPT ![agent].buckets = buckets]
        /\ left = [u \in Tokens |-> agentLeft[agent][u] - Taken(locks, u)]
        /\ agentLeft' = [agentLeft EXCEPT ![agent] = left]
  BY DEF CheckAuth
<1>2. agentLeft \in [Agents -> [Tokens -> Nat]] /\ policies \in [Agents -> AgentRow \cup {Nil}]
  BY DEF PoliciesInv
<1>3. policies[agent] # Nil
  BY DEF CheckAuth
<1>4. ASSUME NEW t \in Tokens PROVE agentLeft'[a][t] <= agentLeft[a][t]
  <2>1. PICK m \in Nat, k \in Nat : m = agentLeft[a][t] /\ k = Taken(locks, t)
    BY <1>2 DEF EntryOK
  <2>2. CASE a # agent
    <3>1. agentLeft'[a] = agentLeft[a]
      BY <1>1, <1>2, <2>2
    <3>2. QED BY <2>1, <3>1
  <2>3. CASE a = agent
    <3>1. agentLeft'[a] = left
      BY <1>1, <1>2, <2>3
    <3>2. agentLeft'[a][t] = m - k
      BY <1>1, <2>1, <2>3, <3>1
    <3>3. QED BY <2>1, <3>2
  <2>4. QED BY <2>2, <2>3
<1>5. ASSUME NEW o \in Orders, NEW t \in now..MaxTime, MayLock(policies'[a], o, t)
      PROVE MayLock(policies[a], o, t)
  <2>1. CASE a # agent
    <3>1. policies'[a] = policies[a]
      BY <1>1, <1>2, <2>1
    <3>2. QED BY <1>5, <3>1
  <2>2. CASE a = agent
    <3>1. PICK p, row : p = policies[agent] /\ row = [p EXCEPT !.buckets = buckets]
      OBVIOUS
    <3>2. policies'[a] = row /\ p \in AgentRow /\ p # Nil /\ p = policies[a]
      BY <1>1, <1>2, <1>3, <2>2, <3>1
    <3>3. /\ row.revoked = p.revoked /\ row.valid_until = p.valid_until
          /\ row.settlement_signer = p.settlement_signer /\ row.order_tokens = p.order_tokens
          /\ row.ad_scope = p.ad_scope /\ row.ad_tokens = p.ad_tokens
      BY <3>1, <3>2 DEF AgentRow
    <3>4. MayLock(row, o, t)
      BY <1>5, <3>2
    <3>5. MayLock(p, o, t)
      BY <3>2, <3>3, <3>4 DEF MayLock, AdInScope
    <3>6. QED BY <3>2, <3>5
  <2>3. QED BY <2>1, <2>2
<1>6. QED BY <1>4, <1>5, AgentNotWider

\* Each kind of step, whole.
LEMMA KeptEntry ==
  ASSUME AgentAccountInv, AgentAccountInv', NEW agent \in Agents, NEW locks, EntryOK(locks),
         CheckAuth(agent, locks), LimitsStand(volume')
  PROVE WideningStep
<1>1. /\ UNCHANGED adminVars /\ UNCHANGED railVars /\ rest' = rest /\ halted' = halted
      /\ book' = LockAll(book, locks)
  BY DEF CheckAuth
<1>2. ReachKept /\ CodeKept /\ HaltKept /\ \A t \in Tokens : RestKept(t)
  BY <1>1, PartsKept DEF adminVars
<1>3. \A ad \in roster : RailKept(ad)
  BY <1>1, PartsKept DEF railVars
<1>4. \A t \in Tokens : LimitKept(t)
  BY LimitNotRaised DEF LimitsStand, AgentAccountInv, AllowancesInv
<1>5. \A a \in Agents : AgentKept(a)
  BY EntryKeepsAgents DEF AgentAccountInv, AllowancesInv
<1>6. ASSUME NEW e \in Escrows, NEW ad \in roster PROVE AdKept(e, ad)
  <2>1. ad \in Ads /\ BookOK
    BY DEF AgentAccountInv, RailsInv, HoldingsInv
  <2>2. QED BY <1>1, <2>1, KeptLocks DEF EntryOK
<1>7. QED BY <1>2, <1>3, <1>4, <1>5, <1>6 DEF WideningStep

LEMMA KeptOwnerLock ==
  ASSUME AgentAccountInv, AgentAccountInv', NEW o \in Orders, CallLock(o)
  PROVE WideningStep
<1>1. PICK locks : locks = <<o>>
  OBVIOUS
<1>2. /\ UNCHANGED adminVars /\ UNCHANGED volumeVars /\ UNCHANGED policyVars
      /\ rest' = rest /\ halted' = halted /\ book' = LockAll(book, locks)
      /\ Scaled(o) \in Nat /\ CheckOwnerCall("lock_for_order", locks)
  BY <1>1 DEF CallLock
<1>3. /\ ReachKept /\ CodeKept /\ HaltKept /\ \A t \in Tokens : RestKept(t) /\ LimitKept(t)
      /\ \A a \in Agents : AgentKept(a)
  BY <1>2, PartsKept DEF adminVars, volumeVars
<1>4. DOMAIN locks = {1} /\ IsFiniteSet({1}) /\ locks[1] = o
  <2>1. DOMAIN locks = {1} /\ locks[1] = o
    BY <1>1
  <2>2. IsFiniteSet({1})
    BY FS_Singleton
  <2>3. QED BY <2>1, <2>2
<1>5. ASSUME NEW ad \in roster PROVE RailKept(ad)
  <2>1. CallAmount("lock_for_order", locks) = Scaled(o)
    BY <1>1 DEF CallAmount
  <2>2. QED BY <1>2, <2>1, OwnerCallKeepsRails DEF AgentAccountInv
<1>6. ASSUME NEW e \in Escrows, NEW ad \in roster PROVE AdKept(e, ad)
  <2>1. ad \in Ads /\ BookOK
    BY DEF AgentAccountInv, RailsInv, HoldingsInv
  <2>2. QED BY <1>2, <1>4, <2>1, KeptLocks
<1>7. QED BY <1>3, <1>5, <1>6 DEF WideningStep

\* Seconds pass and announcements come and go: nothing widens.
LEMMA KeptQuietStep ==
  ASSUME AgentAccountInv, AgentAccountInv',
         UNCHANGED <<targets, code, halted, rest, volume, policies, rails, book>>,
         now' = now => UNCHANGED <<railLeft, agentLeft>>
  PROVE WideningStep
<1>1. /\ ReachKept /\ CodeKept /\ HaltKept /\ \A t \in Tokens : RestKept(t) /\ LimitKept(t)
      /\ \A e \in Escrows, ad \in roster : AdKept(e, ad)
  BY PartsKept
<1>2. ASSUME NEW a \in Agents PROVE AgentKept(a)
  <2>1. PoliciesInv /\ PoliciesInv' /\ \A t \in Tokens : agentLeft[a][t] \in Nat
    BY DEF AgentAccountInv, AllowancesInv, PoliciesInv
  <2>2. now' = now => \A t \in Tokens : agentLeft'[a][t] <= agentLeft[a][t]
    BY <2>1
  <2>3. QED BY <2>1, <2>2, AgentNotWider
<1>3. ASSUME NEW ad \in roster PROVE RailKept(ad)
  <2>1. rails[ad] # Nil /\ rails[ad] \in GuardRow /\ railLeft[ad] \in Nat
    BY DEF AgentAccountInv, RailsInv
  <2>2. /\ rails[ad].threshold \in Nat /\ rails[ad].delay \in Nat /\ rails[ad].window \in Nat
        /\ rails[ad].rate.capacity \in Nat /\ rails[ad].rate.refill_per_second \in Nat
    BY <2>1 DEF GuardRow, Limit
  <2>3. QED BY <2>1, <2>2, RailNotWeaker DEF AgentAccountInv
<1>4. QED BY <1>1, <1>2, <1>3 DEF WideningStep

\* A call at an escrow that changes its ads, its halt or the funds at rest.
LEMMA KeptOwnerCall ==
  ASSUME AgentAccountInv, AgentAccountInv', UNCHANGED adminVars, UNCHANGED volumeVars,
         UNCHANGED policyVars, HaltKept,
         \A t \in Tokens : RestKept(t), \A ad \in roster : RailKept(ad),
         \A e \in Escrows, ad \in roster : AdKept(e, ad)
  PROVE WideningStep
<1>1. /\ ReachKept /\ CodeKept /\ \A t \in Tokens : LimitKept(t)
      /\ \A a \in Agents : AgentKept(a)
  BY PartsKept DEF adminVars, volumeVars
<1>2. QED BY <1>1 DEF WideningStep

LEMMA KeptFunding ==
  ASSUME AgentAccountInv, AgentAccountInv', NEW e \in Escrows, NEW ad \in Ads,
         NEW amount \in Amounts
  PROVE /\ FundAd(e, ad, amount) => WideningStep
        /\ \A s \in Signers : CreateAd(e, ad, amount, s) => WideningStep
        /\ \A paid \in BOOLEAN : OrderEnds(e, ad, amount, paid) => WideningStep
<1>1. /\ amount \in Nat /\ BookOK /\ RestOK /\ roster \subseteq Ads /\ AdToken[ad] \in Tokens
  BY AgentAccountAssumption DEF AgentAccountInv, HoldingsInv, RailsInv
<1>2. ASSUME Moved(AdToken[ad], amount, amount, 0), NEW t \in Tokens PROVE RestKept(t)
  BY <1>1, <1>2, KeptMoved
<1>3. ASSUME FundAd(e, ad, amount) PROVE WideningStep
  <2>1. /\ UNCHANGED adminVars /\ UNCHANGED railVars /\ UNCHANGED volumeVars
        /\ UNCHANGED policyVars /\ halted' = halted /\ Moved(AdToken[ad], amount, amount, 0)
    BY <1>3 DEF FundAd
  <2>2. HaltKept /\ \A b \in roster : RailKept(b)
    BY <2>1, PartsKept DEF railVars
  <2>3. \A f \in Escrows, b \in roster : AdKept(f, b)
    BY <1>1, <1>3, KeptFundAd
  <2>4. QED BY <1>2, <2>1, <2>2, <2>3, KeptOwnerCall
<1>4. ASSUME NEW s \in Signers, CreateAd(e, ad, amount, s) PROVE WideningStep
  <2>1. /\ UNCHANGED adminVars /\ UNCHANGED railVars /\ UNCHANGED volumeVars
        /\ UNCHANGED policyVars /\ halted' = halted /\ Moved(AdToken[ad], amount, amount, 0)
    BY <1>4 DEF CreateAd
  <2>2. HaltKept /\ \A b \in roster : RailKept(b)
    BY <2>1, PartsKept DEF railVars
  <2>3. \A f \in Escrows, b \in roster : AdKept(f, b)
    BY <1>1, <1>4, KeptCreateAd
  <2>4. QED BY <1>2, <2>1, <2>2, <2>3, KeptOwnerCall
<1>5. ASSUME NEW paid \in BOOLEAN, OrderEnds(e, ad, amount, paid) PROVE WideningStep
  <2>1. /\ UNCHANGED adminVars /\ UNCHANGED railVars /\ UNCHANGED volumeVars
        /\ UNCHANGED policyVars /\ halted' = halted /\ rest' = rest
    BY <1>5 DEF OrderEnds
  <2>2. HaltKept /\ (\A b \in roster : RailKept(b)) /\ \A t \in Tokens : RestKept(t)
    BY <2>1, PartsKept DEF railVars
  <2>3. \A f \in Escrows, b \in roster : AdKept(f, b)
    BY <1>1, <1>5, KeptOrderEnds
  <2>4. QED BY <2>1, <2>2, <2>3, KeptOwnerCall
<1>6. QED BY <1>3, <1>4, <1>5

LEMMA KeptWithdrawal ==
  ASSUME AgentAccountInv, AgentAccountInv', NEW e \in Escrows, NEW ad \in Ads,
         NEW amount \in Amounts, NEW to \in Payees, CallWithdraw(e, ad, amount, to)
  PROVE WideningStep
<1>1. /\ amount \in Nat /\ BookOK /\ RestOK /\ roster \subseteq Ads /\ AdToken[ad] \in Tokens
      /\ RailsInv /\ RailsInv'
  BY AgentAccountAssumption DEF AgentAccountInv, HoldingsInv, RailsInv
<1>2. /\ UNCHANGED adminVars /\ UNCHANGED volumeVars /\ UNCHANGED policyVars /\ halted' = halted
      /\ CheckOwnerCall("withdraw_from_ad", <<ad, amount, to>>)
      /\ Moved(AdToken[ad], 0, 0, ReceivedBy(to, amount))
  BY DEF CallWithdraw
<1>3. \A t \in Tokens : RestKept(t)
  <2>1. ReceivedBy(to, amount) \in Nat
    BY <1>1 DEF ReceivedBy
  <2>2. QED BY <1>1, <1>2, <2>1, KeptMoved
<1>4. \A b \in roster : RailKept(b)
  <2>1. CallAmount("withdraw_from_ad", <<ad, amount, to>>) \in Nat
    BY <1>1 DEF CallAmount
  <2>2. QED BY <1>1, <1>2, <2>1, OwnerCallKeepsRails
<1>5. \A f \in Escrows, b \in roster : AdKept(f, b)
  BY <1>1, KeptWithdraw
<1>6. HaltKept
  BY <1>2, PartsKept
<1>7. QED BY <1>2, <1>3, <1>4, <1>5, <1>6, KeptOwnerCall

LEMMA KeptClosing ==
  ASSUME AgentAccountInv, AgentAccountInv', NEW e \in Escrows, NEW ad \in Ads,
         NEW to \in Payees, CallClose(e, ad, to)
  PROVE WideningStep
<1>1. /\ BookOK /\ RestOK /\ AdToken[ad] \in Tokens /\ RailsInv /\ RailsInv' /\ RowsInv
  BY AgentAccountAssumption DEF AgentAccountInv, HoldingsInv
<1>2. /\ UNCHANGED adminVars /\ UNCHANGED volumeVars /\ UNCHANGED policyVars /\ halted' = halted
      /\ CheckOwnerCall("close_ad", <<ad, to>>) /\ book[e][ad] # Nil
      /\ Moved(AdToken[ad], 0, 0, ReceivedBy(to, book[e][ad].balance))
  BY DEF CallClose, Closed
<1>3. \A t \in Tokens : RestKept(t)
  <2>1. ReceivedBy(to, book[e][ad].balance) \in Nat
    BY <1>1, <1>2, BookRow DEF ReceivedBy
  <2>2. QED BY <1>1, <1>2, <2>1, KeptMoved
<1>4. \A b \in roster : RailKept(b)
  BY <1>1, <1>2, OwnerCallKeepsRails
<1>5. \A f \in Escrows, b \in roster : AdKept(f, b)
  BY <1>1, KeptClose
<1>6. HaltKept
  BY <1>2, PartsKept
<1>7. QED BY <1>2, <1>3, <1>4, <1>5, <1>6, KeptOwnerCall

LEMMA KeptRepointing ==
  ASSUME AgentAccountInv, AgentAccountInv', NEW e \in Escrows, NEW ad \in Ads,
         NEW signer \in Signers, CallRepoint(e, ad, signer)
  PROVE WideningStep
<1>1. BookOK /\ RailsInv /\ RailsInv' /\ RowsInv
  BY DEF AgentAccountInv, HoldingsInv
<1>2. /\ UNCHANGED adminVars /\ UNCHANGED volumeVars /\ UNCHANGED policyVars /\ halted' = halted
      /\ rest' = rest /\ CheckOwnerCall("set_settlement_signer", <<ad, signer>>)
  BY DEF CallRepoint
<1>3. HaltKept /\ \A t \in Tokens : RestKept(t)
  BY <1>2, PartsKept
<1>4. \A b \in roster : RailKept(b)
  BY <1>1, <1>2, OwnerCallKeepsRails
<1>5. \A f \in Escrows, b \in roster : AdKept(f, b)
  BY <1>1, KeptRepoint
<1>6. QED BY <1>2, <1>3, <1>4, <1>5, KeptOwnerCall

LEMMA KeptHalting ==
  ASSUME AgentAccountInv, AgentAccountInv', AnyGuarded,
         NEW fn \in {"halt_settlement", "resume_settlement"}, CallHalt(fn)
  PROVE WideningStep
<1>1. RailsInv /\ RailsInv' /\ RowsInv
  BY DEF AgentAccountInv
<1>2. /\ UNCHANGED adminVars /\ UNCHANGED volumeVars /\ UNCHANGED policyVars
      /\ rest' = rest /\ book' = book /\ CheckOwnerCall(fn, <<Me>>)
      /\ halted' = (fn = "halt_settlement")
  BY DEF CallHalt
<1>3. (\A t \in Tokens : RestKept(t)) /\ \A f \in Escrows, b \in roster : AdKept(f, b)
  BY <1>2, PartsKept
<1>4. \A b \in roster : RailKept(b)
  BY <1>1, <1>2, OwnerCallKeepsRails
<1>5. HaltKept
  <2>1. ASSUME halted, ~halted' PROVE Announced(<<Me, "resume_settlement">>, <<Me>>)
    <3>1. fn = "resume_settlement"
      BY <1>2, <2>1
    <3>2. QED BY <1>1, <1>2, <3>1, OwnerCallAnnounced
  <2>2. QED BY <2>1 DEF HaltKept
<1>6. QED BY <1>2, <1>3, <1>4, <1>5, KeptOwnerCall

LEMMA KeptOtherCall ==
  ASSUME AgentAccountInv, AgentAccountInv', NEW fn \in {"dispute", "claim", "transfer"},
         NEW t \in Tokens, NEW paid \in {0} \cup Amounts, NEW pulled \in {0} \cup Amounts,
         NEW received \in {0} \cup Amounts, CallOther(fn, t, paid, pulled, received)
  PROVE WideningStep
<1>1. /\ RestOK /\ RailsInv /\ RailsInv' /\ paid \in Nat /\ pulled \in Nat /\ received \in Nat
  BY AgentAccountAssumption DEF AgentAccountInv, HoldingsInv
<1>2. /\ UNCHANGED adminVars /\ UNCHANGED volumeVars /\ UNCHANGED policyVars
      /\ book' = book /\ halted' = halted /\ CheckOwnerCall(fn, <<t>>)
  BY DEF CallOther, escrowVars
<1>3. Moved(t, paid, pulled, received)
  <2>1. fn \notin TokenFunctions
    BY <1>2 DEF CheckOwnerCall
  <2>2. QED BY <2>1 DEF CallOther
<1>4. \A u \in Tokens : RestKept(u)
  BY <1>1, <1>3, KeptMoved
<1>5. HaltKept /\ \A f \in Escrows, b \in roster : AdKept(f, b)
  BY <1>2, PartsKept
<1>6. \A b \in roster : RailKept(b)
  BY <1>1, <1>2, OwnerCallKeepsRails
<1>7. QED BY <1>2, <1>4, <1>5, <1>6, KeptOwnerCall

\* The owner's own settings.
LEMMA KeptSettings ==
  ASSUME AgentAccountInv, AgentAccountInv', AnyGuarded
  PROVE /\ \A ts \in TargetSets : SetTargets(ts) => WideningStep
        /\ \A w \in Wasms : Upgrade(w) => WideningStep
        /\ \A t \in Tokens, limit \in Limits : SetAccountLimit(t, limit) => WideningStep
        /\ \A a \in Agents : RevokeAgent(a) => WideningStep
        /\ \A a \in Agents, p \in Policies : SetPolicy(a, p) => WideningStep
        /\ \A t \in Tokens, to \in Payees, amount \in Amounts :
             Sweep(t, to, amount) => WideningStep
<1>1. /\ RailsInv /\ RowsInv /\ RestOK /\ PoliciesInv /\ PoliciesInv' /\ VolumesInv /\ VolumesInv'
  BY DEF AgentAccountInv, HoldingsInv, AllowancesInv
<1>2. ASSUME UNCHANGED railVars, UNCHANGED escrowVars
      PROVE /\ HaltKept /\ \A b \in roster : RailKept(b)
            /\ \A e \in Escrows, b \in roster : AdKept(e, b)
  BY <1>2, PartsKept DEF railVars, escrowVars
<1>3. ASSUME NEW ts \in TargetSets, SetTargets(ts) PROVE WideningStep
  <2>1. /\ UNCHANGED railVars /\ UNCHANGED escrowVars /\ UNCHANGED volumeVars
        /\ UNCHANGED policyVars /\ rest' = rest /\ code' = code /\ targets' = ts
    BY <1>3 DEF SetTargets
  <2>2. CodeKept /\ (\A t \in Tokens : RestKept(t) /\ LimitKept(t)) /\ \A a \in Agents : AgentKept(a)
    BY <2>1, PartsKept DEF volumeVars
  <2>3. ReachKept
    <3>1. CASE ts \subseteq targets
      BY <2>1, <3>1 DEF ReachKept
    <3>2. CASE ~(ts \subseteq targets)
      <4>1. Matured(<<Me, "set_targets">>, <<ts>>)
            /\ schedules' = [schedules EXCEPT ![<<Me, "set_targets">>] = Nil]
        BY <1>3, <3>2 DEF SetTargets, SpendIf
      <4>2. "set_targets" \in AccountActions
        BY DEF AccountActions
      <4>3. Announced(<<Me, "set_targets">>, <<ts>>)
        BY <1>1, <4>1, <4>2, AccountSpends
      <4>4. QED BY <2>1, <4>3 DEF ReachKept
    <3>3. QED BY <3>1, <3>2
  <2>4. QED BY <1>2, <2>1, <2>2, <2>3 DEF WideningStep
<1>4. ASSUME NEW w \in Wasms, Upgrade(w) PROVE WideningStep
  <2>1. /\ UNCHANGED railVars /\ UNCHANGED escrowVars /\ UNCHANGED volumeVars
        /\ UNCHANGED policyVars /\ rest' = rest /\ targets' = targets /\ code' = w
    BY <1>4 DEF Upgrade
  <2>2. ReachKept /\ (\A t \in Tokens : RestKept(t) /\ LimitKept(t)) /\ \A a \in Agents : AgentKept(a)
    BY <2>1, PartsKept DEF volumeVars
  <2>3. CodeKept
    <3>1. Matured(<<Me, "upgrade">>, <<w>>)
          /\ schedules' = [schedules EXCEPT ![<<Me, "upgrade">>] = Nil]
      BY <1>4 DEF Upgrade, SpendIf
    <3>2. "upgrade" \in AccountActions
      BY DEF AccountActions
    <3>3. Announced(<<Me, "upgrade">>, <<w>>)
      BY <1>1, <3>1, <3>2, AccountSpends
    <3>4. QED BY <2>1, <3>3 DEF CodeKept
  <2>4. QED BY <1>2, <2>1, <2>2, <2>3 DEF WideningStep
<1>5. ASSUME NEW t \in Tokens, NEW limit \in Limits, SetAccountLimit(t, limit) PROVE WideningStep
  <2>1. /\ UNCHANGED railVars /\ UNCHANGED escrowVars /\ UNCHANGED adminVars
        /\ UNCHANGED policyVars /\ rest' = rest
    BY <1>5 DEF SetAccountLimit
  <2>2. ReachKept /\ CodeKept /\ (\A u \in Tokens : RestKept(u)) /\ \A a \in Agents : AgentKept(a)
    BY <2>1, PartsKept DEF adminVars
  <2>3. \A u \in Tokens : LimitKept(u)
    BY <1>1, <1>5, KeptSetAccountLimit
  <2>4. QED BY <1>2, <2>1, <2>2, <2>3 DEF WideningStep
<1>6. ASSUME NEW agent \in Agents,
             RevokeAgent(agent) \/ \E p \in Policies : SetPolicy(agent, p)
      PROVE WideningStep
  <2>1. /\ UNCHANGED railVars /\ UNCHANGED escrowVars /\ UNCHANGED adminVars
        /\ UNCHANGED volumeVars /\ rest' = rest
    BY <1>6 DEF RevokeAgent, SetPolicy
  <2>2. ReachKept /\ CodeKept /\ \A u \in Tokens : RestKept(u) /\ LimitKept(u)
    BY <2>1, PartsKept DEF adminVars, volumeVars
  <2>3. \A a \in Agents : AgentKept(a)
    BY <1>1, <1>6, KeptRevokeAgent, KeptSetPolicy
  <2>4. QED BY <1>2, <2>1, <2>2, <2>3 DEF WideningStep
<1>7. ASSUME NEW t \in Tokens, NEW to \in Payees, NEW amount \in Amounts, Sweep(t, to, amount)
      PROVE WideningStep
  <2>1. /\ UNCHANGED railVars /\ UNCHANGED escrowVars /\ UNCHANGED adminVars
        /\ UNCHANGED volumeVars /\ UNCHANGED policyVars
    BY <1>7 DEF Sweep
  <2>2. ReachKept /\ CodeKept /\ (\A u \in Tokens : LimitKept(u)) /\ \A a \in Agents : AgentKept(a)
    BY <2>1, PartsKept DEF adminVars, volumeVars
  <2>3. \A u \in Tokens : RestKept(u)
    BY <1>1, <1>7, KeptSweep
  <2>4. QED BY <1>2, <2>1, <2>2, <2>3 DEF WideningStep
<1>8. QED BY <1>3, <1>4, <1>5, <1>6, <1>7

LEMMA KeptGuards ==
  ASSUME AgentAccountInv, AgentAccountInv', NEW ad \in Ads
  PROVE /\ \A g \in Settings \cup {Nil} : SetGuardRail(ad, g) => WideningStep
        /\ \A e \in Escrows : DisarmClosedAd(e, ad) => WideningStep
<1>1. RailsInv /\ RailsInv' /\ RowsInv
  BY DEF AgentAccountInv
<1>2. ASSUME UNCHANGED <<adminVars, volumeVars, policyVars, rest, escrowVars>>,
             \A b \in roster : RailKept(b)
      PROVE WideningStep
  <2>1. /\ ReachKept /\ CodeKept /\ HaltKept /\ \A t \in Tokens : RestKept(t) /\ LimitKept(t)
        /\ \A a \in Agents : AgentKept(a)
        /\ \A e \in Escrows, b \in roster : AdKept(e, b)
    BY <1>2, PartsKept DEF adminVars, volumeVars, escrowVars
  <2>2. QED BY <1>2, <2>1 DEF WideningStep
<1>3. ASSUME NEW g \in Settings \cup {Nil}, SetGuardRail(ad, g) PROVE WideningStep
  <2>1. UNCHANGED <<adminVars, volumeVars, policyVars, rest, escrowVars>>
    BY <1>3 DEF SetGuardRail
  <2>2. \A b \in roster : RailKept(b)
    BY <1>1, <1>3, KeptSetGuardRail
  <2>3. QED BY <1>2, <2>1, <2>2
<1>4. ASSUME NEW e \in Escrows, DisarmClosedAd(e, ad) PROVE WideningStep
  <2>1. UNCHANGED <<adminVars, volumeVars, policyVars, rest, escrowVars>>
    BY <1>4 DEF DisarmClosedAd
  <2>2. \A b \in roster : RailKept(b)
    BY <1>1, <1>4, KeptDisarmClosedAd
  <2>3. QED BY <1>2, <2>1, <2>2
<1>5. QED BY <1>3, <1>4

LEMMA KeptStep ==
  ASSUME AgentAccountInv, AgentAccountInv', AnyGuarded, AgentAccountNext PROVE WideningStep
<1>1. CASE Tick
  <2>1. /\ UNCHANGED <<targets, code, halted, rest, volume, policies, rails, book>>
        /\ now' = now + 1
    BY <1>1 DEF Tick, adminVars, escrowVars
  <2>2. now' # now
    BY <2>1 DEF AgentAccountInv, RailsInv
  <2>3. QED BY <2>1, <2>2, KeptQuietStep
<1>2. CASE Migrate
  BY <1>2, KeptQuietStep DEF Migrate, railVars, volumeVars, policyVars, escrowVars
<1>3. ASSUME NEW call \in Announcements, Schedule(call[1], call[2], call[3]) PROVE WideningStep
  BY <1>3, KeptQuietStep DEF Schedule, adminVars, railVars, volumeVars, policyVars, escrowVars
<1>4. ASSUME NEW row \in Rows, Cancel(row) PROVE WideningStep
  BY <1>4, KeptQuietStep DEF Cancel, adminVars, railVars, volumeVars, policyVars, escrowVars
<1>5. ASSUME NEW ad \in Ads, Archive(ad) PROVE WideningStep
  BY <1>5, KeptQuietStep DEF Archive, adminVars, volumeVars, policyVars, escrowVars
<1>6. ASSUME NEW a \in Agents, NEW o \in Orders, CheckAuth(a, <<o>>) PROVE WideningStep
  <2>1. PoliciesInv /\ VolumesInv
    BY DEF AgentAccountInv, AllowancesInv
  <2>2. PICK locks : locks = <<o>>
    OBVIOUS
  <2>3. DOMAIN locks = 1..1 /\ Len(locks) = 1 /\ \A i \in 1..1 : locks[i] \in Orders
    BY <2>2
  <2>4. EntryOK(locks)
    BY <1>6, <2>1, <2>2, <2>3, EntryLocks
  <2>5. LimitsStand(volume')
    BY <1>6, <2>1, OneLockKeepsLimits
  <2>6. QED BY <1>6, <2>2, <2>4, <2>5, KeptEntry
<1>7. ASSUME NEW a \in Agents, NEW o \in Orders, NEW q \in Orders, CheckAuth(a, <<o, q>>)
      PROVE WideningStep
  <2>1. PoliciesInv /\ VolumesInv
    BY DEF AgentAccountInv, AllowancesInv
  <2>2. PICK locks : locks = <<o, q>>
    OBVIOUS
  <2>3. DOMAIN locks = 1..2 /\ Len(locks) = 2 /\ \A i \in 1..2 : locks[i] \in Orders
    BY <2>2
  <2>4. EntryOK(locks)
    BY <1>7, <2>1, <2>2, <2>3, EntryLocks
  <2>5. LimitsStand(volume')
    BY <1>7, <2>1, TwoLocksKeepLimits
  <2>6. QED BY <1>7, <2>2, <2>4, <2>5, KeptEntry
<1>8. ASSUME NEW e \in Escrows, NEW ad \in Ads
      PROVE /\ \A amount \in Amounts, to \in Payees :
                 CallWithdraw(e, ad, amount, to) => WideningStep
            /\ \A to \in Payees : CallClose(e, ad, to) => WideningStep
            /\ \A s \in Signers : CallRepoint(e, ad, s) => WideningStep
  BY KeptWithdrawal, KeptClosing, KeptRepointing
<1>9. QED
  BY <1>1, <1>2, <1>3, <1>4, <1>5, <1>6, <1>7, <1>8, KeptSettings, KeptGuards, KeptFunding,
     KeptHalting, KeptOtherCall, KeptOwnerLock DEF AgentAccountNext

\* While any ad is guarded, whatever widens what the owner's or an agent's key can
\* do uses up its own announcement, made at least the longest delay now in force
\* before (spend's callers: set_targets, upgrade, set_policy, set_account_limit,
\* sweep, set_guard_rail, check_owner_call).
THEOREM WideningNeedsNotice == AgentAccountSpec => WideningIsAnnounced
<1>1. AgentAccountInv /\ AgentAccountInv' /\ [AgentAccountNext]_agentAccountVars
        => [WideningStep]_agentAccountVars
  BY KeptStep DEF WideningStep
<1>2. QED BY <1>1, AgentAccountInvariant, PTL DEF AgentAccountSpec, WideningIsAnnounced

-----------------------------------------------------------------------------
(* What leaves an ad's free liquidity.                                     *)

LEMMA MovesOutflow ==
  ASSUME BookOK, NEW e \in Escrows, NEW ad \in Ads, NEW d \in Int, AdMoves(e, ad, d)
  PROVE Outflow(e, ad) = IF book[e][ad] = Nil THEN 0 ELSE d
<1>1. CASE book[e][ad] = Nil
  BY <1>1 DEF Outflow
<1>2. CASE book[e][ad] # Nil
  <2>1. PICK n \in Int : n = Free(e, ad)
    BY <1>2, BookRow DEF Free
  <2>2. Free(e, ad)' = n - d
    BY <1>2, <2>1 DEF AdMoves
  <2>3. n - (n - d) = d
    OBVIOUS
  <2>4. QED BY <1>2, <2>1, <2>2, <2>3 DEF Outflow
<1>3. QED BY <1>1, <1>2

LEMMA UntouchedAd ==
  ASSUME BookOK, NEW e \in Escrows, NEW ad \in Ads, book'[e][ad] = book[e][ad]
  PROVE Outflow(e, ad) = 0
<1>1. AdMoves(e, ad, 0)
  BY AdStays
<1>2. QED BY <1>1, MovesOutflow

LEMMA BookUntouched ==
  ASSUME AgentAccountInv, book' = book PROVE OutflowStep
<1>1. ASSUME NEW e \in Escrows, NEW ad \in roster PROVE Outflow(e, ad) = 0
  <2>1. ad \in Ads /\ BookOK
    BY DEF AgentAccountInv, RailsInv, HoldingsInv
  <2>2. QED BY <2>1, UntouchedAd
<1>2. ~(0 > 0)
  OBVIOUS
<1>3. QED BY <1>1, <1>2 DEF OutflowStep

\* What the owner adds, and what an ending order frees, leaves nothing.
LEMMA FundingLeaves ==
  ASSUME AgentAccountInv, NEW e \in Escrows, NEW ad \in Ads, NEW amount \in Amounts
  PROVE /\ FundAd(e, ad, amount) => OutflowStep
        /\ \A s : CreateAd(e, ad, amount, s) => OutflowStep
        /\ \A paid \in BOOLEAN : OrderEnds(e, ad, amount, paid) => OutflowStep
<1>1. BookOK /\ roster \subseteq Ads /\ amount \in Nat
  BY AgentAccountAssumption DEF AgentAccountInv, RailsInv, HoldingsInv
<1>2. ASSUME \A f \in Escrows, a \in Ads : \E n \in Nat : AdMoves(f, a, 0 - n)
      PROVE OutflowStep
  <2>1. ASSUME NEW f \in Escrows, NEW a \in roster PROVE ~(Outflow(f, a) > 0)
    <3>1. a \in Ads
      BY <1>1
    <3>2. PICK n \in Nat : AdMoves(f, a, 0 - n)
      BY <1>2, <3>1
    <3>3. PICK d \in Int : d = 0 - n /\ ~(d > 0)
      OBVIOUS
    <3>4. Outflow(f, a) = IF book[f][a] = Nil THEN 0 ELSE d
      BY <1>1, <3>1, <3>2, <3>3, MovesOutflow
    <3>5. QED BY <3>3, <3>4
  <2>2. QED BY <2>1 DEF OutflowStep
<1>3. ASSUME FundAd(e, ad, amount) PROVE OutflowStep
  <2>1. book[e][ad] # Nil /\ Deposited(e, ad, amount)
    BY <1>3 DEF FundAd
  <2>2. /\ AdMoves(e, ad, 0 - amount)
        /\ \A g \in Escrows, b \in Ads : <<g, b>> # <<e, ad>> => AdMoves(g, b, 0)
    BY <1>1, <2>1, DepositMoves
  <2>3. 0 = 0 - 0
    OBVIOUS
  <2>4. ASSUME NEW f \in Escrows, NEW a \in Ads PROVE \E n \in Nat : AdMoves(f, a, 0 - n)
    <3>1. CASE f = e /\ a = ad
      BY <1>1, <2>2, <3>1
    <3>2. CASE <<f, a>> # <<e, ad>>
      <4>1. AdMoves(f, a, 0)
        BY <2>2, <3>2
      <4>2. QED BY <2>3, <4>1
    <3>3. QED BY <3>1, <3>2
  <2>5. QED BY <1>2, <2>4
<1>4. ASSUME NEW s, CreateAd(e, ad, amount, s) PROVE OutflowStep
  <2>1. PICK row : book[e][ad] = Nil /\ book' = [book EXCEPT ![e][ad] = row]
    BY <1>4 DEF CreateAd
  <2>2. \A g \in Escrows, b \in Ads : <<g, b>> # <<e, ad>> => book'[g][b] = book[g][b]
    BY <1>1, <2>1, RowAt DEF OnlyRow
  <2>3. ASSUME NEW f \in Escrows, NEW a \in roster PROVE Outflow(f, a) = 0
    <3>1. CASE f = e /\ a = ad
      BY <2>1, <3>1 DEF Outflow
    <3>2. CASE <<f, a>> # <<e, ad>>
      BY <1>1, <2>2, <3>2, UntouchedAd
    <3>3. QED BY <3>1, <3>2
  <2>4. ~(0 > 0)
    OBVIOUS
  <2>5. QED BY <2>3, <2>4 DEF OutflowStep
<1>5. ASSUME NEW paid \in BOOLEAN, OrderEnds(e, ad, amount, paid) PROVE OutflowStep
  BY <1>1, <1>2, <1>5, EndingMoves
<1>6. QED BY <1>3, <1>4, <1>5

\* What the owner takes out was announced, or comes off the rail's allowance.
LEMMA WithdrawalLeaves ==
  ASSUME AgentAccountInv, AgentAccountInv', NEW e \in Escrows, NEW ad \in Ads,
         NEW amount \in Amounts, NEW to \in Payees, CallWithdraw(e, ad, amount, to)
  PROVE OutflowStep
<1>1. /\ BookOK /\ roster \subseteq Ads /\ amount \in Nat
      /\ RailsInv /\ RailsInv' /\ RowsInv
  BY AgentAccountAssumption DEF AgentAccountInv, RailsInv, HoldingsInv
<1>2. PICK args, fn : args = <<ad, amount, to>> /\ fn = "withdraw_from_ad"
  OBVIOUS
<1>3. /\ CheckOwnerCall(fn, args) /\ Withdrawn(e, ad, amount) /\ now' = now
      /\ NamedAd(fn, args) = ad /\ CallAmount(fn, args) = amount
  BY <1>2 DEF CallWithdraw, NamedAd, CallAmount
<1>4. /\ AdMoves(e, ad, amount)
      /\ \A g \in Escrows, b \in Ads : <<g, b>> # <<e, ad>> => AdMoves(g, b, 0)
  BY <1>1, <1>3, WithdrawalMoves
<1>5. ASSUME NEW f \in Escrows, NEW a \in roster, Outflow(f, a) > 0
      PROVE f = e /\ a = ad /\ Outflow(f, a) = amount
  <2>1. ~(0 > 0)
    OBVIOUS
  <2>2. f = e /\ a = ad
    <3>1. SUFFICES ASSUME <<f, a>> # <<e, ad>> PROVE FALSE
      OBVIOUS
    <3>2. Outflow(f, a) = 0
      BY <1>1, <1>4, <3>1, MovesOutflow
    <3>3. QED BY <1>5, <2>1, <3>2
  <2>3. Outflow(e, ad) = IF book[e][ad] = Nil THEN 0 ELSE amount
    BY <1>1, <1>4, MovesOutflow
  <2>4. QED BY <1>5, <2>1, <2>2, <2>3
<1>6. ASSUME ad \in roster
      PROVE \/ Announced(<<ad, "withdraw_from_ad">>, <<ad, amount, to>>)
            \/ amount <= rails[ad].threshold /\ RailAvailable(ad) - RailAvailable(ad)' = amount
  BY <1>1, <1>2, <1>3, <1>6, OwnerCallCharged
<1>7. QED BY <1>5, <1>6 DEF OutflowStep

LEMMA ClosingLeaves ==
  ASSUME AgentAccountInv, NEW e \in Escrows, NEW ad \in Ads, NEW to \in Payees,
         CallClose(e, ad, to)
  PROVE OutflowStep
<1>1. BookOK /\ roster \subseteq Ads /\ RailsInv /\ RowsInv
  BY DEF AgentAccountInv, RailsInv, HoldingsInv
<1>2. PICK row : book' = [book EXCEPT ![e][ad] = row]
  <2>1. PICK old : old = book[e][ad]
    OBVIOUS
  <2>2. PICK new : new = [old EXCEPT !.balance = 0, !.open = FALSE]
    OBVIOUS
  <2>3. book' = [book EXCEPT ![e][ad] = new]
    BY <2>1, <2>2 DEF CallClose, Closed
  <2>4. QED BY <2>3
<1>3. \A g \in Escrows, b \in Ads : <<g, b>> # <<e, ad>> => book'[g][b] = book[g][b]
  BY <1>1, <1>2, RowAt DEF OnlyRow
<1>4. ASSUME NEW f \in Escrows, NEW a \in roster, Outflow(f, a) > 0
      PROVE \E payee \in Payees : Announced(<<a, "close_ad">>, <<a, payee>>)
  <2>1. a = ad
    <3>1. SUFFICES ASSUME <<f, a>> # <<e, ad>> PROVE FALSE
      OBVIOUS
    <3>2. Outflow(f, a) = 0
      BY <1>1, <1>3, <3>1, UntouchedAd
    <3>3. QED BY <1>4, <3>2
  <2>2. CheckOwnerCall("close_ad", <<ad, to>>) /\ NamedAd("close_ad", <<ad, to>>) = ad
    BY DEF CallClose, NamedAd
  <2>3. Announced(<<ad, "close_ad">>, <<ad, to>>)
    BY <1>1, <2>1, <2>2, OwnerCallAnnounced
  <2>4. QED BY <2>1, <2>3
<1>5. QED BY <1>4 DEF OutflowStep

LEMMA RepointingLeaves ==
  ASSUME AgentAccountInv, NEW e \in Escrows, NEW ad \in Ads, NEW signer,
         CallRepoint(e, ad, signer)
  PROVE OutflowStep
<1>1. BookOK /\ roster \subseteq Ads
  BY DEF AgentAccountInv, RailsInv, HoldingsInv
<1>2. PICK old \in AdRow : old = book[e][ad]
  BY <1>1 DEF CallRepoint, BookOK
<1>3. PICK row : row = [old EXCEPT !.signer = signer]
  OBVIOUS
<1>4. book' = [book EXCEPT ![e][ad] = row]
  BY <1>2, <1>3 DEF CallRepoint
<1>5. OnlyRow(e, ad, row)
  BY <1>1, <1>4, RowAt
<1>6. row.balance = old.balance /\ row.locked = old.locked
      /\ old.balance \in Nat /\ old.locked \in Nat
  BY <1>2, <1>3 DEF AdRow
<1>7. ASSUME NEW f \in Escrows, NEW a \in roster PROVE Outflow(f, a) = 0
  <2>1. CASE f = e /\ a = ad
    <3>1. Free(e, ad)' = old.balance - old.locked /\ Free(e, ad) = old.balance - old.locked
      BY <1>2, <1>5, <1>6 DEF Free, OnlyRow
    <3>2. (old.balance - old.locked) - (old.balance - old.locked) = 0
      BY <1>6
    <3>3. QED BY <2>1, <3>1, <3>2 DEF Outflow
  <2>2. CASE <<f, a>> # <<e, ad>>
    BY <1>1, <1>5, <2>2, UntouchedAd DEF OnlyRow
  <2>3. QED BY <2>1, <2>2
<1>8. ~(0 > 0)
  OBVIOUS
<1>9. QED BY <1>7, <1>8 DEF OutflowStep

-----------------------------------------------------------------------------
(* What locks reserve, ad by ad and token by token.                        *)

At(o) == <<o.escrow, o.ad>>
Drawn(o, x) == IF x = At(o) THEN Scaled(o) ELSE 0

LEMMA ReservedOfOne ==
  ASSUME NEW o, Scaled(o) \in Nat, NEW e, NEW ad
  PROVE Reserved(<<o>>, e, ad) = Drawn(o, <<e, ad>>)
<1>1. PICK here : here = LocksOn(<<o>>, e, ad)
  OBVIOUS
<1>2. here = IF At(o) = <<e, ad>> THEN {1} ELSE {}
  <2>1. DOMAIN <<o>> = {1} /\ <<o>>[1] = o
    OBVIOUS
  <2>2. QED BY <1>1, <2>1 DEF LocksOn, At
<1>3. SumOver(here, AmountsOf(<<o>>)) = IF here = {1} THEN Scaled(o) ELSE 0
  <2>1. here = {} \/ here = {1}
    BY <1>2
  <2>2. QED BY <2>1, SumOfOneLock
<1>4. QED BY <1>1, <1>2, <1>3 DEF Reserved, Drawn

LEMMA ReservedOfTwo ==
  ASSUME NEW o, NEW q, Scaled(o) \in Nat, Scaled(q) \in Nat, NEW e, NEW ad
  PROVE Reserved(<<o, q>>, e, ad) = Drawn(o, <<e, ad>>) + Drawn(q, <<e, ad>>)
<1>1. PICK here : here = LocksOn(<<o, q>>, e, ad)
  OBVIOUS
<1>2. PICK first \in BOOLEAN, second \in BOOLEAN :
        first = (At(o) = <<e, ad>>) /\ second = (At(q) = <<e, ad>>)
  OBVIOUS
<1>3. here = (IF first THEN {1} ELSE {}) \cup (IF second THEN {2} ELSE {})
  <2>1. DOMAIN <<o, q>> = {1, 2} /\ <<o, q>>[1] = o /\ <<o, q>>[2] = q
    OBVIOUS
  <2>2. QED BY <1>1, <1>2, <2>1 DEF LocksOn, At
<1>4. SumOver(here, AmountsOf(<<o, q>>)) =
        (IF first THEN Scaled(o) ELSE 0) + (IF second THEN Scaled(q) ELSE 0)
  BY <1>3, SumOfTwoLocks
<1>5. Reserved(<<o, q>>, e, ad) = SumOver(here, AmountsOf(<<o, q>>))
  BY <1>1 DEF Reserved
<1>6. /\ Drawn(o, <<e, ad>>) = IF first THEN Scaled(o) ELSE 0
      /\ Drawn(q, <<e, ad>>) = IF second THEN Scaled(q) ELSE 0
  BY <1>2 DEF Drawn
<1>7. QED BY <1>4, <1>5, <1>6

\* The ads of a token, at every escrow.
AdsOf(t) == {x \in Escrows \X Ads : AdToken[x[2]] = t}

LEMMA AdsOfFinite == ASSUME NEW t PROVE IsFiniteSet(AdsOf(t))
<1>1. IsFiniteSet(Escrows \X Ads)
  BY FiniteBook, FS_Product
<1>2. AdsOf(t) \subseteq Escrows \X Ads
  BY DEF AdsOf
<1>3. QED BY <1>1, <1>2, FS_Subset

\* A lock that names its ad's token draws on one of that token's ads.
LEMMA DrawnOnToken ==
  ASSUME NEW o \in Orders, o.ad_token = AdToken[o.ad], NEW t
  PROVE At(o) \in AdsOf(t) <=> o.ad_token = t
<1>1. o.escrow \in Escrows /\ o.ad \in Ads
  BY AgentAccountAssumption DEF OrderInput
<1>2. QED BY <1>1 DEF At, AdsOf

LEMMA DrawnAdded ==
  ASSUME NEW o \in Orders, Scaled(o) \in Nat, o.ad_token = AdToken[o.ad], NEW t,
         NEW f, NEW g, AmountsOn(AdsOf(t), f), \A x \in AdsOf(t) : g[x] = f[x] + Drawn(o, x)
  PROVE /\ SumOver(AdsOf(t), g) = SumOver(AdsOf(t), f) + TakenBy(o, t)
        /\ AmountsOn(AdsOf(t), g)
<1>1. PICK k, S, d : k = At(o) /\ S = AdsOf(t) /\ d = Scaled(o)
  OBVIOUS
<1>2. IsFiniteSet(S) /\ AmountsOn(S, f)
  BY <1>1, AdsOfFinite
<1>3. Raised(S, f, g, k, d)
  BY <1>1 DEF Raised, Drawn
<1>4. /\ k \in S => SumOver(S, g) = SumOver(S, f) + d
      /\ k \notin S => SumOver(S, g) = SumOver(S, f)
  BY <1>1, <1>2, <1>3, SumRaised
<1>5. k \in S <=> o.ad_token = t
  BY <1>1, DrawnOnToken
<1>6. SumOver(S, f) \in Nat
  BY <1>2, SumType
<1>7. SumOver(S, g) = SumOver(S, f) + TakenBy(o, t)
  BY <1>1, <1>4, <1>5, <1>6 DEF TakenBy
<1>8. AmountsOn(S, g)
  BY <1>1, <1>2, <1>3 DEF AmountsOn, Raised
<1>9. QED BY <1>1, <1>7, <1>8

LEMMA NoneDrawn ==
  ASSUME NEW t, NEW f, \A x \in AdsOf(t) : f[x] = 0
  PROVE SumOver(AdsOf(t), f) = 0 /\ AmountsOn(AdsOf(t), f)
<1>1. SumOver(AdsOf(t), f) = 0
  BY AdsOfFinite, SumZero
<1>2. QED BY <1>1 DEF AmountsOn

\* Token by token, one lock and two reserve what they take.
LEMMA OneLockReserves ==
  ASSUME NEW o \in Orders, Scaled(o) \in Nat, o.ad_token = AdToken[o.ad], NEW t \in Tokens,
         NEW g, \A x \in AdsOf(t) : g[x] = Drawn(o, x)
  PROVE SumOver(AdsOf(t), g) = TakenBy(o, t)
<1>1. PICK f : f = [x \in AdsOf(t) |-> 0]
  OBVIOUS
<1>2. SumOver(AdsOf(t), f) = 0 /\ AmountsOn(AdsOf(t), f)
  BY <1>1, NoneDrawn
<1>3. \A x \in AdsOf(t) : g[x] = f[x] + Drawn(o, x)
  BY <1>1 DEF Drawn
<1>4. SumOver(AdsOf(t), g) = SumOver(AdsOf(t), f) + TakenBy(o, t)
  BY <1>2, <1>3, DrawnAdded
<1>5. QED BY <1>2, <1>4 DEF TakenBy

LEMMA TwoLocksReserve ==
  ASSUME NEW o \in Orders, NEW q \in Orders, Scaled(o) \in Nat, Scaled(q) \in Nat,
         o.ad_token = AdToken[o.ad], q.ad_token = AdToken[q.ad], NEW t \in Tokens,
         NEW g, \A x \in AdsOf(t) : g[x] = Drawn(o, x) + Drawn(q, x)
  PROVE SumOver(AdsOf(t), g) = TakenBy(o, t) + TakenBy(q, t)
<1>1. PICK f : f = [x \in AdsOf(t) |-> Drawn(o, x)]
  OBVIOUS
<1>2. SumOver(AdsOf(t), f) = TakenBy(o, t)
  BY <1>1, OneLockReserves
<1>3. AmountsOn(AdsOf(t), f)
  BY <1>1 DEF AmountsOn, Drawn
<1>4. \A x \in AdsOf(t) : g[x] = f[x] + Drawn(q, x)
  BY <1>1
<1>5. SumOver(AdsOf(t), g) = SumOver(AdsOf(t), f) + TakenBy(q, t)
  BY <1>3, <1>4, DrawnAdded
<1>6. QED BY <1>2, <1>5

-----------------------------------------------------------------------------
(* What locks leave.                                                       *)

LEMMA LocksOutflow ==
  ASSUME BookOK, NEW locks, \A i \in DOMAIN locks : Scaled(locks[i]) \in Nat,
         IsFiniteSet(DOMAIN locks), book' = LockAll(book, locks), LocksFit(book, locks),
         NEW e \in Escrows, NEW ad \in Ads
  PROVE Outflow(e, ad) = Reserved(locks, e, ad)
<1>1. Reserved(locks, e, ad) \in Nat /\ AdMoves(e, ad, Reserved(locks, e, ad))
  BY LockMoves
<1>2. Outflow(e, ad) = IF book[e][ad] = Nil THEN 0 ELSE Reserved(locks, e, ad)
  BY <1>1, MovesOutflow
<1>3. book[e][ad] = Nil => Reserved(locks, e, ad) = 0
  <2>1. SUFFICES ASSUME book[e][ad] = Nil PROVE Reserved(locks, e, ad) = 0
    OBVIOUS
  <2>2. LocksOn(locks, e, ad) = {}
    BY <2>1 DEF LocksFit
  <2>3. QED BY <2>2, SumEmpty DEF Reserved
<1>4. QED BY <1>2, <1>3

\* The owner's own lock is announced, or comes off its ad's rail.
LEMMA OwnerLockLeaves ==
  ASSUME AgentAccountInv, AgentAccountInv', NEW o \in Orders, CallLock(o)
  PROVE OutflowStep
<1>1. BookOK /\ roster \subseteq Ads /\ RailsInv /\ RailsInv' /\ RowsInv
  BY DEF AgentAccountInv, RailsInv, HoldingsInv
<1>2. PICK locks, fn : locks = <<o>> /\ fn = "lock_for_order"
  OBVIOUS
<1>3. /\ CheckOwnerCall(fn, locks) /\ now' = now /\ Scaled(o) \in Nat
      /\ book' = LockAll(book, locks) /\ LocksFit(book, locks)
      /\ NamedAd(fn, locks) = o.ad /\ CallAmount(fn, locks) = Scaled(o)
  BY <1>2 DEF CallLock, NamedAd, CallAmount
<1>4. DOMAIN locks = {1} /\ IsFiniteSet({1}) /\ locks[1] = o
  <2>1. DOMAIN locks = {1} /\ locks[1] = o
    BY <1>2
  <2>2. IsFiniteSet({1})
    BY FS_Singleton
  <2>3. QED BY <2>1, <2>2
<1>5. ASSUME NEW e \in Escrows, NEW ad \in roster, Outflow(e, ad) > 0
      PROVE Outflow(e, ad) = Scaled(o) /\ ad = o.ad
  <2>1. Outflow(e, ad) = Drawn(o, <<e, ad>>)
    <3>1. Outflow(e, ad) = Reserved(locks, e, ad)
      BY <1>1, <1>3, <1>4, LocksOutflow
    <3>2. QED BY <1>2, <1>3, <3>1, ReservedOfOne
  <2>2. ~(0 > 0)
    OBVIOUS
  <2>3. <<e, ad>> = At(o)
    BY <1>5, <2>1, <2>2 DEF Drawn
  <2>4. QED BY <2>1, <2>3 DEF Drawn, At
<1>6. ASSUME o.ad \in roster
      PROVE \/ Announced(<<o.ad, "lock_for_order">>, <<o>>)
            \/ /\ Scaled(o) <= rails[o.ad].threshold
               /\ RailAvailable(o.ad) - RailAvailable(o.ad)' = Scaled(o)
  <2>1. PICK ad \in roster : ad = o.ad
    BY <1>6
  <2>2. \/ Announced(<<ad, fn>>, locks)
        \/ Scaled(o) <= rails[ad].threshold /\ RailAvailable(ad) - RailAvailable(ad)' = Scaled(o)
    BY <1>1, <1>2, <1>3, <2>1, OwnerCallCharged
  <2>3. QED BY <1>2, <2>1, <2>2
<1>7. QED BY <1>5, <1>6 DEF OutflowStep

\* An agent's entry is charged, whole, to its allowance and the account's.
LEMMA EntryLeaves ==
  ASSUME AgentAccountInv, AgentAccountInv', NEW agent \in Agents, NEW locks, EntryOK(locks),
         CheckAuth(agent, locks), \A t \in Tokens : TokenOutflow(t) = Taken(locks, t)
  PROVE OutflowStep
<1>1. \A t \in Tokens :
        /\ AgentAvailable(agent, t) - AgentAvailable(agent, t)' = TokenOutflow(t)
        /\ VolumeAvailable(t) - VolumeAvailable(t)' = TokenOutflow(t)
  BY EntryCharged DEF AgentAccountInv, AllowancesInv
<1>2. QED BY <1>1 DEF OutflowStep

LEMMA OneLockLeaves ==
  ASSUME AgentAccountInv, AgentAccountInv', NEW agent \in Agents, NEW o \in Orders,
         CheckAuth(agent, <<o>>)
  PROVE OutflowStep
<1>1. BookOK /\ PoliciesInv
  BY DEF AgentAccountInv, HoldingsInv, AllowancesInv
<1>2. PICK locks : locks = <<o>>
  OBVIOUS
<1>3. DOMAIN locks = 1..1 /\ Len(locks) = 1 /\ locks[1] = o /\ \A i \in 1..1 : locks[i] \in Orders
  BY <1>2
<1>4. EntryOK(locks) /\ CheckAuth(agent, locks)
  BY <1>1, <1>2, <1>3, EntryLocks
<1>5. Scaled(o) \in Nat /\ o.ad_token = AdToken[o.ad]
  BY <1>3, <1>4 DEF EntryOK, CheckAuth, LocksFit
<1>6. ASSUME NEW t \in Tokens PROVE TokenOutflow(t) = Taken(locks, t)
  <2>1. PICK g : g = [x \in Escrows \X Ads |-> Outflow(x[1], x[2])]
    OBVIOUS
  <2>2. ASSUME NEW x \in AdsOf(t) PROVE g[x] = Drawn(o, x)
    <3>1. PICK e \in Escrows, ad \in Ads : x = <<e, ad>>
      BY DEF AdsOf
    <3>2. Outflow(e, ad) = Reserved(locks, e, ad)
      BY <1>1, <1>4, LocksOutflow DEF EntryOK, CheckAuth
    <3>3. QED BY <1>2, <1>5, <2>1, <3>1, <3>2, ReservedOfOne
  <2>3. SumOver(AdsOf(t), g) = TakenBy(o, t)
    BY <1>5, <2>2, OneLockReserves
  <2>4. TokenOutflow(t) = SumOver(AdsOf(t), g)
    BY <2>1 DEF TokenOutflow, AdsOf
  <2>5. QED BY <1>2, <1>5, <2>3, <2>4, TakenOfOne
<1>7. QED BY <1>4, <1>6, EntryLeaves

LEMMA TwoLocksLeave ==
  ASSUME AgentAccountInv, AgentAccountInv', NEW agent \in Agents, NEW o \in Orders,
         NEW q \in Orders, CheckAuth(agent, <<o, q>>)
  PROVE OutflowStep
<1>1. BookOK /\ PoliciesInv
  BY DEF AgentAccountInv, HoldingsInv, AllowancesInv
<1>2. PICK locks : locks = <<o, q>>
  OBVIOUS
<1>3. /\ DOMAIN locks = 1..2 /\ Len(locks) = 2 /\ locks[1] = o /\ locks[2] = q
      /\ \A i \in 1..2 : locks[i] \in Orders
  BY <1>2
<1>4. EntryOK(locks) /\ CheckAuth(agent, locks)
  BY <1>1, <1>2, <1>3, EntryLocks
<1>5. /\ Scaled(o) \in Nat /\ o.ad_token = AdToken[o.ad]
      /\ Scaled(q) \in Nat /\ q.ad_token = AdToken[q.ad]
  BY <1>3, <1>4 DEF EntryOK, CheckAuth, LocksFit
<1>6. ASSUME NEW t \in Tokens PROVE TokenOutflow(t) = Taken(locks, t)
  <2>1. PICK g : g = [x \in Escrows \X Ads |-> Outflow(x[1], x[2])]
    OBVIOUS
  <2>2. ASSUME NEW x \in AdsOf(t) PROVE g[x] = Drawn(o, x) + Drawn(q, x)
    <3>1. PICK e \in Escrows, ad \in Ads : x = <<e, ad>>
      BY DEF AdsOf
    <3>2. Outflow(e, ad) = Reserved(locks, e, ad)
      BY <1>1, <1>4, LocksOutflow DEF EntryOK, CheckAuth
    <3>3. QED BY <1>2, <1>5, <2>1, <3>1, <3>2, ReservedOfTwo
  <2>3. SumOver(AdsOf(t), g) = TakenBy(o, t) + TakenBy(q, t)
    BY <1>5, <2>2, TwoLocksReserve
  <2>4. TokenOutflow(t) = SumOver(AdsOf(t), g)
    BY <2>1 DEF TokenOutflow, AdsOf
  <2>5. QED BY <1>2, <1>5, <2>3, <2>4, TakenOfTwo
<1>7. QED BY <1>4, <1>6, EntryLeaves

LEMMA LeavesStep ==
  ASSUME AgentAccountInv, AgentAccountInv', AgentAccountNext PROVE OutflowStep
<1>1. CASE book' = book
  BY <1>1, BookUntouched
<1>2. ASSUME NEW e \in Escrows, NEW ad \in Ads, NEW amount \in Amounts
      PROVE /\ FundAd(e, ad, amount) => OutflowStep
            /\ \A s \in Signers : CreateAd(e, ad, amount, s) => OutflowStep
            /\ \A to \in Payees : CallWithdraw(e, ad, amount, to) => OutflowStep
            /\ \A paid \in BOOLEAN : OrderEnds(e, ad, amount, paid) => OutflowStep
  BY FundingLeaves, WithdrawalLeaves
<1>3. ASSUME NEW e \in Escrows, NEW ad \in Ads
      PROVE /\ \A to \in Payees : CallClose(e, ad, to) => OutflowStep
            /\ \A s \in Signers : CallRepoint(e, ad, s) => OutflowStep
  BY ClosingLeaves, RepointingLeaves
<1>4. \/ book' = book
      \/ \E e \in Escrows, ad \in Ads, amount \in Amounts :
           \/ FundAd(e, ad, amount)
           \/ \E s \in Signers : CreateAd(e, ad, amount, s)
           \/ \E to \in Payees : CallWithdraw(e, ad, amount, to)
           \/ \E paid \in BOOLEAN : OrderEnds(e, ad, amount, paid)
      \/ \E e \in Escrows, ad \in Ads :
           \/ \E to \in Payees : CallClose(e, ad, to)
           \/ \E s \in Signers : CallRepoint(e, ad, s)
      \/ \E o \in Orders : CallLock(o)
      \/ \E a \in Agents, o \in Orders : CheckAuth(a, <<o>>) \/ \E q \in Orders : CheckAuth(a, <<o, q>>)
  BY DEF AgentAccountNext, Tick, Migrate, SetTargets, SetAccountLimit, RevokeAgent, SetPolicy,
         SetGuardRail, DisarmClosedAd, Schedule, Cancel, Upgrade, Sweep, CallHalt, CallOther,
         Archive, escrowVars
<1>5. QED BY <1>1, <1>2, <1>3, <1>4, OwnerLockLeaves, OneLockLeaves, TwoLocksLeave

\* Whatever leaves a guarded ad's free liquidity was announced for exactly that
\* amount; or is at most the threshold and comes off the rail's allowance; or was
\* locked by an agent and comes off its allowance and the account's, whole,
\* however many locks its entry carries (check_owner_call, spend_volume).
THEOREM OutflowIsPaidFor == AgentAccountSpec => OutflowIsCharged
<1>1. AgentAccountInv /\ AgentAccountInv' /\ [AgentAccountNext]_agentAccountVars
        => [OutflowStep]_agentAccountVars
  BY LeavesStep
<1>2. QED BY <1>1, AgentAccountInvariant, PTL DEF AgentAccountSpec, OutflowIsCharged
=============================================================================
