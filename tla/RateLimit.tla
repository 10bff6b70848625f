------------------------------ MODULE RateLimit ------------------------------
(***************************************************************************)
(* Token-bucket volume accounting, refilled lazily: a bucket keeps what    *)
(* was left when it was last written, and the seconds since then are paid  *)
(* in when it is read.  The code's checked u128 arithmetic answers         *)
(* capacity on overflow, which is what unbounded integers answer too.      *)
(***************************************************************************)
EXTENDS Integers

Limit  == [capacity : Nat, refill_per_second : Nat]
Bucket == [level : Nat, last_ts : Nat]

Capped(amount, capacity) == IF amount <= capacity THEN amount ELSE capacity

\* Bucket::full
Full(limit, now) == [level |-> limit.capacity, last_ts |-> now]

\* available: a clock that went backwards is no time passing.
Available(limit, bucket, now) ==
  LET elapsed == IF now > bucket.last_ts THEN now - bucket.last_ts ELSE 0 IN
  Capped(bucket.level + limit.refill_per_second * elapsed, limit.capacity)

\* try_spend, whether it answers Some
CanSpend(limit, bucket, spend, now) == spend <= Available(limit, bucket, now)

\* try_spend, what it answers: never stamped earlier than it was.
Spent(limit, bucket, spend, now) ==
  [ level   |-> Available(limit, bucket, now) - spend,
    last_ts |-> IF now > bucket.last_ts THEN now ELSE bucket.last_ts ]

\* Mutant: the idle seconds are left to be priced at the new rate.
SettleLater(old, new, bucket, now) ==
  [level |-> Capped(bucket.level, new.capacity), last_ts |-> bucket.last_ts]

\* Mutant: a lowered capacity waits for the next refill.
SettleUnclamped(old, new, bucket, now) ==
  [level |-> Available(old, bucket, now), last_ts |-> now]

\* A bucket under a new limit: settled at the old rate, then clamped.
Settle(old, new, bucket, now) ==
  [level |-> Capped(Available(old, bucket, now), new.capacity), last_ts |-> now]
==============================================================================
