------------------------------- MODULE Trade -------------------------------
(***************************************************************************)
(* What a ProofBridge trade promises, without chains, proofs or clocks.    *)
(* Each order has a lock (the maker's, on the ad chain) and a deposit (the *)
(* bridger's, on the order chain).  Each is paid across, handed back, or   *)
(* forfeited, and one side's fate decides what may become of the other.    *)
(***************************************************************************)
CONSTANT
  Trades            \* the trades, each an order hash

VARIABLES
  lock,             \* [Trades -> LockState]
  deposit,          \* [Trades -> DepositState]
  agreed            \* trades whose parties co-signed the settlement

tradeVars == <<lock, deposit, agreed>>

\* returned: to the maker, the deposit may be refunded.  maker_forfeit: to the
\* bridger, the deposit may be refunded as well.  bridger_forfeit: to the maker,
\* the deposit goes there too.
LockState ==
  {"none", "held", "paid", "returned", "maker_forfeit", "bridger_forfeit"}

DepositState == {"none", "held", "paid", "refunded"}

TradeTypeOK ==
  /\ lock \in [Trades -> LockState]
  /\ deposit \in [Trades -> DepositState]
  /\ agreed \subseteq Trades

TradeInit ==
  /\ lock = [o \in Trades |-> "none"]
  /\ deposit = [o \in Trades |-> "none"]
  /\ agreed = {}

-----------------------------------------------------------------------------

TakeLock(o) ==
  /\ lock[o] = "none"
  /\ lock' = [lock EXCEPT ![o] = "held"]
  /\ UNCHANGED <<deposit, agreed>>

TakeDeposit(o) ==
  /\ deposit[o] = "none"
  /\ deposit' = [deposit EXCEPT ![o] = "held"]
  /\ UNCHANGED <<lock, agreed>>

\* Only a trade both sides have escrowed for is ever co-signed.
Agree(o) ==
  /\ lock[o] # "none" /\ deposit[o] # "none"
  /\ agreed' = agreed \cup {o}
  /\ UNCHANGED <<lock, deposit>>

PayLock(o) ==
  /\ lock[o] = "held"
  /\ o \in agreed
  /\ lock' = [lock EXCEPT ![o] = "paid"]
  /\ UNCHANGED <<deposit, agreed>>

PayDeposit(o) ==
  /\ deposit[o] = "held"
  /\ o \in agreed \/ lock[o] = "bridger_forfeit"
  /\ deposit' = [deposit EXCEPT ![o] = "paid"]
  /\ UNCHANGED <<lock, agreed>>

\* Nobody locked in time, the trade lapsed, or an arbiter sent each side home.
ReturnLock(o) ==
  /\ lock[o] \in {"none", "held"}
  /\ lock[o] = "none" => deposit[o] # "none"
  /\ lock' = [lock EXCEPT ![o] = "returned"]
  /\ UNCHANGED <<deposit, agreed>>

Forfeit(o, whose) ==
  /\ lock[o] = "held"
  /\ lock' = [lock EXCEPT ![o] = whose]
  /\ UNCHANGED <<deposit, agreed>>

\* The bridger is refunded only where the lock did not settle.
Refund(o) ==
  /\ deposit[o] = "held"
  /\ lock[o] \in {"returned", "maker_forfeit"}
  /\ deposit' = [deposit EXCEPT ![o] = "refunded"]
  /\ UNCHANGED <<lock, agreed>>

TradeNext ==
  \E o \in Trades :
    \/ TakeLock(o) \/ TakeDeposit(o) \/ Agree(o)
    \/ PayLock(o) \/ PayDeposit(o)
    \/ ReturnLock(o) \/ Refund(o)
    \/ \E whose \in {"maker_forfeit", "bridger_forfeit"} : Forfeit(o, whose)

TradeSpec == TradeInit /\ [][TradeNext]_tradeVars

-----------------------------------------------------------------------------
(* What it promises *)

\* The bridger never has both: a refund and the lock, unless the maker forfeited.
BridgerNotPaidTwice ==
  \A o \in Trades : deposit[o] = "refunded" => lock[o] # "paid"

\* The maker never has both: the deposit and the lock, unless the bridger
\* forfeited.  An agreement alone does not give this: the lock may be returned
\* after the deposit was paid on it, if nobody shows the ad chain in time.
MakerNotPaidTwice ==
  \A o \in Trades : deposit[o] = "paid" => lock[o] # "returned"
=============================================================================
