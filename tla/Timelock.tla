------------------------------- MODULE Timelock -------------------------------
(***************************************************************************)
(* The delay on admin setters that RootAnchor, MerkleManager and the other *)
(* contracts carry: a setup bypass that closes once, proposals that ripen  *)
(* and expire, brakes that are instant and void what was proposed before   *)
(* them, and an admin epoch that a handover bumps.                         *)
(*                                                                         *)
(* A call is <<fn, what, value>>: the setter, what it is about (a chain, a *)
(* manager, Nil) and the value it sets.  The proposal id is a hash of the  *)
(* call and is the call itself here; the brake key is its first two parts. *)
(***************************************************************************)
EXTENDS Integers, FiniteSets

CONSTANTS
  Nil,
  TlDelay,          \* DELAY, the notice a proposal gives
  TlGrace,          \* GRACE, how long a ripe proposal stays executable
  Calls,            \* the calls the admin may propose
  MaxPending,       \* bound: proposals stored at one time
  MaxEpoch,         \* bound: accepted handovers
  MaxTime           \* bound: ledger time

VARIABLES
  now,              \* the ledger's timestamp
  active,           \* tlactive: the bypass is closed
  epoch,            \* tlepoch
  proposals,        \* tleta: [Calls -> [eta, epoch] or Nil]
  brakes,           \* tlbrake: [Keys -> time], 0 when never pulled
  handover,         \* pendadm: an admin was named and has not accepted
  standing          \* history: when the notice a call stands on was given, or 0

timelockVars == <<now, active, epoch, proposals, brakes, handover, standing>>

\* brake_key: what a brake de-trusts.
Key(call) == <<call[1], call[2]>>

Keys == {Key(call) : call \in Calls}

TimelockInit ==
  /\ now = 1
  /\ active = FALSE
  /\ epoch = 0
  /\ proposals = [call \in Calls |-> Nil]
  /\ brakes = [k \in Keys |-> 0]
  /\ handover = FALSE
  /\ standing = [call \in Calls |-> 0]

-----------------------------------------------------------------------------

\* eta: the execution time of a proposal that can still run, or 0.
Eta(call) ==
  LET p == proposals[call] IN
  IF p # Nil /\ p.epoch = epoch /\ now <= p.eta + TlGrace THEN p.eta ELSE 0

\* activate
Activate ==
  /\ ~active
  /\ active' = TRUE
  /\ UNCHANGED <<now, epoch, proposals, brakes, handover, standing>>

\* propose: closes the bypass; refused while a proposal of the call can run.
Propose(call) ==
  /\ Eta(call) = 0
  /\ Cardinality({c \in Calls \ {call} : proposals[c] # Nil}) < MaxPending
  /\ active' = TRUE
  /\ proposals' = [proposals EXCEPT ![call] = [eta |-> now + TlDelay, epoch |-> epoch]]
  /\ standing' = [standing EXCEPT ![call] = now]
  /\ UNCHANGED <<now, epoch, brakes, handover>>

\* cancel
Cancel(call) ==
  /\ proposals[call] # Nil
  /\ proposals' = [proposals EXCEPT ![call] = Nil]
  /\ standing' = [standing EXCEPT ![call] = 0]
  /\ UNCHANGED <<now, active, epoch, brakes, handover>>

\* Mutant: the handover keeps the epoch, and with it what the old admin queued.
AcceptKeepsEpoch ==
  /\ handover
  /\ handover' = FALSE
  /\ epoch' = epoch
  /\ standing' = [call \in Calls |-> 0]
  /\ UNCHANGED <<now, active, proposals, brakes>>

\* bump_epoch, at the end of accept_admin: the old admin's proposals are void.
AcceptAndBumpEpoch ==
  /\ handover
  /\ epoch < MaxEpoch
  /\ handover' = FALSE
  /\ epoch' = epoch + 1
  /\ standing' = [call \in Calls |-> 0]
  /\ UNCHANGED <<now, active, proposals, brakes>>

\* transfer_admin names a successor; a second call replaces the first.
NameSuccessor ==
  /\ handover' = TRUE
  /\ UNCHANGED <<now, active, epoch, proposals, brakes, standing>>

-----------------------------------------------------------------------------

\* The notice behind a call is spent when the call runs.
Consume(call) ==
  /\ proposals' = [proposals EXCEPT ![call] = Nil]
  /\ standing' = [standing EXCEPT ![call] = 0]

\* The proposal of a call is of this epoch, ripe and not expired.
Ripe(call) ==
  /\ proposals[call] # Nil
  /\ proposals[call].epoch = epoch
  /\ now \in proposals[call].eta .. proposals[call].eta + TlGrace

\* A brake on the call's key was pulled at or after the proposal was made.
Braked(call) ==
  /\ brakes[Key(call)] # 0
  /\ proposals[call].eta - TlDelay <= brakes[Key(call)]

\* gate: the admin's before activation; after it, anyone's once ripe.
Gate(call) ==
  /\ IF active
     THEN call \in Calls /\ Ripe(call) /\ Consume(call)
     ELSE UNCHANGED <<proposals, standing>>
  /\ UNCHANGED <<now, active, epoch, brakes, handover>>

\* Mutant: the stale proposal of something braked since still runs.
GateUnkeyed(call) == Gate(call)

\* gate_keyed: as gate, refused once braked.
GateKeyed(call) ==
  /\ active => call \in Calls /\ Ripe(call) /\ ~Braked(call)
  /\ Gate(call)

\* A brake stamps its key and is the admin's, at once.
PullBrake(call) ==
  /\ brakes' = [k \in Keys |-> IF k = Key(call) THEN now ELSE brakes[k]]
  /\ standing' = [c \in Calls |-> IF Key(c) = Key(call) THEN 0 ELSE standing[c]]
  /\ UNCHANGED <<now, active, epoch, proposals, handover>>

\* gate_unless
GateUnless(brake, call) ==
  IF brake THEN PullBrake(call) ELSE GateKeyed(call)

Tick ==
  /\ now < MaxTime
  /\ now' = now + 1
  /\ UNCHANGED <<active, epoch, proposals, brakes, handover, standing>>

-----------------------------------------------------------------------------

\* A notice for exactly this call stands: given by the present admin, neither
\* withdrawn, used nor overtaken by a brake, old enough and not too old.
Announced(call) ==
  /\ call \in Calls
  /\ standing[call] # 0
  /\ now - standing[call] \in TlDelay .. TlDelay + TlGrace

TimelockTypeOK ==
  /\ now \in 1..MaxTime
  /\ active \in BOOLEAN
  /\ epoch \in 0..MaxEpoch
  /\ proposals \in [Calls -> [eta : Nat, epoch : Nat] \cup {Nil}]
  /\ brakes \in [Keys -> Nat]
  /\ handover \in BOOLEAN
  /\ standing \in [Calls -> Nat]

ASSUME TimelockAssumption ==
  /\ TlDelay \in Nat \ {0} /\ TlGrace \in Nat
  /\ MaxPending \in Nat /\ MaxEpoch \in Nat /\ MaxTime \in Nat \ {0}
  /\ Nil \notin [eta : Nat, epoch : Nat]
===============================================================================
