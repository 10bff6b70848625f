--------------------------- MODULE MerkleAppenders ---------------------------
(***************************************************************************)
(* Who may append to a chain's tree: the escrows, which the admin adds and *)
(* removes under the delay, and the registrar, which it can remove at once.*)
(***************************************************************************)
EXTENDS Timelock

CONSTANT Appenders  \* addresses the admin may name: escrows and the registrar

VARIABLES
  managers,         \* SUBSET Appenders
  escrows           \* SUBSET Appenders, the escrow appenders

appenderVars == <<managers, escrows>>

\* initialize
AppendersInit ==
  /\ managers = {}
  /\ escrows = {}

MerkleTransferAdmin ==
  NameSuccessor /\ UNCHANGED appenderVars

MerkleAcceptAdmin ==
  AcceptAndBumpEpoch /\ UNCHANGED appenderVars

MerkleActivateTimelock ==
  Activate /\ UNCHANGED appenderVars

MerkleProposeAction(call) ==
  Propose(call) /\ UNCHANGED appenderVars

MerkleCancelAction(call) ==
  Cancel(call) /\ UNCHANGED appenderVars

\* set_manager: adding waits, removing is the brake; an escrow is refused.
SetManager(m, status) ==
  /\ m \notin escrows
  /\ GateUnless(~status, <<"set_manager", m, status>>)
  /\ managers' = IF status THEN managers \cup {m} ELSE managers \ {m}
  /\ UNCHANGED escrows

\* set_escrow_appender: both ways wait.
SetEscrowAppender(m, enabled) ==
  /\ Gate(<<"set_escrow_appender", m, enabled>>)
  /\ escrows' = IF enabled THEN escrows \cup {m} ELSE escrows \ {m}
  /\ managers' = IF enabled THEN managers \cup {m} ELSE managers \ {m}

AppendersNext ==
  \/ Tick /\ UNCHANGED appenderVars
  \/ MerkleTransferAdmin
  \/ MerkleAcceptAdmin
  \/ MerkleActivateTimelock
  \/ \E call \in Calls : MerkleProposeAction(call)
  \/ \E call \in Calls : MerkleCancelAction(call)
  \/ \E m \in Appenders, status \in BOOLEAN : SetManager(m, status)
  \/ \E m \in Appenders, enabled \in BOOLEAN : SetEscrowAppender(m, enabled)

merkleAppendersVars == <<timelockVars, appenderVars>>

MerkleAppendersSpec ==
  TimelockInit /\ AppendersInit /\ [][AppendersNext]_merkleAppendersVars

-----------------------------------------------------------------------------

\* Once the bypass is closed, nobody starts appending, or starts or stops being
\* an escrow's appender, unless a notice for exactly that call stands: given by
\* the present admin, not used before, not overtaken by a removal of the same
\* manager, and of the right age.
AppenderStep ==
  active =>
    \A m \in Appenders :
      /\ m \in managers' \ (managers \cup escrows') => Announced(<<"set_manager", m, TRUE>>)
      /\ m \in escrows' \ escrows => Announced(<<"set_escrow_appender", m, TRUE>>)
      /\ m \in escrows \ escrows' => Announced(<<"set_escrow_appender", m, FALSE>>)

AppendersAnnounced == [][AppenderStep]_merkleAppendersVars
==============================================================================
