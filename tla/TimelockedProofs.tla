--------------------------- MODULE TimelockedProofs ---------------------------
(***************************************************************************)
(* The two contracts whose setters wait the delay, for any signers, chains, *)
(* roots, delays and appenders: no setter loosens the anchor or changes who *)
(* appends without its notice, and no root is anchored without its quorum. *)
(* The notices rest on one invariant of the timelock, which any contract   *)
(* carrying it could cite.                                                 *)
(***************************************************************************)
EXTENDS RootAnchor, MerkleAppenders, FiniteSetTheorems, TLAPS

-----------------------------------------------------------------------------
(* The timelock *)

\* A stored proposal was made in the past, the delay before it ripens.  One of
\* this epoch that no brake overtook stands on the notice given then.
NoticeOK ==
  \A call \in Calls : proposals[call] # Nil =>
    /\ proposals[call].epoch <= epoch
    /\ proposals[call].eta - TlDelay \in 1..now
    /\ proposals[call].epoch = epoch /\ ~Braked(call) =>
         /\ standing[call] = proposals[call].eta - TlDelay
         /\ standing[call] # 0

\* The setters without a brake: rotating the signers, and changing an escrow's
\* place as an appender.
BothWaysWait == {"set_signers", "set_escrow_appender"}

NeverBraked == \A k \in Keys : k[1] \in BothWaysWait => brakes[k] = 0

TimelockInv == TimelockTypeOK /\ NoticeOK /\ NeverBraked

LEMMA ProposalType ==
  ASSUME TimelockTypeOK, NEW call \in Calls, proposals[call] # Nil
  PROVE  proposals[call] \in [eta : Nat, epoch : Nat]
BY DEF TimelockTypeOK

LEMMA KeyInKeys ==
  ASSUME NEW call \in Calls
  PROVE  Key(call) \in Keys
BY DEF Keys

LEMMA TimelockInitOK == TimelockInit => TimelockInv
<1> SUFFICES ASSUME TimelockInit PROVE TimelockInv
  OBVIOUS
<1>1. TimelockTypeOK
  <2>1. now \in 1..MaxTime /\ epoch \in 0..MaxEpoch
    <3>1. now = 1 /\ epoch = 0
      BY DEF TimelockInit
    <3>2. MaxTime \in Nat \ {0} /\ MaxEpoch \in Nat
      BY TimelockAssumption
    <3> QED
      BY <3>1, <3>2
  <2>4. active \in BOOLEAN /\ handover \in BOOLEAN
    BY DEF TimelockInit
  <2>2. proposals \in [Calls -> [eta : Nat, epoch : Nat] \cup {Nil}]
    BY DEF TimelockInit
  <2>3. brakes \in [Keys -> Nat] /\ standing \in [Calls -> Nat]
    BY DEF TimelockInit
  <2> QED
    BY <2>1, <2>2, <2>3, <2>4 DEF TimelockTypeOK
<1>2. NoticeOK
  BY DEF TimelockInit, NoticeOK
<1>3. NeverBraked
  BY DEF TimelockInit, NeverBraked
<1> QED
  BY <1>1, <1>2, <1>3 DEF TimelockInv

\* What the timelock is left alone by keeps the invariant.
LEMMA TimelockStutters ==
  TimelockInv /\ UNCHANGED timelockVars => TimelockInv'
BY DEF timelockVars, TimelockInv, TimelockTypeOK, NoticeOK, NeverBraked, Braked

LEMMA TickKeeps == TimelockInv /\ Tick => TimelockInv'
<1> SUFFICES ASSUME TimelockInv, Tick PROVE TimelockInv'
  OBVIOUS
<1>1. TimelockTypeOK'
  BY TimelockAssumption DEF TimelockInv, TimelockTypeOK, Tick
<1>2. NoticeOK'
  <2> SUFFICES ASSUME NEW call \in Calls, proposals[call] # Nil
               PROVE  /\ proposals[call].epoch <= epoch
                      /\ proposals[call].eta - TlDelay \in 1..now'
                      /\ proposals[call].epoch = epoch /\ ~Braked(call) =>
                           /\ standing[call] = proposals[call].eta - TlDelay
                           /\ standing[call] # 0
    BY DEF NoticeOK, Braked, Tick
  <2>1. /\ proposals[call].epoch <= epoch
        /\ proposals[call].eta - TlDelay \in 1..now
        /\ proposals[call].epoch = epoch /\ ~Braked(call) =>
             /\ standing[call] = proposals[call].eta - TlDelay
             /\ standing[call] # 0
    BY DEF TimelockInv, NoticeOK
  <2>2. now \in Int /\ now' = now + 1
    BY DEF TimelockInv, TimelockTypeOK, Tick
  <2> QED
    BY <2>1, <2>2
<1>3. NeverBraked'
  BY DEF TimelockInv, NeverBraked, Tick
<1> QED
  BY <1>1, <1>2, <1>3 DEF TimelockInv

LEMMA ActivateKeeps == TimelockInv /\ Activate => TimelockInv'
BY DEF TimelockInv, TimelockTypeOK, NoticeOK, NeverBraked, Braked, Activate

LEMMA NameSuccessorKeeps == TimelockInv /\ NameSuccessor => TimelockInv'
BY DEF TimelockInv, TimelockTypeOK, NoticeOK, NeverBraked, Braked, NameSuccessor

\* A new notice is given now.
LEMMA ProposeKeeps ==
  ASSUME TimelockInv, NEW call \in Calls, Propose(call)
  PROVE  TimelockInv'
<1>1. TimelockTypeOK /\ NoticeOK /\ NeverBraked
  BY DEF TimelockInv
<1> DEFINE p == [eta |-> now + TlDelay, epoch |-> epoch]
<1>2. p \in [eta : Nat, epoch : Nat] /\ p # Nil /\ p.eta = now + TlDelay /\ p.epoch = epoch
  BY <1>1, TimelockAssumption DEF TimelockTypeOK
<1>3. proposals' = [proposals EXCEPT ![call] = p] /\ standing' = [standing EXCEPT ![call] = now]
  BY DEF Propose
<1> HIDE DEF p
<1>4. TimelockTypeOK'
  BY <1>1, <1>2, <1>3, TimelockAssumption DEF TimelockTypeOK, Propose
<1>5. NoticeOK'
  <2> SUFFICES ASSUME NEW other \in Calls, proposals'[other] # Nil
               PROVE  /\ proposals'[other].epoch <= epoch'
                      /\ proposals'[other].eta - TlDelay \in 1..now'
                      /\ proposals'[other].epoch = epoch' /\ ~Braked(other)' =>
                           /\ standing'[other] = proposals'[other].eta - TlDelay
                           /\ standing'[other] # 0
    BY DEF NoticeOK
  <2>1. epoch' = epoch /\ brakes' = brakes /\ now' = now
    BY DEF Propose
  <2>2. CASE other = call
    <3>1. proposals'[other] = p /\ standing'[other] = now
      BY <1>1, <1>3, <2>2 DEF TimelockTypeOK
    <3> QED
      BY <1>1, <1>2, <2>1, <3>1, TimelockAssumption DEF TimelockTypeOK
  <2>3. CASE other # call
    <3>1. proposals'[other] = proposals[other] /\ standing'[other] = standing[other]
      BY <1>1, <1>3, <2>3 DEF TimelockTypeOK
    <3> QED
      BY <1>1, <2>1, <3>1 DEF NoticeOK, Braked
  <2> QED
    BY <2>2, <2>3
<1>6. NeverBraked'
  BY <1>1 DEF NeverBraked, Propose
<1> QED
  BY <1>4, <1>5, <1>6 DEF TimelockInv

\* A notice withdrawn or used up stands behind nothing.
LEMMA ForgetKeeps ==
  ASSUME TimelockInv, NEW call \in Calls,
         proposals' = [proposals EXCEPT ![call] = Nil],
         standing' = [standing EXCEPT ![call] = 0],
         UNCHANGED <<now, active, epoch, brakes, handover>>
  PROVE  TimelockInv'
<1>1. TimelockTypeOK /\ NoticeOK /\ NeverBraked
  BY DEF TimelockInv
<1>2. TimelockTypeOK'
  BY <1>1 DEF TimelockTypeOK
<1>3. \A other \in Calls : proposals'[other] # Nil =>
        proposals'[other] = proposals[other] /\ standing'[other] = standing[other]
  BY <1>1 DEF TimelockTypeOK
<1>4. NoticeOK'
  BY <1>1, <1>3 DEF NoticeOK, Braked
<1>5. NeverBraked'
  BY <1>1 DEF NeverBraked
<1> QED
  BY <1>2, <1>4, <1>5 DEF TimelockInv

LEMMA CancelKeeps ==
  ASSUME TimelockInv, NEW call \in Calls, Cancel(call)
  PROVE  TimelockInv'
BY ForgetKeeps DEF Cancel

LEMMA GateKeeps ==
  ASSUME TimelockInv, NEW call, Gate(call)
  PROVE  TimelockInv'
<1>1. CASE active
  BY <1>1, ForgetKeeps DEF Gate, Consume
<1>2. CASE ~active
  BY <1>2, TimelockStutters DEF Gate, timelockVars
<1> QED
  BY <1>1, <1>2

\* The next admin's epoch is one no proposal has.
LEMMA AcceptKeeps == TimelockInv /\ AcceptAndBumpEpoch => TimelockInv'
<1> SUFFICES ASSUME TimelockInv, AcceptAndBumpEpoch PROVE TimelockInv'
  OBVIOUS
<1>1. TimelockTypeOK /\ NoticeOK /\ NeverBraked
  BY DEF TimelockInv
<1>2. TimelockTypeOK'
  <2>1. epoch' \in 0..MaxEpoch
    BY <1>1, TimelockAssumption DEF TimelockTypeOK, AcceptAndBumpEpoch
  <2>2. standing' \in [Calls -> Nat] /\ handover' \in BOOLEAN
    BY DEF AcceptAndBumpEpoch
  <2> QED
    BY <1>1, <2>1, <2>2 DEF TimelockTypeOK, AcceptAndBumpEpoch
<1>3. NoticeOK'
  <2> SUFFICES ASSUME NEW call \in Calls, proposals[call] # Nil
               PROVE  proposals[call].epoch <= epoch' /\ proposals[call].epoch # epoch'
    BY <1>1 DEF NoticeOK, AcceptAndBumpEpoch
  <2>1. proposals[call].epoch \in Nat /\ proposals[call].epoch <= epoch /\ epoch \in Nat
    BY <1>1, ProposalType, TimelockAssumption DEF NoticeOK, TimelockTypeOK
  <2> QED
    BY <2>1 DEF AcceptAndBumpEpoch
<1>4. NeverBraked'
  BY <1>1 DEF NeverBraked, AcceptAndBumpEpoch
<1> QED
  BY <1>2, <1>3, <1>4 DEF TimelockInv

\* A brake overtakes every proposal on its key, made this second included.
LEMMA BrakeKeeps ==
  ASSUME TimelockInv, NEW call, call[1] \notin BothWaysWait, PullBrake(call)
  PROVE  TimelockInv'
<1>1. TimelockTypeOK /\ NoticeOK /\ NeverBraked
  BY DEF TimelockInv
<1>2. TimelockTypeOK'
  BY <1>1 DEF TimelockTypeOK, PullBrake
<1>3. NoticeOK'
  <2> SUFFICES ASSUME NEW other \in Calls, proposals[other] # Nil
               PROVE  /\ proposals[other].epoch <= epoch
                      /\ proposals[other].epoch = epoch /\ ~Braked(other)' =>
                           /\ standing'[other] = proposals[other].eta - TlDelay
                           /\ standing'[other] # 0
    BY <1>1 DEF NoticeOK, PullBrake
  <2>1. Key(other) \in Keys
    BY KeyInKeys
  <2>2. brakes'[Key(other)] = IF Key(other) = Key(call) THEN now ELSE brakes[Key(other)]
    BY <2>1 DEF PullBrake
  <2>3. standing'[other] = IF Key(other) = Key(call) THEN 0 ELSE standing[other]
    BY DEF PullBrake
  <2>4. CASE Key(other) # Key(call)
    BY <1>1, <2>2, <2>3, <2>4 DEF NoticeOK, Braked, PullBrake
  <2>5. CASE Key(other) = Key(call)
    <3>1. proposals[other].epoch <= epoch /\ proposals[other].eta - TlDelay \in 1..now
      BY <1>1 DEF NoticeOK
    <3>2. now # 0 /\ brakes'[Key(other)] = now /\ proposals' = proposals
      BY <1>1, <2>2, <2>5 DEF TimelockTypeOK, PullBrake
    <3> QED
      BY <3>1, <3>2 DEF Braked
  <2> QED
    BY <2>4, <2>5
<1>4. NeverBraked'
  BY <1>1 DEF NeverBraked, PullBrake, Key
<1> QED
  BY <1>2, <1>3, <1>4 DEF TimelockInv

LEMMA GateKeyedKeeps ==
  ASSUME TimelockInv, NEW call, GateKeyed(call)
  PROVE  TimelockInv'
BY GateKeeps DEF GateKeyed

LEMMA GateUnlessKeeps ==
  ASSUME TimelockInv, NEW call, call[1] \notin BothWaysWait, NEW brake,
         GateUnless(brake, call)
  PROVE  TimelockInv'
BY GateKeyedKeeps, BrakeKeeps DEF GateUnless

\* What the gate lets through under the delay was announced.
LEMMA RipeIsAnnounced ==
  ASSUME TimelockInv, NEW call \in Calls, Ripe(call), ~Braked(call)
  PROVE  Announced(call)
<1>1. /\ standing[call] = proposals[call].eta - TlDelay
      /\ standing[call] # 0
  BY DEF TimelockInv, NoticeOK, Ripe
<1>2. proposals[call].eta \in Nat /\ now \in Int
  BY ProposalType DEF TimelockInv, TimelockTypeOK, Ripe
<1>3. now \in proposals[call].eta .. proposals[call].eta + TlGrace
  BY DEF Ripe
<1> QED
  BY <1>1, <1>2, <1>3, TimelockAssumption DEF Announced

LEMMA GateKeyedAnnounced ==
  ASSUME TimelockInv, active, NEW call, GateKeyed(call)
  PROVE  Announced(call)
BY RipeIsAnnounced DEF GateKeyed, Gate

LEMMA GateAnnounced ==
  ASSUME TimelockInv, active, NEW call, call[1] \in BothWaysWait, Gate(call)
  PROVE  Announced(call)
<1>1. call \in Calls /\ Ripe(call)
  BY DEF Gate
<1>2. Key(call) \in Keys /\ Key(call)[1] \in BothWaysWait
  BY <1>1, KeyInKeys DEF Key
<1>3. ~Braked(call)
  BY <1>2 DEF TimelockInv, NeverBraked, Braked
<1> QED
  BY <1>1, <1>3, RipeIsAnnounced

-----------------------------------------------------------------------------
(* What the anchor's setters do to the timelock *)

LEMMA TimelockStep ==
  ASSUME TimelockInv, [RootAnchorNext]_rootAnchorVars
  PROVE  TimelockInv'
<1>1. CASE UNCHANGED timelockVars
  BY <1>1, TimelockStutters
<1>2. CASE Tick
  BY <1>2, TickKeeps
<1>3. CASE AnchorTransferAdmin
  BY <1>3, NameSuccessorKeeps DEF AnchorTransferAdmin
<1>4. CASE AnchorAcceptAdmin
  BY <1>4, AcceptKeeps DEF AnchorAcceptAdmin
<1>5. CASE AnchorActivateTimelock
  BY <1>5, ActivateKeeps DEF AnchorActivateTimelock
<1>6. ASSUME NEW call \in Calls, AnchorProposeAction(call) \/ AnchorCancelAction(call)
      PROVE  TimelockInv'
  BY <1>6, ProposeKeeps, CancelKeeps DEF AnchorProposeAction, AnchorCancelAction
<1>7. ASSUME NEW s \in SignerSets, SetSigners(s[1], s[2])
      PROVE  TimelockInv'
  BY <1>7, GateKeeps DEF SetSigners
<1>8. ASSUME NEW c, NEW seq, ResetLatestSeq(c, seq)
      PROVE  TimelockInv'
  <2> DEFINE call == <<"reset_latest_seq", c, seq>>
             brake == seq >= latest[c]
  <2>1. GateUnless(brake, call) /\ call[1] \notin BothWaysWait
    BY <1>8 DEF ResetLatestSeq, BothWaysWait
  <2> HIDE DEF call, brake
  <2> QED
    BY <2>1, GateUnlessKeeps
<1>9. ASSUME NEW c, NEW d, SetAnchorDelay(c, d)
      PROVE  TimelockInv'
  <2> DEFINE call == <<"set_anchor_delay", c, d>>
             brake == d >= delay[c]
  <2>1. GateUnless(brake, call) /\ call[1] \notin BothWaysWait
    BY <1>9 DEF SetAnchorDelay, BothWaysWait
  <2> HIDE DEF call, brake
  <2> QED
    BY <2>1, GateUnlessKeeps
<1>10. ASSUME NEW on, SetMonotonic(on)
       PROVE  TimelockInv'
  <2> DEFINE call == <<"set_monotonic", Nil, on>>
  <2>1. GateUnless(on, call) /\ call[1] \notin BothWaysWait
    BY <1>10 DEF SetMonotonic, BothWaysWait
  <2> HIDE DEF call
  <2> QED
    BY <2>1, GateUnlessKeeps
<1>11. ASSUME NEW p, SetPaused(p)
       PROVE  UNCHANGED timelockVars
  BY <1>11 DEF SetPaused
<1>12. ASSUME NEW c, NEW r, RevokeAnchor(c, r)
       PROVE  UNCHANGED timelockVars
  BY <1>12 DEF RevokeAnchor
<1>13. ASSUME NEW n, NEW c, NEW r, NEW seq, Anchor(n, c, r, seq)
       PROVE  UNCHANGED timelockVars
  BY <1>13 DEF Anchor
<1>14. CASE UNCHANGED rootAnchorVars
  BY <1>14, <1>1 DEF rootAnchorVars
<1> QED
  BY <1>1, <1>2, <1>3, <1>4, <1>5, <1>6, <1>7, <1>8, <1>9, <1>10, <1>11, <1>12,
     <1>13, <1>14 DEF RootAnchorNext

-----------------------------------------------------------------------------
(* The appenders *)

LEMMA AppendersKeepTimelock ==
  ASSUME TimelockInv, [AppendersNext]_merkleAppendersVars
  PROVE  TimelockInv'
<1>1. ASSUME NEW m, NEW status, SetManager(m, status)
      PROVE  TimelockInv'
  <2> DEFINE call == <<"set_manager", m, status>>
  <2>1. GateUnless(~status, call) /\ call[1] \notin BothWaysWait
    BY <1>1 DEF SetManager, BothWaysWait
  <2> HIDE DEF call
  <2> QED
    BY <2>1, GateUnlessKeeps
<1>2. ASSUME NEW m, NEW enabled, SetEscrowAppender(m, enabled)
      PROVE  TimelockInv'
  BY <1>2, GateKeeps DEF SetEscrowAppender
<1>3. ASSUME NEW call \in Calls, MerkleProposeAction(call) \/ MerkleCancelAction(call)
      PROVE  TimelockInv'
  BY <1>3, ProposeKeeps, CancelKeeps DEF MerkleProposeAction, MerkleCancelAction
<1>4. CASE \/ Tick \/ MerkleTransferAdmin \/ MerkleAcceptAdmin \/ MerkleActivateTimelock
  BY <1>4, TickKeeps, NameSuccessorKeeps, AcceptKeeps, ActivateKeeps
     DEF MerkleTransferAdmin, MerkleAcceptAdmin, MerkleActivateTimelock
<1>5. CASE UNCHANGED merkleAppendersVars
  BY <1>5, TimelockStutters DEF merkleAppendersVars
<1> QED
  BY <1>1, <1>2, <1>3, <1>4, <1>5 DEF AppendersNext

\* Adding one that is no escrow was announced; removing it needs no notice.
LEMMA ManagerStep ==
  ASSUME TimelockInv, NEW m \in Appenders, NEW status \in BOOLEAN, SetManager(m, status)
  PROVE  AppenderStep
<1>1. /\ managers' = IF status THEN managers \cup {m} ELSE managers \ {m}
      /\ escrows' = escrows
  BY DEF SetManager
<1>2. CASE status
  <2> DEFINE call == <<"set_manager", m, TRUE>>
  <2>1. status = TRUE
    BY <1>2
  <2>2. GateKeyed(call)
    BY <2>1 DEF SetManager, GateUnless
  <2> HIDE DEF call
  <2>3. active => Announced(call)
    BY <2>2, GateKeyedAnnounced
  <2>4. active => Announced(<<"set_manager", m, TRUE>>)
    BY <2>3 DEF call
  <2> QED
    BY <1>1, <2>1, <2>4 DEF AppenderStep
<1>3. CASE ~status
  BY <1>1, <1>3 DEF AppenderStep
<1> QED
  BY <1>2, <1>3

\* Both ways of changing an escrow's place were announced.
LEMMA EscrowStep ==
  ASSUME TimelockInv, NEW m \in Appenders, NEW enabled \in BOOLEAN,
         SetEscrowAppender(m, enabled)
  PROVE  AppenderStep
<1> DEFINE call == <<"set_escrow_appender", m, enabled>>
<1>1. Gate(call) /\ call[1] \in BothWaysWait
  BY DEF SetEscrowAppender, BothWaysWait
<1>2. /\ escrows' = IF enabled THEN escrows \cup {m} ELSE escrows \ {m}
      /\ managers' = IF enabled THEN managers \cup {m} ELSE managers \ {m}
  BY DEF SetEscrowAppender
<1> HIDE DEF call
<1>3. active => Announced(call)
  BY <1>1, GateAnnounced
<1>4. active => Announced(<<"set_escrow_appender", m, enabled>>)
  BY <1>3 DEF call
<1>5. CASE enabled = TRUE
  BY <1>2, <1>4, <1>5 DEF AppenderStep
<1>6. CASE enabled = FALSE
  BY <1>2, <1>4, <1>6 DEF AppenderStep
<1> QED
  BY <1>5, <1>6

LEMMA AppendersStep ==
  ASSUME TimelockInv, [AppendersNext]_merkleAppendersVars
  PROVE  AppenderStep
<1>1. CASE UNCHANGED appenderVars
  BY <1>1 DEF appenderVars, AppenderStep
<1>2. CASE UNCHANGED merkleAppendersVars
  BY <1>1, <1>2 DEF merkleAppendersVars
<1> QED
  BY <1>1, <1>2, ManagerStep, EscrowStep
     DEF AppendersNext, MerkleTransferAdmin, MerkleAcceptAdmin, MerkleActivateTimelock,
         MerkleProposeAction, MerkleCancelAction

-----------------------------------------------------------------------------
(* Types *)

LEMMA MembersAreNotaries ==
  ASSUME NEW list \in Seq(Notaries)
  PROVE  Members(list) \subseteq Notaries
BY DEF Members

LEMMA NoRecType == NoRec \in AnchorRec
BY DEF NoRec, AnchorRec

LEMMA NoVotesType == NoVotes \in [Chains -> [Roots -> SUBSET (Notaries \X Seqs)]]
BY DEF NoVotes

\* A signer set that apply_signers accepts.
LEMMA AcceptedSigners ==
  ASSUME NEW s \in SignerSets, SignersOK(s[1], s[2])
  PROVE  s[1] \in Seq(Notaries) /\ s[2] \in Nat \ {0}
<1>1. s[1] \in Seq(Notaries) /\ s[2] \in 1..Len(s[1])
  BY RootAnchorAssumption DEF SignersOK
<1> QED
  BY <1>1

LEMMA RootAnchorInitTypes == RootAnchorInit => RootAnchorTypeOK
<1> SUFFICES ASSUME RootAnchorInit PROVE RootAnchorTypeOK
  OBVIOUS
<1>1. signers \in Seq(Notaries) /\ threshold \in Nat \ {0}
  <2>1. PICK s \in SignerSets : SignersOK(s[1], s[2]) /\ signers = s[1] /\ threshold = s[2]
    BY DEF RootAnchorInit
  <2>2. s[1] \in Seq(Notaries) /\ s[2] \in Nat \ {0}
    BY <2>1, AcceptedSigners
  <2> QED
    BY <2>1, <2>2
<1>2. setEpoch \in Nat \ {0} /\ monotonic \in BOOLEAN /\ paused \in BOOLEAN
  <2>1. setEpoch = 1
    BY DEF RootAnchorInit
  <2>2. monotonic \in BOOLEAN /\ paused \in BOOLEAN
    BY DEF RootAnchorInit
  <2> QED
    BY <2>1, <2>2
<1>3. delay \in [Chains -> 0..MaxAnchorDelay] /\ latest \in [Chains -> Nat]
  <2>1. 0 \in 0..MaxAnchorDelay
    <3>1. MaxAnchorDelay \in Nat
      BY RootAnchorAssumption
    <3> QED
      BY <3>1
  <2>2. delay = [c \in Chains |-> 0] /\ latest = [c \in Chains |-> 0]
    BY DEF RootAnchorInit
  <2> QED
    BY <2>1, <2>2
<1>4. anchors \in [Chains -> [Roots -> AnchorRec]]
  BY NoRecType DEF RootAnchorInit
<1>5. stamp \in [Chains -> [Roots -> [Notaries -> (Nat \X Nat) \cup {Nil}]]]
  BY DEF RootAnchorInit
<1> QED
  BY <1>1, <1>2, <1>3, <1>4, <1>5, NoVotesType DEF RootAnchorInit, RootAnchorTypeOK

\* The record an approval starts from is a record.
LEMMA CurrentRecType ==
  ASSUME RootAnchorTypeOK, NEW c \in Chains, NEW r \in Roots
  PROVE  /\ anchors[c][r] \in AnchorRec
         /\ CurrentRec(c, r) \in AnchorRec
         /\ CurrentRec(c, r).set_epoch = setEpoch
         /\ CurrentRec(c, r).gen = anchors[c][r].gen
         /\ CurrentRec(c, r).anchored = anchors[c][r].anchored
         /\ CurrentRec(c, r).ledger_seq = anchors[c][r].ledger_seq
         /\ CurrentRec(c, r).approvals =
              IF anchors[c][r].set_epoch = setEpoch THEN anchors[c][r].approvals ELSE 0
<1>1. anchors[c][r] \in AnchorRec /\ setEpoch \in Nat
  BY DEF RootAnchorTypeOK
<1> QED
  BY <1>1 DEF CurrentRec, AnchorRec

\* An approval, in its parts.
LEMMA AnchorParts ==
  ASSUME RootAnchorTypeOK, TimelockTypeOK,
         NEW n \in Notaries, NEW c \in Chains, NEW r \in Roots, NEW seq \in Seqs,
         Anchor(n, c, r, seq)
  PROVE  LET rec == CurrentRec(c, r) IN
         \E new \in AnchorRec :
           /\ anchors' = [anchors EXCEPT ![c][r] = new]
           /\ stamp' = [stamp EXCEPT ![c][r][n] = <<setEpoch, rec.gen>>]
           /\ votes' = [votes EXCEPT ![c][r] = @ \cup {<<n, seq>>}]
           /\ new.gen = rec.gen /\ new.set_epoch = setEpoch
           /\ new.approvals = CountApproval(c, r, n, rec)
           /\ new.ledger_seq = seq
           /\ rec.approvals # 0 => rec.ledger_seq = seq
           /\ new.anchored => new.approvals >= threshold
           /\ n \in Members(signers)
           /\ latest' \in [Chains -> Nat]
           /\ \A ch \in Chains : latest'[ch] >= latest[ch]
           /\ UNCHANGED <<signers, threshold, setEpoch, monotonic, paused, delay>>
<1> DEFINE rec   == CurrentRec(c, r)
           count == CountApproval(c, r, n, rec)
           at    == IF rec.approvals = 0 THEN seq ELSE rec.ledger_seq
           done  == count >= threshold
           new1  == [rec EXCEPT !.ledger_seq = at]
           new2  == [new1 EXCEPT !.approvals = count]
           new3  == [new2 EXCEPT !.anchored = done]
           new   == [new3 EXCEPT !.anchored_at = IF done THEN now ELSE @]
<1>1. rec \in AnchorRec /\ rec.set_epoch = setEpoch
  BY CurrentRecType
<1>2. /\ anchors' = [anchors EXCEPT ![c][r] = new]
      /\ stamp' = [stamp EXCEPT ![c][r][n] = <<rec.set_epoch, rec.gen>>]
      /\ votes' = [votes EXCEPT ![c][r] = @ \cup {<<n, seq>>}]
      /\ latest' = [latest EXCEPT ![c] = IF done /\ at > @ THEN at ELSE @]
      /\ n \in Members(signers)
      /\ UNCHANGED <<signers, threshold, setEpoch, monotonic, paused, delay>>
      /\ rec.approvals # 0 => rec.ledger_seq = seq
  BY DEF Anchor, Stamp
<1>3. at = seq /\ seq \in Nat /\ now \in Nat
  BY <1>2, RootAnchorAssumption DEF TimelockTypeOK
<1>4. count \in Nat /\ done \in BOOLEAN
  BY <1>1 DEF CountApproval, AnchorRec
<1> HIDE DEF rec, count, at, done
<1>5. new1 \in AnchorRec /\ new1.gen = rec.gen /\ new1.set_epoch = rec.set_epoch
      /\ new1.ledger_seq = at
  BY <1>1, <1>3 DEF AnchorRec
<1> HIDE DEF new1
<1>6. new2 \in AnchorRec /\ new2.gen = rec.gen /\ new2.set_epoch = rec.set_epoch
      /\ new2.ledger_seq = at /\ new2.approvals = count
  BY <1>5, <1>4 DEF AnchorRec
<1> HIDE DEF new2
<1>7. new3 \in AnchorRec /\ new3.gen = rec.gen /\ new3.set_epoch = rec.set_epoch
      /\ new3.ledger_seq = at /\ new3.approvals = count /\ new3.anchored = done
  BY <1>6, <1>4 DEF AnchorRec
<1> HIDE DEF new3
<1>8. new \in AnchorRec /\ new.gen = rec.gen /\ new.set_epoch = rec.set_epoch
      /\ new.ledger_seq = at /\ new.approvals = count /\ new.anchored = done
  BY <1>7, <1>3 DEF AnchorRec
<1> HIDE DEF new
<1>9. latest' \in [Chains -> Nat] /\ \A ch \in Chains : latest'[ch] >= latest[ch]
  <2>1. latest \in [Chains -> Nat]
    BY DEF RootAnchorTypeOK
  <2> DEFINE v == IF done /\ at > latest[c] THEN at ELSE latest[c]
  <2>2. v \in Nat /\ v >= latest[c]
    BY <1>3, <2>1
  <2>3. latest' = [latest EXCEPT ![c] = v]
    BY <1>2, <2>1
  <2> HIDE DEF v
  <2> QED
    BY <2>1, <2>2, <2>3
<1>10. new.anchored => new.approvals >= threshold
  BY <1>8 DEF done
<1> QED
  BY <1>1, <1>2, <1>3, <1>8, <1>9, <1>10 DEF rec, count

\* A revocation, in its parts: the next generation starts with nothing.
LEMMA RevokeParts ==
  ASSUME RootAnchorTypeOK, NEW c \in Chains, NEW r \in Roots, RevokeAnchor(c, r)
  PROVE  \E new \in AnchorRec :
           /\ anchors' = [anchors EXCEPT ![c][r] = new]
           /\ new.gen = anchors[c][r].gen + 1
           /\ new.set_epoch = anchors[c][r].set_epoch
           /\ new.approvals = 0 /\ ~new.anchored
           /\ votes' = [votes EXCEPT ![c][r] = {}]
           /\ UNCHANGED <<signers, threshold, setEpoch, monotonic, paused, delay, latest, stamp>>
<1> DEFINE rec  == anchors[c][r]
           new1 == [rec EXCEPT !.gen = @ + 1]
           new2 == [new1 EXCEPT !.approvals = 0]
           new3 == [new2 EXCEPT !.anchored = FALSE]
           new4 == [new3 EXCEPT !.anchored_at = 0]
           new  == [new4 EXCEPT !.ledger_seq = 0]
<1>1. rec \in AnchorRec
  BY DEF RootAnchorTypeOK
<1>2. /\ anchors' = [anchors EXCEPT ![c][r] = new]
      /\ votes' = [votes EXCEPT ![c][r] = {}]
      /\ UNCHANGED <<signers, threshold, setEpoch, monotonic, paused, delay, latest, stamp>>
  <2>1. anchors \in [Chains -> [Roots -> AnchorRec]]
    BY DEF RootAnchorTypeOK
  <2>2. anchors' = [anchors EXCEPT ![c][r] =
                      [rec EXCEPT !.gen = @ + 1, !.approvals = 0, !.anchored = FALSE,
                                  !.anchored_at = 0, !.ledger_seq = 0]]
    BY <2>1 DEF RevokeAnchor
  <2>3. new = [rec EXCEPT !.gen = @ + 1, !.approvals = 0, !.anchored = FALSE,
                          !.anchored_at = 0, !.ledger_seq = 0]
    OBVIOUS
  <2> QED
    BY <2>2, <2>3 DEF RevokeAnchor
<1>3. new1 \in AnchorRec /\ new1.gen = rec.gen + 1 /\ new1.set_epoch = rec.set_epoch
  BY <1>1 DEF AnchorRec
<1> HIDE DEF new1
<1>4. new2 \in AnchorRec /\ new2.gen = rec.gen + 1 /\ new2.set_epoch = rec.set_epoch
      /\ new2.approvals = 0
  BY <1>3 DEF AnchorRec
<1> HIDE DEF new2
<1>5. new3 \in AnchorRec /\ new3.gen = rec.gen + 1 /\ new3.set_epoch = rec.set_epoch
      /\ new3.approvals = 0 /\ new3.anchored = FALSE
  BY <1>4 DEF AnchorRec
<1> HIDE DEF new3
<1>6. new4 \in AnchorRec /\ new4.gen = rec.gen + 1 /\ new4.set_epoch = rec.set_epoch
      /\ new4.approvals = 0 /\ new4.anchored = FALSE
  BY <1>5 DEF AnchorRec
<1> HIDE DEF new4
<1>7. new \in AnchorRec /\ new.gen = rec.gen + 1 /\ new.set_epoch = rec.set_epoch
      /\ new.approvals = 0 /\ new.anchored = FALSE
  BY <1>6 DEF AnchorRec
<1> HIDE DEF new
<1> QED
  BY <1>2, <1>7

\* A rotation installs a set apply_signers accepted, in the next epoch.
LEMMA RotationParts ==
  ASSUME NEW s \in SignerSets, SetSigners(s[1], s[2])
  PROVE  /\ signers' = s[1] /\ signers' \in Seq(Notaries)
         /\ threshold' = s[2] /\ threshold' \in Nat \ {0}
         /\ setEpoch' = setEpoch + 1
         /\ votes' = NoVotes
         /\ UNCHANGED <<monotonic, paused, delay, latest, anchors, stamp>>
<1>1. SignersOK(s[1], s[2])
  BY DEF SetSigners
<1>2. s[1] \in Seq(Notaries) /\ s[2] \in Nat \ {0}
  BY <1>1, AcceptedSigners
<1> QED
  BY <1>2 DEF SetSigners

\* One setter of the anchor's parameters, in its parts.
LEMMA SettersParts ==
  /\ \A c, seq : ResetLatestSeq(c, seq) =>
       /\ GateUnless(seq >= latest[c], <<"reset_latest_seq", c, seq>>)
       /\ latest' = [latest EXCEPT ![c] = seq]
       /\ UNCHANGED <<signers, threshold, setEpoch, monotonic, paused, delay, anchors,
                      stamp, votes>>
  /\ \A c, d : SetAnchorDelay(c, d) =>
       /\ GateUnless(d >= delay[c], <<"set_anchor_delay", c, d>>)
       /\ d <= MaxAnchorDelay
       /\ delay' = [delay EXCEPT ![c] = d]
       /\ UNCHANGED <<signers, threshold, setEpoch, monotonic, paused, latest, anchors,
                      stamp, votes>>
  /\ \A on : SetMonotonic(on) =>
       /\ GateUnless(on, <<"set_monotonic", Nil, on>>)
       /\ monotonic' = on
       /\ UNCHANGED <<signers, threshold, setEpoch, paused, delay, latest, anchors,
                      stamp, votes>>
BY DEF ResetLatestSeq, SetAnchorDelay, SetMonotonic

\* Every other step leaves the records and what they count alone.
LEMMA QuietSteps ==
  ASSUME \/ Tick /\ UNCHANGED anchorVars
         \/ AnchorTransferAdmin \/ AnchorAcceptAdmin \/ AnchorActivateTimelock
         \/ \E call \in Calls : AnchorProposeAction(call) \/ AnchorCancelAction(call)
         \/ UNCHANGED rootAnchorVars
  PROVE  UNCHANGED anchorVars
BY DEF rootAnchorVars, AnchorTransferAdmin, AnchorAcceptAdmin, AnchorActivateTimelock,
       AnchorProposeAction, AnchorCancelAction

LEMMA RootAnchorStepTypes ==
  ASSUME RootAnchorTypeOK, TimelockTypeOK, [RootAnchorNext]_rootAnchorVars
  PROVE  RootAnchorTypeOK'
<1>1. CASE UNCHANGED anchorVars
  BY <1>1 DEF anchorVars, RootAnchorTypeOK
<1>2. ASSUME NEW s \in SignerSets, SetSigners(s[1], s[2])
      PROVE  RootAnchorTypeOK'
  <2>1. setEpoch \in Nat \ {0} /\ setEpoch' = setEpoch + 1
    BY <1>2, RotationParts DEF RootAnchorTypeOK
  <2>2. setEpoch' \in Nat \ {0}
    BY <2>1
  <2> QED
    BY <1>2, <2>2, RotationParts, NoVotesType DEF RootAnchorTypeOK
<1>3. ASSUME NEW c \in Chains, NEW seq \in Seqs \cup {0}, ResetLatestSeq(c, seq)
      PROVE  RootAnchorTypeOK'
  <2>1. seq \in Nat
    BY RootAnchorAssumption
  <2>2. latest' = [latest EXCEPT ![c] = seq]
    BY <1>3, SettersParts
  <2>3. latest' \in [Chains -> Nat]
    BY <2>1, <2>2 DEF RootAnchorTypeOK
  <2> QED
    BY <1>3, <2>3, SettersParts DEF RootAnchorTypeOK
<1>4. ASSUME NEW c \in Chains, NEW d \in AnchorDelays, SetAnchorDelay(c, d)
      PROVE  RootAnchorTypeOK'
  <2>1. d \in 0..MaxAnchorDelay
    <3>1. d <= MaxAnchorDelay
      BY <1>4, SettersParts
    <3>2. d \in Nat /\ MaxAnchorDelay \in Nat
      BY RootAnchorAssumption
    <3> QED
      BY <3>1, <3>2
  <2>2. delay' = [delay EXCEPT ![c] = d]
    BY <1>4, SettersParts
  <2>3. delay' \in [Chains -> 0..MaxAnchorDelay]
    BY <2>1, <2>2 DEF RootAnchorTypeOK
  <2> QED
    BY <1>4, <2>3, SettersParts DEF RootAnchorTypeOK
<1>5. ASSUME NEW on \in BOOLEAN, SetMonotonic(on)
      PROVE  RootAnchorTypeOK'
  BY <1>5, SettersParts DEF RootAnchorTypeOK
<1>6. ASSUME NEW p \in BOOLEAN, SetPaused(p)
      PROVE  RootAnchorTypeOK'
  BY <1>6 DEF SetPaused, RootAnchorTypeOK
<1>7. ASSUME NEW c \in Chains, NEW r \in Roots, RevokeAnchor(c, r)
      PROVE  RootAnchorTypeOK'
  <2>1. PICK new \in AnchorRec :
          /\ anchors' = [anchors EXCEPT ![c][r] = new]
          /\ votes' = [votes EXCEPT ![c][r] = {}]
          /\ UNCHANGED <<signers, threshold, setEpoch, monotonic, paused, delay, latest, stamp>>
    BY <1>7, RevokeParts
  <2>2. anchors' \in [Chains -> [Roots -> AnchorRec]]
    BY <2>1 DEF RootAnchorTypeOK
  <2>3. votes' \in [Chains -> [Roots -> SUBSET (Notaries \X Seqs)]]
    BY <2>1 DEF RootAnchorTypeOK
  <2> QED
    BY <2>1, <2>2, <2>3 DEF RootAnchorTypeOK
<1>8. ASSUME NEW n \in Notaries, NEW c \in Chains, NEW r \in Roots, NEW seq \in Seqs,
             Anchor(n, c, r, seq)
      PROVE  RootAnchorTypeOK'
  <2>1. PICK new \in AnchorRec :
          /\ anchors' = [anchors EXCEPT ![c][r] = new]
          /\ stamp' = [stamp EXCEPT ![c][r][n] = <<setEpoch, CurrentRec(c, r).gen>>]
          /\ votes' = [votes EXCEPT ![c][r] = @ \cup {<<n, seq>>}]
          /\ latest' \in [Chains -> Nat]
          /\ UNCHANGED <<signers, threshold, setEpoch, monotonic, paused, delay>>
    BY <1>8, AnchorParts
  <2>2. anchors' \in [Chains -> [Roots -> AnchorRec]]
    BY <2>1 DEF RootAnchorTypeOK
  <2>3. votes' \in [Chains -> [Roots -> SUBSET (Notaries \X Seqs)]]
    <3>1. votes \in [Chains -> [Roots -> SUBSET (Notaries \X Seqs)]]
      BY DEF RootAnchorTypeOK
    <3>2. votes[c][r] \cup {<<n, seq>>} \in SUBSET (Notaries \X Seqs)
      BY <3>1
    <3> DEFINE new2 == votes[c][r] \cup {<<n, seq>>}
    <3>3. votes' = [votes EXCEPT ![c][r] = new2]
      BY <2>1, <3>1
    <3> HIDE DEF new2
    <3> QED
      BY <3>1, <3>2, <3>3 DEF new2
  <2>4. stamp' \in [Chains -> [Roots -> [Notaries -> (Nat \X Nat) \cup {Nil}]]]
    <3>1. stamp \in [Chains -> [Roots -> [Notaries -> (Nat \X Nat) \cup {Nil}]]]
      BY DEF RootAnchorTypeOK
    <3>2. setEpoch \in Nat /\ CurrentRec(c, r).gen \in Nat
      BY CurrentRecType DEF RootAnchorTypeOK, AnchorRec
    <3> DEFINE v == <<setEpoch, CurrentRec(c, r).gen>>
    <3>3. v \in (Nat \X Nat) \cup {Nil} /\ stamp' = [stamp EXCEPT ![c][r][n] = v]
      BY <2>1, <3>2
    <3> HIDE DEF v
    <3>4. [stamp[c][r] EXCEPT ![n] = v] \in [Notaries -> (Nat \X Nat) \cup {Nil}]
      BY <3>1, <3>3
    <3>5. stamp' = [stamp EXCEPT ![c] = [stamp[c] EXCEPT ![r] = [stamp[c][r] EXCEPT ![n] = v]]]
      BY <3>1, <3>3
    <3> QED
      BY <3>1, <3>4, <3>5
  <2> QED
    BY <2>1, <2>2, <2>3, <2>4 DEF RootAnchorTypeOK
<1> QED
  BY <1>1, <1>2, <1>3, <1>4, <1>5, <1>6, <1>7, <1>8, QuietSteps DEF RootAnchorNext

-----------------------------------------------------------------------------
(* What loosens trust *)

\* A setter that lowers what its brake would raise went through the gate.
LEMMA LooseningGated ==
  ASSUME TimelockInv, active, RootAnchorTypeOK, NEW brake, NEW call,
         GateUnless(brake, call), ~brake
  PROVE  Announced(call)
BY GateKeyedAnnounced DEF GateUnless

LEMMA LooseningStep ==
  ASSUME TimelockInv, RootAnchorTypeOK, [RootAnchorNext]_rootAnchorVars
  PROVE  AnchorLooseningStep
<1> SUFFICES ASSUME active PROVE AnchorLooseningStep
  BY DEF AnchorLooseningStep
<1> DEFINE Kept == /\ setEpoch' = setEpoch /\ latest' = latest
                   /\ delay' = delay /\ monotonic' = monotonic
<1>t. /\ setEpoch \in Nat /\ monotonic \in BOOLEAN
      /\ latest \in [Chains -> Nat] /\ delay \in [Chains -> Nat]
  BY RootAnchorAssumption DEF RootAnchorTypeOK
<1>k. Kept => AnchorLooseningStep
  BY <1>t DEF AnchorLooseningStep
<1>1. CASE UNCHANGED anchorVars
  BY <1>1, <1>k DEF anchorVars
<1>2. ASSUME NEW s \in SignerSets, SetSigners(s[1], s[2])
      PROVE  AnchorLooseningStep
  <2> DEFINE call == <<"set_signers", s[1], s[2]>>
  <2>1. Gate(call) /\ call[1] \in BothWaysWait
    BY <1>2 DEF SetSigners, BothWaysWait
  <2>2. call = <<"set_signers", signers', threshold'>>
    BY <1>2, RotationParts
  <2> HIDE DEF call
  <2>3. Announced(call)
    BY <2>1, GateAnnounced
  <2>4. latest' = latest /\ delay' = delay /\ monotonic' = monotonic
    BY <1>2, RotationParts
  <2> QED
    BY <1>t, <2>2, <2>3, <2>4 DEF AnchorLooseningStep
<1>3. ASSUME NEW c \in Chains, NEW seq \in Seqs \cup {0}, ResetLatestSeq(c, seq)
      PROVE  AnchorLooseningStep
  <2> DEFINE call == <<"reset_latest_seq", c, seq>>
             brake == seq >= latest[c]
  <2>1. GateUnless(brake, call)
    BY <1>3 DEF ResetLatestSeq
  <2>2. /\ latest' = [latest EXCEPT ![c] = seq]
        /\ setEpoch' = setEpoch /\ delay' = delay /\ monotonic' = monotonic
    BY <1>3, SettersParts
  <2>3. latest'[c] = seq /\ \A other \in Chains \ {c} : latest'[other] = latest[other]
    BY <1>t, <2>2
  <2>4. seq \in Nat
    BY RootAnchorAssumption
  <2>5. latest'[c] < latest[c] => ~brake
    BY <1>t, <2>3, <2>4
  <2>6. latest'[c] < latest[c] => Announced(call)
    <3> HIDE DEF call, brake
    <3> QED
      BY <2>1, <2>5, LooseningGated
  <2>7. \A ch \in Chains :
          latest'[ch] < latest[ch] => Announced(<<"reset_latest_seq", ch, latest'[ch]>>)
    BY <1>t, <2>3, <2>6
  <2> QED
    BY <1>t, <2>2, <2>7 DEF AnchorLooseningStep
<1>4. ASSUME NEW c \in Chains, NEW d \in AnchorDelays, SetAnchorDelay(c, d)
      PROVE  AnchorLooseningStep
  <2> DEFINE call == <<"set_anchor_delay", c, d>>
             brake == d >= delay[c]
  <2>1. GateUnless(brake, call)
    BY <1>4 DEF SetAnchorDelay
  <2>2. /\ delay' = [delay EXCEPT ![c] = d]
        /\ setEpoch' = setEpoch /\ latest' = latest /\ monotonic' = monotonic
    BY <1>4, SettersParts
  <2>3. delay'[c] = d /\ \A other \in Chains \ {c} : delay'[other] = delay[other]
    BY <1>t, <2>2
  <2>4. d \in Nat
    BY RootAnchorAssumption
  <2>5. delay'[c] < delay[c] => ~brake
    BY <1>t, <2>3, <2>4
  <2>6. delay'[c] < delay[c] => Announced(call)
    <3> HIDE DEF call, brake
    <3> QED
      BY <2>1, <2>5, LooseningGated
  <2>7. \A ch \in Chains :
          delay'[ch] < delay[ch] => Announced(<<"set_anchor_delay", ch, delay'[ch]>>)
    BY <1>t, <2>3, <2>6
  <2> QED
    BY <1>t, <2>2, <2>7 DEF AnchorLooseningStep
<1>5. ASSUME NEW on \in BOOLEAN, SetMonotonic(on)
      PROVE  AnchorLooseningStep
  <2> DEFINE call == <<"set_monotonic", Nil, on>>
  <2>1. GateUnless(on, call)
    BY <1>5 DEF SetMonotonic
  <2>2. /\ monotonic' = on
        /\ setEpoch' = setEpoch /\ latest' = latest /\ delay' = delay
    BY <1>5, SettersParts
  <2>3. CASE on
    BY <1>t, <2>2, <2>3 DEF AnchorLooseningStep
  <2>4. CASE ~on
    <3>1. call = <<"set_monotonic", Nil, FALSE>>
      BY <2>4
    <3> HIDE DEF call
    <3>2. Announced(call)
      BY <2>1, <2>4, LooseningGated
    <3> QED
      BY <1>t, <2>2, <3>1, <3>2 DEF AnchorLooseningStep
  <2> QED
    BY <2>3, <2>4
<1>6. ASSUME NEW p \in BOOLEAN, SetPaused(p)
      PROVE  AnchorLooseningStep
  BY <1>6, <1>k DEF SetPaused
<1>7. ASSUME NEW c \in Chains, NEW r \in Roots, RevokeAnchor(c, r)
      PROVE  AnchorLooseningStep
  BY <1>7, <1>k DEF RevokeAnchor
<1>8. ASSUME NEW n \in Notaries, NEW c \in Chains, NEW r \in Roots, NEW seq \in Seqs,
             Anchor(n, c, r, seq)
      PROVE  AnchorLooseningStep
  <2>1. setEpoch' = setEpoch /\ delay' = delay /\ monotonic' = monotonic
    BY <1>8 DEF Anchor
  <2>2. latest' \in [Chains -> Nat] /\ \A ch \in Chains : latest'[ch] >= latest[ch]
    BY <1>8, AnchorParts DEF TimelockInv
  <2>3. \A ch \in Chains : ~(latest'[ch] < latest[ch])
    BY <1>t, <2>2
  <2> QED
    BY <1>t, <2>1, <2>3 DEF AnchorLooseningStep
<1> QED
  BY <1>1, <1>2, <1>3, <1>4, <1>5, <1>6, <1>7, <1>8, QuietSteps DEF RootAnchorNext

-----------------------------------------------------------------------------
(* The quorum *)

\* Whose approval of the root counts under the present set and generation.
Approvers(c, r) == {n \in Notaries : stamp[c][r][n] = <<setEpoch, anchors[c][r].gen>>}

\* No stamp is of a set or a generation yet to come.
StampsPast(c, r) ==
  /\ anchors[c][r].set_epoch <= setEpoch
  /\ \A n \in Notaries : stamp[c][r][n] # Nil =>
       stamp[c][r][n][1] <= setEpoch /\ stamp[c][r][n][2] <= anchors[c][r].gen

\* The count of a root is the number of members whose approval counts, each of
\* whom named its sequence; a record of an earlier set has none.
ApprovalsCounted(c, r) ==
  /\ Cardinality(Approvers(c, r)) =
       IF anchors[c][r].set_epoch = setEpoch THEN anchors[c][r].approvals ELSE 0
  /\ \A n \in Approvers(c, r) :
       n \in Members(signers) /\ <<n, anchors[c][r].ledger_seq>> \in votes[c][r]

QuorumInv == \A c \in Chains, r \in Roots : StampsPast(c, r) /\ ApprovalsCounted(c, r)

LEMMA ApproversFinite ==
  ASSUME NEW c, NEW r
  PROVE  IsFiniteSet(Approvers(c, r)) /\ Cardinality(Approvers(c, r)) \in Nat
<1>1. Approvers(c, r) \in SUBSET Notaries /\ IsFiniteSet(Notaries)
  BY RootAnchorAssumption DEF Approvers
<1>2. IsFiniteSet(Approvers(c, r))
  BY <1>1, FS_Subset
<1> QED
  BY <1>2, FS_CardinalityType

\* With no approvals the count is zero.
LEMMA NobodyCounts ==
  ASSUME NEW c, NEW r, Approvers(c, r) = {},
         anchors[c][r].set_epoch = setEpoch => anchors[c][r].approvals = 0
  PROVE  ApprovalsCounted(c, r)
BY FS_EmptySet DEF ApprovalsCounted

LEMMA NobodyCountsPrimed ==
  \A c, r :
    Approvers(c, r)' = {} /\ (anchors'[c][r].set_epoch = setEpoch' => anchors'[c][r].approvals = 0)
      => ApprovalsCounted(c, r)'
<1> SUFFICES ASSUME NEW c, NEW r, Approvers(c, r)' = {},
                    anchors'[c][r].set_epoch = setEpoch' => anchors'[c][r].approvals = 0
             PROVE  ApprovalsCounted(c, r)'
  OBVIOUS
<1> QED
  BY FS_EmptySet DEF ApprovalsCounted

\* A root whose record, stamps and votes a step leaves alone, with the signers.
LEMMA QuorumUntouched ==
  ASSUME NEW c \in Chains, NEW r \in Roots, StampsPast(c, r), ApprovalsCounted(c, r),
         anchors'[c][r] = anchors[c][r], stamp'[c][r] = stamp[c][r], votes'[c][r] = votes[c][r],
         signers' = signers, setEpoch' = setEpoch
  PROVE  StampsPast(c, r)' /\ ApprovalsCounted(c, r)'
<1>1. Approvers(c, r)' = Approvers(c, r)
  BY DEF Approvers
<1> QED
  BY <1>1 DEF StampsPast, ApprovalsCounted

LEMMA QuorumInit == RootAnchorInit => QuorumInv
<1> SUFFICES ASSUME RootAnchorInit, NEW c \in Chains, NEW r \in Roots
             PROVE  StampsPast(c, r) /\ ApprovalsCounted(c, r)
  BY DEF QuorumInv
<1>1. /\ anchors[c][r] = NoRec /\ setEpoch = 1
      /\ \A n \in Notaries : stamp[c][r][n] = Nil
  BY DEF RootAnchorInit
<1>2. Approvers(c, r) = {}
  <2>1. <<1, 0>> # Nil
    BY RootAnchorAssumption
  <2>2. anchors[c][r].gen = 0
    BY <1>1 DEF NoRec
  <2> QED
    BY <1>1, <2>1, <2>2 DEF Approvers
<1>3. ApprovalsCounted(c, r)
  BY <1>1, <1>2, NobodyCounts DEF NoRec
<1> QED
  BY <1>1, <1>3 DEF StampsPast, NoRec

\* A rotation counts no approval given before it.
LEMMA RotationQuorum ==
  ASSUME RootAnchorTypeOK, QuorumInv, NEW s \in SignerSets, SetSigners(s[1], s[2])
  PROVE  QuorumInv'
<1> SUFFICES ASSUME NEW c \in Chains, NEW r \in Roots
             PROVE  StampsPast(c, r)' /\ ApprovalsCounted(c, r)'
  BY DEF QuorumInv
<1>1. setEpoch' = setEpoch + 1 /\ anchors' = anchors /\ stamp' = stamp
  BY RotationParts
<1>2. anchors[c][r] \in AnchorRec /\ setEpoch \in Nat
      /\ \A n \in Notaries : stamp[c][r][n] \in (Nat \X Nat) \cup {Nil}
  BY DEF RootAnchorTypeOK
<1>3. anchors[c][r].set_epoch \in Nat /\ anchors[c][r].gen \in Nat
  BY <1>2 DEF AnchorRec
<1>4. /\ anchors[c][r].set_epoch <= setEpoch
      /\ \A n \in Notaries : stamp[c][r][n] # Nil =>
           stamp[c][r][n][1] <= setEpoch /\ stamp[c][r][n][2] <= anchors[c][r].gen
  BY DEF QuorumInv, StampsPast
<1>5. \A n \in Notaries : stamp[c][r][n] # <<setEpoch + 1, anchors[c][r].gen>>
  <2> SUFFICES ASSUME NEW n \in Notaries, stamp[c][r][n] = <<setEpoch + 1, anchors[c][r].gen>>
               PROVE  FALSE
    OBVIOUS
  <2>1. stamp[c][r][n] \in Nat \X Nat
    BY <1>2, <1>3
  <2>2. stamp[c][r][n] # Nil /\ stamp[c][r][n][1] = setEpoch + 1
    BY <2>1, RootAnchorAssumption
  <2> QED
    BY <1>2, <1>4, <2>2
<1>6. Approvers(c, r)' = {}
  BY <1>1, <1>5 DEF Approvers
<1>7. anchors'[c][r].set_epoch # setEpoch'
  BY <1>1, <1>2, <1>3, <1>4
<1>8. ApprovalsCounted(c, r)'
  BY <1>6, <1>7, NobodyCountsPrimed
<1>9. StampsPast(c, r)'
  <2>1. anchors[c][r].set_epoch <= setEpoch + 1
    BY <1>2, <1>3, <1>4
  <2>2. ASSUME NEW n \in Notaries, stamp[c][r][n] # Nil
        PROVE  stamp[c][r][n][1] <= setEpoch + 1 /\ stamp[c][r][n][2] <= anchors[c][r].gen
    <3>1. stamp[c][r][n][1] \in Nat
      BY <1>2, <2>2
    <3> QED
      BY <1>2, <1>4, <2>2, <3>1
  <2> QED
    BY <1>1, <2>1, <2>2 DEF StampsPast
<1> QED
  BY <1>8, <1>9

\* A revocation counts none either, of that root.
LEMMA RevocationQuorum ==
  ASSUME RootAnchorTypeOK, QuorumInv, NEW c \in Chains, NEW r \in Roots, RevokeAnchor(c, r)
  PROVE  QuorumInv'
<1>1. PICK new \in AnchorRec :
        /\ anchors' = [anchors EXCEPT ![c][r] = new]
        /\ new.gen = anchors[c][r].gen + 1
        /\ new.set_epoch = anchors[c][r].set_epoch
        /\ new.approvals = 0 /\ ~new.anchored
        /\ votes' = [votes EXCEPT ![c][r] = {}]
        /\ UNCHANGED <<signers, threshold, setEpoch, monotonic, paused, delay, latest, stamp>>
  BY RevokeParts
<1>2. /\ anchors \in [Chains -> [Roots -> AnchorRec]]
      /\ votes \in [Chains -> [Roots -> SUBSET (Notaries \X Seqs)]]
      /\ anchors[c][r] \in AnchorRec /\ setEpoch \in Nat
      /\ \A n \in Notaries : stamp[c][r][n] \in (Nat \X Nat) \cup {Nil}
  BY DEF RootAnchorTypeOK
<1>3. anchors[c][r].set_epoch \in Nat /\ anchors[c][r].gen \in Nat
  BY <1>2 DEF AnchorRec
<1>4. anchors'[c][r] = new /\ setEpoch' = setEpoch /\ stamp' = stamp
  BY <1>1, <1>2
<1>5. /\ anchors[c][r].set_epoch <= setEpoch
      /\ \A n \in Notaries : stamp[c][r][n] # Nil =>
           stamp[c][r][n][1] <= setEpoch /\ stamp[c][r][n][2] <= anchors[c][r].gen
  BY DEF QuorumInv, StampsPast
<1>6. \A n \in Notaries : stamp[c][r][n] # <<setEpoch, new.gen>>
  <2> SUFFICES ASSUME NEW n \in Notaries, stamp[c][r][n] = <<setEpoch, new.gen>>
               PROVE  FALSE
    OBVIOUS
  <2>1. stamp[c][r][n] \in Nat \X Nat
    BY <1>1, <1>2, <1>3
  <2>2. stamp[c][r][n] # Nil /\ stamp[c][r][n][2] = anchors[c][r].gen + 1
    BY <1>1, <2>1, RootAnchorAssumption
  <2>3. stamp[c][r][n][2] <= anchors[c][r].gen
    BY <1>5, <2>2
  <2> QED
    BY <1>3, <2>2, <2>3
<1>7. Approvers(c, r)' = {}
  BY <1>4, <1>6 DEF Approvers
<1>8. ApprovalsCounted(c, r)'
  BY <1>1, <1>4, <1>7, NobodyCountsPrimed
<1>9. StampsPast(c, r)'
  <2>1. ASSUME NEW n \in Notaries, stamp[c][r][n] # Nil
        PROVE  stamp[c][r][n][1] <= setEpoch /\ stamp[c][r][n][2] <= new.gen
    <3>1. stamp[c][r][n][2] \in Nat
      BY <1>2, <2>1
    <3> QED
      BY <1>1, <1>3, <1>5, <2>1, <3>1
  <2> QED
    BY <1>1, <1>4, <1>5, <2>1 DEF StampsPast
<1>10. ASSUME NEW ch \in Chains, NEW ro \in Roots, <<ch, ro>> # <<c, r>>
       PROVE  StampsPast(ch, ro)' /\ ApprovalsCounted(ch, ro)'
  <2>1. anchors'[ch][ro] = anchors[ch][ro] /\ votes'[ch][ro] = votes[ch][ro]
    BY <1>1, <1>2, <1>10
  <2> QED
    BY <1>1, <2>1, QuorumUntouched DEF QuorumInv
<1> QED
  BY <1>8, <1>9, <1>10 DEF QuorumInv

\* An approval adds its signer to those that count, if not there already.
LEMMA ApprovalQuorum ==
  ASSUME RootAnchorTypeOK, TimelockTypeOK, QuorumInv,
         NEW n \in Notaries, NEW c \in Chains, NEW r \in Roots, NEW seq \in Seqs,
         Anchor(n, c, r, seq)
  PROVE  QuorumInv'
<1> DEFINE rec == CurrentRec(c, r)
<1>1. PICK new \in AnchorRec :
        /\ anchors' = [anchors EXCEPT ![c][r] = new]
        /\ stamp' = [stamp EXCEPT ![c][r][n] = <<setEpoch, rec.gen>>]
        /\ votes' = [votes EXCEPT ![c][r] = @ \cup {<<n, seq>>}]
        /\ new.gen = rec.gen /\ new.set_epoch = setEpoch
        /\ new.approvals = CountApproval(c, r, n, rec)
        /\ new.ledger_seq = seq
        /\ rec.approvals # 0 => rec.ledger_seq = seq
        /\ n \in Members(signers)
        /\ UNCHANGED <<signers, threshold, setEpoch, monotonic, paused, delay>>
  BY AnchorParts
<1>2. /\ anchors \in [Chains -> [Roots -> AnchorRec]]
      /\ votes \in [Chains -> [Roots -> SUBSET (Notaries \X Seqs)]]
      /\ stamp \in [Chains -> [Roots -> [Notaries -> (Nat \X Nat) \cup {Nil}]]]
      /\ anchors[c][r] \in AnchorRec /\ setEpoch \in Nat
  BY DEF RootAnchorTypeOK
<1>3. /\ rec \in AnchorRec /\ rec.set_epoch = setEpoch
      /\ rec.gen = anchors[c][r].gen /\ rec.ledger_seq = anchors[c][r].ledger_seq
      /\ rec.approvals = IF anchors[c][r].set_epoch = setEpoch
                         THEN anchors[c][r].approvals ELSE 0
  BY CurrentRecType
<1> DEFINE mark == <<setEpoch, anchors[c][r].gen>>
<1>4. /\ anchors'[c][r] = new /\ setEpoch' = setEpoch /\ signers' = signers
      /\ stamp'[c][r] = [stamp[c][r] EXCEPT ![n] = mark]
      /\ votes'[c][r] = votes[c][r] \cup {<<n, seq>>}
  BY <1>1, <1>2, <1>3
<1>5. mark \in Nat \X Nat /\ mark # Nil /\ mark[1] = setEpoch /\ mark[2] = anchors[c][r].gen
  BY <1>2, RootAnchorAssumption DEF AnchorRec
<1>6. /\ Approvers(c, r) = {m \in Notaries : stamp[c][r][m] = mark}
      /\ Approvers(c, r)' = {m \in Notaries : stamp'[c][r][m] = mark}
  BY <1>1, <1>3, <1>4 DEF Approvers
<1>7. Cardinality(Approvers(c, r)) = rec.approvals
      /\ \A m \in Approvers(c, r) :
           m \in Members(signers) /\ <<m, anchors[c][r].ledger_seq>> \in votes[c][r]
  BY <1>3 DEF QuorumInv, ApprovalsCounted
<1>8. CountApproval(c, r, n, rec) =
        IF stamp[c][r][n] = mark THEN rec.approvals ELSE rec.approvals + 1
  BY <1>3 DEF CountApproval, Stamp
<1> HIDE DEF mark, rec
<1>9. Approvers(c, r)' = Approvers(c, r) \cup {n}
  BY <1>2, <1>4, <1>6
<1>10. n \in Approvers(c, r) <=> stamp[c][r][n] = mark
  BY <1>6
<1>11. Cardinality(Approvers(c, r)') = new.approvals
  <2>1. Cardinality(Approvers(c, r) \cup {n}) =
          IF n \in Approvers(c, r) THEN Cardinality(Approvers(c, r))
                                   ELSE Cardinality(Approvers(c, r)) + 1
    BY ApproversFinite, FS_AddElement
  <2> QED
    BY <1>1, <1>7, <1>8, <1>9, <1>10, <2>1
<1>12. ASSUME NEW m \in Approvers(c, r)'
       PROVE  m \in Members(signers) /\ <<m, seq>> \in votes[c][r] \cup {<<n, seq>>}
  <2>1. CASE m = n
    BY <1>1, <2>1
  <2>2. CASE m # n
    <3>1. m \in Approvers(c, r)
      BY <1>9, <1>12, <2>2
    <3>2. rec.approvals # 0
      BY <1>7, <3>1, ApproversFinite, FS_EmptySet
    <3> QED
      BY <1>1, <1>3, <1>7, <3>1, <3>2
  <2> QED
    BY <2>1, <2>2
<1>13. ApprovalsCounted(c, r)'
  BY <1>1, <1>4, <1>11, <1>12 DEF ApprovalsCounted
<1>14. StampsPast(c, r)'
  <2>1. \A m \in Notaries : stamp[c][r][m] # Nil =>
          stamp[c][r][m][1] <= setEpoch /\ stamp[c][r][m][2] <= anchors[c][r].gen
    BY DEF QuorumInv, StampsPast
  <2>2. anchors[c][r].gen \in Nat
    BY <1>2 DEF AnchorRec
  <2>3. ASSUME NEW m \in Notaries, stamp'[c][r][m] # Nil
        PROVE  stamp'[c][r][m][1] <= setEpoch /\ stamp'[c][r][m][2] <= new.gen
    <3>1. stamp'[c][r][m] = IF m = n THEN mark ELSE stamp[c][r][m]
      BY <1>2, <1>4
    <3> QED
      BY <1>1, <1>2, <1>3, <1>5, <2>1, <2>2, <2>3, <3>1
  <2> QED
    BY <1>1, <1>2, <1>4, <2>3 DEF StampsPast
<1>15. ASSUME NEW ch \in Chains, NEW ro \in Roots, <<ch, ro>> # <<c, r>>
       PROVE  StampsPast(ch, ro)' /\ ApprovalsCounted(ch, ro)'
  <2>1. anchors'[ch][ro] = anchors[ch][ro] /\ votes'[ch][ro] = votes[ch][ro]
        /\ stamp'[ch][ro] = stamp[ch][ro]
    BY <1>1, <1>2, <1>15
  <2> QED
    BY <1>1, <2>1, QuorumUntouched DEF QuorumInv
<1> QED
  BY <1>13, <1>14, <1>15 DEF QuorumInv

LEMMA QuorumStepInv ==
  ASSUME RootAnchorTypeOK, TimelockTypeOK, QuorumInv, [RootAnchorNext]_rootAnchorVars
  PROVE  QuorumInv'
<1> DEFINE Kept == UNCHANGED <<signers, setEpoch, anchors, stamp, votes>>
<1>k. Kept => QuorumInv'
  BY QuorumUntouched DEF QuorumInv
<1>1. CASE UNCHANGED anchorVars
  BY <1>1, <1>k DEF anchorVars
<1>2. ASSUME NEW c \in Chains, NEW seq \in Seqs \cup {0}, ResetLatestSeq(c, seq)
      PROVE  QuorumInv'
  BY <1>2, <1>k, SettersParts
<1>3. ASSUME NEW c \in Chains, NEW d \in AnchorDelays, SetAnchorDelay(c, d)
      PROVE  QuorumInv'
  BY <1>3, <1>k, SettersParts
<1>4. ASSUME NEW on \in BOOLEAN, SetMonotonic(on)
      PROVE  QuorumInv'
  BY <1>4, <1>k, SettersParts
<1>5. ASSUME NEW p \in BOOLEAN, SetPaused(p)
      PROVE  QuorumInv'
  BY <1>5, <1>k DEF SetPaused
<1>6. ASSUME NEW s \in SignerSets, SetSigners(s[1], s[2])
      PROVE  QuorumInv'
  BY <1>6, RotationQuorum
<1>7. ASSUME NEW c \in Chains, NEW r \in Roots, RevokeAnchor(c, r)
      PROVE  QuorumInv'
  BY <1>7, RevocationQuorum
<1>8. ASSUME NEW n \in Notaries, NEW c \in Chains, NEW r \in Roots, NEW seq \in Seqs,
             Anchor(n, c, r, seq)
      PROVE  QuorumInv'
  BY <1>8, ApprovalQuorum
<1> QED
  BY <1>1, <1>2, <1>3, <1>4, <1>5, <1>6, <1>7, <1>8, QuietSteps DEF RootAnchorNext

\* Only an approval that reaches the threshold anchors a root.
LEMMA AnchoredByApproval ==
  ASSUME RootAnchorTypeOK, TimelockTypeOK, [RootAnchorNext]_rootAnchorVars,
         NEW c \in Chains, NEW r \in Roots,
         ~anchors[c][r].anchored, anchors'[c][r].anchored
  PROVE  /\ anchors'[c][r].approvals >= threshold'
         /\ anchors'[c][r].set_epoch = setEpoch'
<1>1. anchors'[c][r] # anchors[c][r]
  OBVIOUS
<1>2. anchors \in [Chains -> [Roots -> AnchorRec]]
  BY DEF RootAnchorTypeOK
<1>3. CASE UNCHANGED anchorVars
  BY <1>1, <1>3 DEF anchorVars
<1>4. ASSUME \/ \E ch, seq : ResetLatestSeq(ch, seq)
             \/ \E ch, d : SetAnchorDelay(ch, d)
             \/ \E on : SetMonotonic(on)
             \/ \E p : SetPaused(p)
             \/ \E s \in SignerSets : SetSigners(s[1], s[2])
      PROVE  FALSE
  BY <1>1, <1>4, SettersParts, RotationParts DEF SetPaused
<1>5. ASSUME NEW ch \in Chains, NEW ro \in Roots, RevokeAnchor(ch, ro)
      PROVE  FALSE
  <2>1. PICK new \in AnchorRec : anchors' = [anchors EXCEPT ![ch][ro] = new] /\ ~new.anchored
    BY <1>5, RevokeParts
  <2>2. anchors'[c][r] = IF c = ch /\ r = ro THEN new ELSE anchors[c][r]
    BY <1>2, <2>1
  <2> QED
    BY <1>1, <2>1, <2>2
<1>6. ASSUME NEW n \in Notaries, NEW ch \in Chains, NEW ro \in Roots, NEW seq \in Seqs,
             Anchor(n, ch, ro, seq)
      PROVE  /\ anchors'[c][r].approvals >= threshold'
             /\ anchors'[c][r].set_epoch = setEpoch'
  <2>1. PICK new \in AnchorRec :
          /\ anchors' = [anchors EXCEPT ![ch][ro] = new]
          /\ new.set_epoch = setEpoch
          /\ new.anchored => new.approvals >= threshold
          /\ setEpoch' = setEpoch /\ threshold' = threshold
    BY <1>6, AnchorParts
  <2>2. anchors'[c][r] = IF c = ch /\ r = ro THEN new ELSE anchors[c][r]
    BY <1>2, <2>1
  <2> QED
    BY <1>1, <2>1, <2>2
<1> QED
  BY <1>3, <1>4, <1>5, <1>6, QuietSteps DEF RootAnchorNext

LEMMA QuorumHolds ==
  ASSUME RootAnchorTypeOK, TimelockTypeOK, QuorumInv, [RootAnchorNext]_rootAnchorVars
  PROVE  QuorumStep
<1>1. RootAnchorTypeOK' /\ QuorumInv'
  BY RootAnchorStepTypes, QuorumStepInv
<1> SUFFICES ASSUME NEW c \in Chains, NEW r \in Roots,
                    ~anchors[c][r].anchored, anchors'[c][r].anchored
             PROVE  Cardinality({n \in Members(signers') :
                       <<n, anchors'[c][r].ledger_seq>> \in votes'[c][r]}) >= threshold'
  BY DEF QuorumStep
<1> DEFINE Behind == {n \in Members(signers') :
                        <<n, anchors'[c][r].ledger_seq>> \in votes'[c][r]}
<1>2. Cardinality(Approvers(c, r)') >= threshold'
  BY <1>1, AnchoredByApproval DEF QuorumInv, ApprovalsCounted
<1>3. Approvers(c, r)' \in SUBSET Behind
  BY <1>1 DEF QuorumInv, ApprovalsCounted
<1>4. IsFiniteSet(Behind)
  <2>1. signers' \in Seq(Notaries)
    BY <1>1 DEF RootAnchorTypeOK
  <2>2. Behind \in SUBSET Notaries
    BY <2>1, MembersAreNotaries
  <2> HIDE DEF Behind
  <2> QED
    BY <2>2, FS_Subset, RootAnchorAssumption
<1> HIDE DEF Behind
<1>5. Cardinality(Approvers(c, r)') <= Cardinality(Behind)
  BY <1>3, <1>4, FS_Subset
<1>6. IsFiniteSet(Approvers(c, r)')
  BY <1>3, <1>4, FS_Subset
<1>7. Cardinality(Approvers(c, r)') \in Nat /\ Cardinality(Behind) \in Nat /\ threshold' \in Nat
  BY <1>1, <1>4, <1>6, FS_CardinalityType DEF RootAnchorTypeOK
<1>8. Cardinality(Behind) >= threshold'
  BY <1>2, <1>5, <1>7
<1> QED
  BY <1>8 DEF Behind

-----------------------------------------------------------------------------
(* The theorems *)

RootAnchorInv == TimelockInv /\ RootAnchorTypeOK /\ QuorumInv

LEMMA RootAnchorInvariant == RootAnchorSpec => []RootAnchorInv
<1>1. TimelockInit /\ RootAnchorInit => RootAnchorInv
  BY TimelockInitOK, RootAnchorInitTypes, QuorumInit DEF RootAnchorInv
<1>2. RootAnchorInv /\ [RootAnchorNext]_rootAnchorVars => RootAnchorInv'
  BY TimelockStep, RootAnchorStepTypes, QuorumStepInv DEF RootAnchorInv, TimelockInv
<1> QED
  BY <1>1, <1>2, PTL DEF RootAnchorSpec

\* The anchor's records, pins, delays and notices keep their types (lib.rs's
\* AnchorRecord and the timelock's storage), for any signers and any roots.
THEOREM RootAnchorTypes == RootAnchorSpec => [](RootAnchorTypeOK /\ TimelockTypeOK)
<1>1. RootAnchorInv => RootAnchorTypeOK /\ TimelockTypeOK
  BY DEF RootAnchorInv, TimelockInv
<1> QED
  BY <1>1, RootAnchorInvariant, PTL

\* Under the delay no setter loosens trust without a notice that stands: given
\* by the present admin for that call, unspent, unbraked and of the right age.
THEOREM LooseningIsAnnounced == RootAnchorSpec => AnchorLooseningAnnounced
<1>1. RootAnchorInv /\ [RootAnchorNext]_rootAnchorVars => AnchorLooseningStep
  BY LooseningStep DEF RootAnchorInv
<1>2. RootAnchorInv /\ [RootAnchorNext]_rootAnchorVars => [AnchorLooseningStep]_rootAnchorVars
  BY <1>1
<1> QED
  BY <1>2, RootAnchorInvariant, PTL DEF RootAnchorSpec, AnchorLooseningAnnounced

\* Every root is anchored by a threshold of distinct present signers who all
\* named its sequence since the last rotation and its last revocation.
THEOREM AnchoredByQuorum == RootAnchorSpec => QuorumAnchors
<1>1. RootAnchorInv /\ [RootAnchorNext]_rootAnchorVars => [QuorumStep]_rootAnchorVars
  BY QuorumHolds DEF RootAnchorInv, TimelockInv
<1> QED
  BY <1>1, RootAnchorInvariant, PTL DEF RootAnchorSpec, QuorumAnchors

\* Under the delay nobody starts appending to a chain's tree, and no escrow
\* starts or stops, without a notice that stands (set_manager,
\* set_escrow_appender).  Appending itself changes none of these variables, so
\* a behaviour of MerkleManager is one of this specification.
THEOREM AppendersNeedNotice == MerkleAppendersSpec => AppendersAnnounced
<1>1. TimelockInit => TimelockInv
  BY TimelockInitOK
<1>2. TimelockInv /\ [AppendersNext]_merkleAppendersVars => TimelockInv'
  BY AppendersKeepTimelock
<1>3. TimelockInv /\ [AppendersNext]_merkleAppendersVars => [AppenderStep]_merkleAppendersVars
  BY AppendersStep
<1> QED
  BY <1>1, <1>2, <1>3, PTL DEF MerkleAppendersSpec, AppendersAnnounced

===============================================================================
