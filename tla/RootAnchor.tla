------------------------------ MODULE RootAnchor ------------------------------
(***************************************************************************)
(* The notary of source-chain roots: a signer set approves a root at a     *)
(* ledger sequence until a threshold, after which the root is usable once  *)
(* it has aged the route's delay.  Records of a root that was never seen   *)
(* are the zero record.                                                    *)
(***************************************************************************)
EXTENDS Timelock, Sequences

CONSTANTS
  Chains,           \* source chains
  Roots,            \* the roots their publishers may name
  Notaries,         \* every address that may ever be a signer
  Seqs,             \* ledger sequences, positive
  AnchorDelays,     \* delays the admin may try, above the maximum too
  MaxAnchorDelay,   \* MAX_ANCHOR_DELAY
  SignerSets,       \* the <<signers, threshold>> the admin may try
  MaxSetEpoch,      \* bound: rotations
  MaxGen            \* bound: revocations of one root

VARIABLES
  signers,          \* the notary list
  threshold,
  setEpoch,         \* bumped by every rotation
  monotonic,
  paused,
  delay,            \* [Chains -> Nat]
  latest,           \* [Chains -> Nat], highest sequence anchored
  anchors,          \* [Chains -> [Roots -> AnchorRec]]
  stamp,            \* [Chains -> [Roots -> [Notaries -> <<setEpoch, gen>>]]]
  votes             \* history: who named which sequence, since a rotation or
                    \* a revocation of the root

anchorVars ==
  <<signers, threshold, setEpoch, monotonic, paused, delay, latest, anchors,
    stamp, votes>>

AnchorRec ==
  [ledger_seq : Nat, anchored : BOOLEAN, anchored_at : Nat, approvals : Nat,
   set_epoch : Nat, gen : Nat]

NoRec ==
  [ledger_seq |-> 0, anchored |-> FALSE, anchored_at |-> 0, approvals |-> 0,
   set_epoch |-> 0, gen |-> 0]

Members(list) == {list[i] : i \in 1..Len(list)}

\* apply_signers' checks: no repeats, and a threshold the set can reach.
SignersOK(list, t) ==
  /\ Cardinality(Members(list)) = Len(list)
  /\ t \in 1..Len(list)

NoVotes == [c \in Chains |-> [r \in Roots |-> {}]]

\* initialize
RootAnchorInit ==
  /\ \E s \in SignerSets :
       SignersOK(s[1], s[2]) /\ signers = s[1] /\ threshold = s[2]
  /\ setEpoch = 1
  /\ monotonic = TRUE
  /\ paused = FALSE
  /\ delay = [c \in Chains |-> 0]
  /\ latest = [c \in Chains |-> 0]
  /\ anchors = [c \in Chains |-> [r \in Roots |-> NoRec]]
  /\ stamp = [c \in Chains |-> [r \in Roots |-> [n \in Notaries |-> Nil]]]
  /\ votes = NoVotes

-----------------------------------------------------------------------------

\* pause, unpause: anchor alone looks at it.
SetPaused(p) ==
  /\ paused' = p
  /\ UNCHANGED <<signers, threshold, setEpoch, monotonic, delay, latest,
                 anchors, stamp, votes>>
  /\ UNCHANGED timelockVars

AnchorTransferAdmin ==
  NameSuccessor /\ UNCHANGED anchorVars

AnchorAcceptAdmin ==
  AcceptAndBumpEpoch /\ UNCHANGED anchorVars

AnchorActivateTimelock ==
  Activate /\ UNCHANGED anchorVars

AnchorProposeAction(call) ==
  Propose(call) /\ UNCHANGED anchorVars

AnchorCancelAction(call) ==
  Cancel(call) /\ UNCHANGED anchorVars

\* set_signers: the gate, then apply_signers, whose refusal undoes the gate.
SetSigners(list, t) ==
  /\ Gate(<<"set_signers", list, t>>)
  /\ SignersOK(list, t)
  /\ setEpoch < MaxSetEpoch
  /\ signers' = list
  /\ threshold' = t
  /\ setEpoch' = setEpoch + 1
  /\ votes' = NoVotes
  /\ UNCHANGED <<monotonic, paused, delay, latest, anchors, stamp>>

\* revoke_anchor: the next generation of a root that has any work on it.
RevokeAnchor(c, r) ==
  /\ anchors[c][r].anchored \/ anchors[c][r].approvals # 0
  /\ anchors[c][r].gen < MaxGen
  /\ anchors' = [anchors EXCEPT ![c][r] =
                   [anchors[c][r] EXCEPT !.gen = @ + 1, !.approvals = 0,
                                         !.anchored = FALSE, !.anchored_at = 0,
                                         !.ledger_seq = 0]]
  /\ votes' = [votes EXCEPT ![c][r] = {}]
  /\ UNCHANGED <<signers, threshold, setEpoch, monotonic, paused, delay, latest,
                 stamp>>
  /\ UNCHANGED timelockVars

\* reset_latest_seq: raising the pin is a brake, lowering it waits.
ResetLatestSeq(c, seq) ==
  /\ GateUnless(seq >= latest[c], <<"reset_latest_seq", c, seq>>)
  /\ latest' = [latest EXCEPT ![c] = seq]
  /\ UNCHANGED <<signers, threshold, setEpoch, monotonic, paused, delay, anchors,
                 stamp, votes>>

\* set_anchor_delay: a raise is a brake, a cut waits; both are bounded.
SetAnchorDelay(c, d) ==
  /\ GateUnless(d >= delay[c], <<"set_anchor_delay", c, d>>)
  /\ d <= MaxAnchorDelay
  /\ delay' = [delay EXCEPT ![c] = d]
  /\ UNCHANGED <<signers, threshold, setEpoch, monotonic, paused, latest, anchors,
                 stamp, votes>>

\* set_monotonic: on is a brake, off waits.
SetMonotonic(on) ==
  /\ GateUnless(on, <<"set_monotonic", Nil, on>>)
  /\ monotonic' = on
  /\ UNCHANGED <<signers, threshold, setEpoch, paused, delay, latest, anchors,
                 stamp, votes>>

-----------------------------------------------------------------------------

\* Approvals carried over from an earlier signer set do not count.
CurrentRec(c, r) ==
  IF anchors[c][r].set_epoch # setEpoch
  THEN [anchors[c][r] EXCEPT !.set_epoch = setEpoch, !.approvals = 0]
  ELSE anchors[c][r]

Stamp(rec) == <<rec.set_epoch, rec.gen>>

\* Mutant: a repeat approval is counted.
RecountApproval(c, r, signer, rec) == rec.approvals + 1

\* The count after this signer's approval: a repeat adds nothing.
CountApproval(c, r, signer, rec) ==
  IF stamp[c][r][signer] = Stamp(rec) THEN rec.approvals ELSE rec.approvals + 1

\* anchor: refused calls change nothing, and re-anchoring is a no-op.
Anchor(signer, c, r, seq) ==
  LET rec   == CurrentRec(c, r)
      first == rec.approvals = 0
      at    == IF first THEN seq ELSE rec.ledger_seq
      count == CountApproval(c, r, signer, rec)
      done  == count >= threshold
  IN /\ ~paused
     /\ signer \in Members(signers)
     /\ ~rec.anchored
     /\ IF first THEN monotonic => seq > latest[c] ELSE seq = rec.ledger_seq
     /\ done /\ monotonic => at > latest[c]
     /\ stamp' = [stamp EXCEPT ![c][r][signer] = Stamp(rec)]
     /\ anchors' = [anchors EXCEPT ![c][r] =
                      [rec EXCEPT !.ledger_seq = at, !.approvals = count,
                                  !.anchored = done,
                                  !.anchored_at = IF done THEN now ELSE @]]
     /\ latest' = [latest EXCEPT ![c] = IF done /\ at > @ THEN at ELSE @]
     /\ votes' = [votes EXCEPT ![c][r] = @ \cup {<<signer, seq>>}]
     /\ UNCHANGED <<signers, threshold, setEpoch, monotonic, paused, delay>>
     /\ UNCHANGED timelockVars

\* is_anchored: the delay in force now, not the one at anchoring.
IsAnchored(c, r) ==
  /\ anchors[c][r].anchored
  /\ now >= anchors[c][r].anchored_at
  /\ now - anchors[c][r].anchored_at >= delay[c]

RootAnchorNext ==
  \/ Tick /\ UNCHANGED anchorVars
  \/ \E p \in BOOLEAN : SetPaused(p)
  \/ AnchorTransferAdmin
  \/ AnchorAcceptAdmin
  \/ AnchorActivateTimelock
  \/ \E call \in Calls : AnchorProposeAction(call)
  \/ \E call \in Calls : AnchorCancelAction(call)
  \/ \E s \in SignerSets : SetSigners(s[1], s[2])
  \/ \E c \in Chains, r \in Roots : RevokeAnchor(c, r)
  \/ \E c \in Chains, seq \in Seqs \cup {0} : ResetLatestSeq(c, seq)
  \/ \E c \in Chains, d \in AnchorDelays : SetAnchorDelay(c, d)
  \/ \E on \in BOOLEAN : SetMonotonic(on)
  \/ \E n \in Notaries, c \in Chains, r \in Roots, seq \in Seqs : Anchor(n, c, r, seq)

rootAnchorVars == <<timelockVars, anchorVars>>

RootAnchorSpec == TimelockInit /\ RootAnchorInit /\ [][RootAnchorNext]_rootAnchorVars

-----------------------------------------------------------------------------

RootAnchorTypeOK ==
  /\ signers \in Seq(Notaries)
  /\ threshold \in Nat \ {0}
  /\ setEpoch \in Nat \ {0}
  /\ monotonic \in BOOLEAN
  /\ paused \in BOOLEAN
  /\ delay \in [Chains -> 0..MaxAnchorDelay]
  /\ latest \in [Chains -> Nat]
  /\ anchors \in [Chains -> [Roots -> AnchorRec]]
  /\ stamp \in [Chains -> [Roots -> [Notaries -> (Nat \X Nat) \cup {Nil}]]]
  /\ votes \in [Chains -> [Roots -> SUBSET (Notaries \X Seqs)]]

\* Once the bypass is closed, no step loosens trust (installs a signer set,
\* lowers a delay or a sequence pin, stops the sequence check) unless a notice
\* for exactly that call stands: given by the present admin, not withdrawn, not
\* used before, not overtaken by a brake on the same thing, and of the right age.
AnchorLooseningStep ==
  active =>
    /\ setEpoch' # setEpoch => Announced(<<"set_signers", signers', threshold'>>)
    /\ \A c \in Chains :
         /\ latest'[c] < latest[c] => Announced(<<"reset_latest_seq", c, latest'[c]>>)
         /\ delay'[c] < delay[c] => Announced(<<"set_anchor_delay", c, delay'[c]>>)
    /\ monotonic /\ ~monotonic' => Announced(<<"set_monotonic", Nil, FALSE>>)

AnchorLooseningAnnounced == [][AnchorLooseningStep]_rootAnchorVars

\* A root becomes anchored only on the word of a threshold of distinct members
\* of the present signer set, who all named its sequence, since the last
\* rotation and the last revocation of that root: no rotation, revocation or
\* repeat lets old work count (2.3f A1, D1).
QuorumStep ==
  \A c \in Chains, r \in Roots :
    ~anchors[c][r].anchored /\ anchors'[c][r].anchored =>
      Cardinality({n \in Members(signers') :
                     <<n, anchors'[c][r].ledger_seq>> \in votes'[c][r]}) >= threshold'

QuorumAnchors == [][QuorumStep]_rootAnchorVars

ASSUME RootAnchorAssumption ==
  /\ Seqs \subseteq Nat \ {0}
  /\ AnchorDelays \subseteq Nat /\ MaxAnchorDelay \in Nat
  /\ IsFiniteSet(Notaries)
  /\ SignerSets \subseteq Seq(Notaries) \X Nat
  /\ MaxSetEpoch \in Nat /\ MaxGen \in Nat
  /\ Nil \notin Nat \X Nat
===============================================================================
