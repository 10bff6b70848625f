----------------------------- MODULE MCTimelocked -----------------------------
(***************************************************************************)
(* The two contracts whose admin setters wait the 24-hour delay.  A        *)
(* behaviour runs one of them: they share nothing but the timelock's code. *)
(***************************************************************************)
EXTENDS RootAnchor, MerkleManager

VARIABLE contract

AnchorCalls ==
  { <<"set_signers", <<"n1">>, 1>>, <<"set_signers", <<"n2", "n3">>, 2>>,
    <<"set_anchor_delay", "c1", 0>>, <<"set_anchor_delay", "c1", 1>>,
    <<"reset_latest_seq", "c1", 1>>, <<"set_monotonic", Nil, FALSE>> }

MerkleCalls ==
  { <<"set_manager", "registrar", TRUE>>, <<"set_escrow_appender", "escrow", TRUE>>,
    <<"set_escrow_appender", "escrow", FALSE>>, <<"set_escrow_appender", "registrar", TRUE>> }

MCCalls == AnchorCalls \cup MerkleCalls

MCSignerSets ==
  { <<<<"n1">>, 1>>, <<<<"n1", "n2">>, 2>>, <<<<"n2", "n3">>, 2>>, <<<<"n1", "n1">>, 2>> }

\* Order hashes above the field's modulus too, and one hash on both sides.
MCAppends ==
  << <<Field(101), 1>>, <<Field(101), 0>>, <<Field(1102), 1>>, <<Field(103), 0>>,
     <<Field(104), 1>>, <<Field(105), 1>>, <<Field(106), 0>>, <<Field(107), 1>>,
     <<Field(108), 0>> >>

\* The scenarios.  "quorum": the notaries at work during setup, where the
\* admin's setters are instant.  One for each setter of the anchor under the
\* delay, which share no proposal and no brake key, with one notary and root.
\* "merkle": the other contract; the tree grows tall during setup only.
AnchorSetters == {call[1] : call \in AnchorCalls}

TimelockedInit ==
  /\ contract \in {"quorum", "merkle"} \cup AnchorSetters
  /\ TimelockInit
  /\ RootAnchorInit
  /\ contract = "merkle" => signers = <<"n1">>
  /\ MerkleManagerInit

SetupOnly ==
  ~active' /\ now' = now /\ ~handover' /\ ~paused' /\ delay' = delay /\ brakes' = brakes

OneSetter(fn) ==
  /\ \A k \in Keys : brakes'[k] # brakes[k] => k[1] = fn
  /\ \A call \in Calls : proposals'[call] # Nil => call[1] = fn
  /\ setEpoch' # setEpoch => fn = "set_signers"
  /\ monotonic' # monotonic => fn = "set_monotonic"
  /\ paused' => fn = "set_monotonic"
  /\ \A c \in Chains, r \in Roots :
       anchors'[c][r] # NoRec => r = "r1" /\ anchors'[c][r].gen = 0
  /\ \A c \in Chains, r \in Roots : votes'[c][r] \subseteq {"n1"} \X Seqs

TreeBeforeDelay == active' \/ now' > 1 => width' <= 1

TimelockedNext ==
  \/ contract = "quorum" /\ RootAnchorNext /\ SetupOnly /\ UNCHANGED <<contract, merkleVars>>
  \/ \E fn \in AnchorSetters :
       contract = fn /\ RootAnchorNext /\ OneSetter(fn) /\ UNCHANGED <<contract, merkleVars>>
  \/ contract = "merkle" /\ MerkleManagerNext /\ TreeBeforeDelay
     /\ UNCHANGED <<contract, anchorVars>>

timelockedVars == <<contract, timelockVars, anchorVars, merkleVars>>

TimelockedSpec == TimelockedInit /\ [][TimelockedNext]_timelockedVars
===============================================================================
