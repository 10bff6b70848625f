---------------------------- MODULE MerkleManager ----------------------------
(***************************************************************************)
(* The contract around the range: those who may append, and the roots it   *)
(* keeps for every width.                                                  *)
(***************************************************************************)
EXTENDS MerkleAppenders, MMR

CONSTANT Appends    \* bound: the <<order hash, side>> of each append in turn

VARIABLES
  nodes,            \* [1..size -> hash], Zero where none is stored
  width,
  root,
  history,          \* [0..width -> root]
  leaves            \* history: the values appended

treeVars == <<nodes, width, root, history, leaves>>

Positions == 1..CalcSize(Len(Appends))

\* initialize
MerkleManagerInit ==
  /\ AppendersInit
  /\ nodes = [i \in Positions |-> Zero]
  /\ width = 0
  /\ root = Zero
  /\ history = <<>>
  /\ leaves = <<>>

\* append_order_hash
AppendOrderHash(m) ==
  LET data == EncodeLeaf(Appends[width + 1][1], Appends[width + 1][2])
      next == AppendNodes(nodes, width + 1, data)
      bag  == PeakBagging(width + 1, Peaks(next, width + 1))
  IN /\ width < Len(Appends)
     /\ m \in managers
     /\ width' = width + 1
     /\ nodes' = next
     /\ root' = bag
     /\ history' = Append(history, bag)
     /\ leaves' = Append(leaves, data)
     /\ UNCHANGED merkleAppendersVars

MerkleManagerNext ==
  \/ AppendersNext /\ UNCHANGED treeVars
  \/ \E m \in Appenders : AppendOrderHash(m)

merkleVars == <<appenderVars, treeVars>>

merkleManagerVars == <<timelockVars, merkleVars>>

-----------------------------------------------------------------------------

\* After every append each leaf so far, however old, proves itself against the
\* new root, and at its position no other value does, nor it at another's.
ProofStep ==
  \A k, j \in 1..width' :
    LET p == MerkleProof(nodes', width', LeafIndex(k)) IN
    VerifyInclusion(root', width', LeafIndex(j), leaves'[k], p.bag, p.siblings)
      <=> j = k

EveryLeafProves == [][width' # width => ProofStep]_merkleManagerVars

\* Every stored root, the current and the historical, is the one its prefix of
\* the leaves commits to by definition, at powers of two and between them: the
\* cache never serves a node of an older shape.
RootsStep ==
  \A w \in 1..width' : history'[w] = ReferenceRoot(SubSeq(leaves', 1, w))

RootsCommitToPrefix == [][width' # width => RootsStep]_merkleManagerVars
==============================================================================
