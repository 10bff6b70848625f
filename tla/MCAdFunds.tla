------------------------------ MODULE MCAdFunds ------------------------------
(***************************************************************************)
(* The ad chain's money on the small instances of MCAdManager.  A run      *)
(* follows one of two stories: two orders draw on one ad while its maker   *)
(* funds, withdraws and closes it; or one order lives while every term it  *)
(* was locked under is rewritten (fees, pools, routes, pause, signer,      *)
(* approvals, module).  Both together are more states than TLC holds.      *)
(***************************************************************************)
EXTENDS MCAdManager

CONSTANT MaxTermsTime   \* bound: the clock where the terms move

VARIABLE focus          \* which of the two moves, chosen at the start

mcVars == <<adChainVars, focus>>

FundsMove ==
  /\ UNCHANGED <<adPaused, adFees, adPool, adChain, adRoute, approved, dmEscrows, dmParams>>
  /\ \A a \in Ads : ad'[a] # Nil => ad'[a].signer = "signer"

\* What a lock needs open, and whether it is shut.
Gates ==
  {<<"pause", adPaused>>, <<"chain", ~adChain>>, <<"route", ~adRoute>>}
    \cup {<<s, approved[HomeRegistry][s] = {}>> : s \in Signers}

\* One order, on an ad that holds just what it reserves; one gate is shut at a
\* time, as each refuses a lock on its own.
TermsMove ==
  /\ adStatus'["o2"] = "None"
  /\ orderAnchored'[<<"o2", "SETTLED">>] = 0
  /\ \A a \in Ads : funded'[a] <= Amount["o1"]
  /\ adNow' <= MaxTermsTime
  /\ Cardinality({g \in Gates : g[2]}') <= 1

MCInit ==
  /\ AdInit
  /\ focus \in {"funds", "terms"}
  /\ focus = "funds" => adFees = TopFee /\ adPool = "pool"

Moves ==
  /\ IF focus = "funds" THEN FundsMove ELSE TermsMove
  /\ UNCHANGED focus

\* AdNext, disjunct by disjunct, without what no lever pulls here.
MCNext ==
  \/ AdAdminNext /\ Moves
  \/ AdMakerNext /\ Moves
  \/ AdRegistryNext /\ Moves
  \/ AdOrderNext /\ Moves
  \/ AdClaimNext /\ Moves
  \/ AdModuleNext /\ Moves
  \/ \E o \in Orders : AdUnlockNext(o) /\ Moves
  \/ \E leaf \in OrderChainLeaves : AdAnchorLeafNext(leaf) /\ Moves
  \/ AdTickNext /\ Moves

MCSpec == MCInit /\ [][MCNext]_mcVars
=============================================================================
