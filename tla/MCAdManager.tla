---------------------------- MODULE MCAdManager ----------------------------
(***************************************************************************)
(* Small instances of the ad chain.  A time unit is a buffer's worth of    *)
(* minutes; constants that are functions are given values here.            *)
(***************************************************************************)
EXTENDS AdManager

\* One route tuple, and the one a retiming would replace it with.
T1 == [min_window |-> 2, buffer |-> 2, margin |-> 1, claim_stagger |-> 1]
T2 == [min_window |-> 1, buffer |-> 1, margin |-> 0, claim_stagger |-> 0]
Shortest   == <<T2>>
OneTiming  == <<T1>>
TwoTimings == <<T1, T2>>

NoFee    == [lp_bps |-> 0, protocol_bps |-> 0]
\* 1% each, the maximum.
TopFee   == [lp_bps |-> 100, protocol_bps |-> 100]

ParamsShort == [challenge_period |-> 1, bond_floor |-> 1]
ParamsLong  == [challenge_period |-> 3, bond_floor |-> 1]

BondRoute == [min_bond |-> 2, bond_bps |-> 10000]

\* Two orders against one ad, the first filed for a bridger paid at "rcp".
LateDeadline == [o \in Orders |-> 4]
Deadlines   == [o \in Orders |-> IF o = "o1" THEN 2 ELSE 3]
Amounts     == [o \in Orders |-> IF o = "o1" THEN 100 ELSE 200]
OneMaker    == [a \in Ads |-> "maker"]
OneAd       == [o \in Orders |-> "ad1"]
OneSigner   == [o \in Orders |-> "signer"]
Recipients  == [o \in Orders |-> "rcp"]
ChargedFees == [o \in Orders |-> TopFee]
FreeOfFees  == [o \in Orders |-> NoFee]

JustNoFee   == {NoFee}
JustTopFee  == {TopFee}
BothFees    == {NoFee, TopFee}
ShortParams == {ParamsShort}
LongParams  == {ParamsLong}
BothParams  == {ParamsShort, ParamsLong}

-----------------------------------------------------------------------------
(* The instance of the disputes.  Keys stay as they are and everybody can be *)
(* paid, so nothing is registered, approved or credited.  A maker halts and  *)
(* resumes once, under an order: that is a denial for good, whatever it does *)
(* after; halts before and after an order are the denial run's.              *)

DisputesNext ==
  \/ AdAdminNext
  \/ AdAnchorNext
  \/ AdMakerNext
  \/ /\ AdHaltNext
     /\ \E o \in Orders :
          adStatus[o] \in Live /\ halt[Maker(o)].last_resumed_at < adOrder[o].locked_at
  \/ AdOrderNext
  \/ AdModuleNext
  \/ \E o \in Orders : AdUnlockNext(o)
  \/ \E leaf \in OrderChainLeaves : AdAnchorLeafNext(leaf)
  \/ AdTickNext

DisputesSpec == AdInit /\ [][DisputesNext]_adChainVars

=============================================================================
