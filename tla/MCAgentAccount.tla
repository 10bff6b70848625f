--------------------------- MODULE MCAgentAccount ---------------------------
(***************************************************************************)
(* One owner, one or two ads, one agent.  A behaviour exercises one part   *)
(* of the account, since the parts share little but the rails' delay:      *)
(* "rails", two ads armed, tightened, loosened, archived and disarmed with *)
(* rows pending; "ad", one guarded ad's liquidity and what the owner may   *)
(* do to it; "account", the account-wide changes and the funds at rest;    *)
(* "agents", policies, limits and locks.                                   *)
(***************************************************************************)
EXTENDS AgentAccount

VARIABLE part

Rate(c, r) == [capacity |-> c, refill_per_second |-> r]
Setting(threshold, delay, window, rate) ==
  [threshold |-> threshold, delay |-> delay, window |-> window, rate |-> rate]

Loose  == Setting(2, 1, 3, Rate(3, 2))
Strict == Setting(1, 2, 2, Rate(2, 1))
\* Strict in its delay only.
Slow   == Setting(2, 3, 3, Rate(3, 1))
\* A window shorter than the least.
Blink  == Setting(1, 1, 1, Rate(2, 1))

MCSettings == {Loose, Strict, Slow, Blink}
MCLimits   == {Rate(2, 1), Rate(4, 2)}

Policy(max, rate, until, scope) ==
  [ ad_tokens |-> [t \in Tokens |-> [max_per_order |-> max, rate |-> rate]],
    order_tokens |-> Tokens, valid_until |-> until, settlement_signer |-> "s1",
    ad_scope |-> scope ]

Wide    == Policy(2, Rate(3, 2), 0, Nil)
Narrow  == Policy(1, Rate(2, 1), 4, {"ad1"})
Wrong   == Policy(3, Rate(2, 1), 0, Nil)
MCPolicies == {Wide, Narrow, Wrong}

Order(ad, amount, decimals) ==
  [ escrow |-> "e1", ad |-> ad, creator |-> Me, signer |-> "s1", ad_token |-> "t1",
    order_token |-> "t1", amount |-> amount, order_decimals |-> decimals, ad_decimals |-> 0 ]

\* One unit, two units written with a decimal more, and what does not scale.
MCOrders == {Order("ad1", 1, 0), Order("ad1", 20, 1), Order("ad1", 15, 1)}

OneToken   == [ad \in Ads |-> "t1"]
Schemas    == [w \in Wasms |-> IF w = "w1" THEN 4 ELSE 5]
MCTargets  == {{"e1"}, {"e1", "t1"}}

RailCalls ==
  { <<"ad1", "set_guard_rail", <<"ad1", g>>>> : g \in {Nil, Loose} }
    \cup { <<Me, "upgrade", <<"w2">>>> }
AdCalls ==
  { <<"ad1", "withdraw_from_ad", <<"ad1", 3, "out">>>>, <<"ad1", "close_ad", <<"ad1", "out">>>>,
    <<"ad1", "lock_for_order", <<Order("ad1", 20, 1)>>>>,
    <<"ad1", "set_settlement_signer", <<"ad1", "s2">>>> }
AccountCalls ==
  { <<Me, "set_targets", <<{"e1", "t1"}>>>>, <<Me, "sweep", <<"t1", "out", 1>>>>,
    <<Me, "resume_settlement", <<Me>>>>, <<Me, "upgrade", <<"w2">>>> }
AgentCalls ==
  { <<Me, "set_policy", <<"a1", Wide>>>>, <<Me, "set_account_limit", <<"t1", Rate(4, 2)>>>> }
MCAnnouncements == RailCalls \cup AdCalls \cup AccountCalls \cup AgentCalls

-----------------------------------------------------------------------------

MCInit ==
  /\ part \in {"rails", "ad", "account", "agents"}
  /\ AgentAccountInit
  /\ targets = {"e1"} /\ code = "w1"

\* At most `n` rows are pending, each for one of the calls.
Announces(calls, n) ==
  LET pending == {row \in Rows : schedules'[row] # Nil} IN
  /\ Cardinality(pending) <= n
  /\ \A row \in pending :
       \E call \in calls : row = <<call[1], call[2]>> /\ schedules'[row].args = call[3]

SettingOf(rail) == IF rail = Nil THEN Nil ELSE Inputs(rail, {"bucket"})

\* The first ad is armed with g or not at all.
OneRail(g) ==
  /\ rails'["ad2"] = Nil /\ archived' = {}
  /\ SettingOf(rails'["ad1"]) \in {Nil, g}
  /\ book'["e1"]["ad2"] = Nil

RailsPart ==
  /\ Announces(RailCalls, 2)
  /\ UNCHANGED <<volume, policies, rest, halted, targets, schema>>
  /\ archived' \subseteq {"ad2"}
  /\ rails'["ad2"] # Nil => rails'["ad2"].delay = Strict.delay
  /\ book'["e1"]["ad1"] = Nil
  /\ LET b == book'["e1"]["ad2"] IN
     b # Nil => b.balance = (IF b.open THEN 3 ELSE 0) /\ b.locked = 0 /\ b.signer = "s1"
  /\ rails' # rails => \E ad \in Ads : SettingOf(rails'[ad]) # SettingOf(rails[ad])
  /\ code' # code => code' = "w2"

AdPart ==
  /\ Announces(AdCalls, 1)
  /\ OneRail(Loose)
  /\ UNCHANGED <<volume, policies, rest, halted, targets, code, schema>>

AccountPart ==
  /\ Announces(AccountCalls, 1)
  /\ OneRail(Loose)
  /\ UNCHANGED <<volume, policies, book>>
  /\ rails' # rails => roster' # roster

AgentsPart ==
  /\ Announces(AgentCalls, 1)
  /\ now' <= 3
  /\ OneRail(Loose)
  /\ UNCHANGED <<rest, halted, targets, code, schema>>
  /\ rails' # rails => roster' # roster
  /\ LET b == book'["e1"]["ad1"] IN
     b # Nil => b.balance = 3 /\ b.open /\ b.signer = "s1"
  /\ book["e1"]["ad1"] # Nil => book'["e1"]["ad1"].locked >= book["e1"]["ad1"].locked

MCNext ==
  /\ AgentAccountNext
  /\ part = "rails" => RailsPart
  /\ part = "ad" => AdPart
  /\ part = "account" => AccountPart
  /\ part = "agents" => AgentsPart
  /\ UNCHANGED part

MCSpec == MCInit /\ [][MCNext]_<<agentAccountVars, part>>
=============================================================================
