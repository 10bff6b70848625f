---------------------------- MODULE MCKeyMessages ----------------------------
(***************************************************************************)
(* Two registries that one signature may name.  A behaviour uses one       *)
(* family of requests, since they share only the account's nonce and       *)
(* generation: the makers' approvals and consents, the keys' registrations *)
(* by signature, or those by leaf.  The owner and the admin act at "r1",   *)
(* and "r2" is where the same signatures are also submitted.               *)
(***************************************************************************)
EXTENDS KeyMessages, TLC

VARIABLE family

KeySymmetry == Permutations(Keys)

OnlyKinds(kinds) == \A i \in 1..Len(signed') : signed'[i].request.kind \in kinds

MakersOnly ==
  /\ OnlyKinds({"approve", "revoke"})
  /\ now' <= 2
  /\ UNCHANGED <<used, repin, registrarVars, wired, byProof>>
  /\ nonce' # nonce => generation' # generation

RepinsOnly ==
  /\ OnlyKinds({"repin", "revoke"})
  /\ UNCHANGED <<used, approval, registrarVars, wired, byProof>>
  /\ nonce' # nonce => generation' # generation

SignedKeys ==
  /\ OnlyKinds({"register", "retire", "revoke", "cancel"})
  /\ UNCHANGED <<approval, repin, registrarVars, adminState>>

LeafKeys ==
  /\ signed' = signed
  /\ UNCHANGED <<approval, repin>>
  /\ nonce' # nonce => slot' # slot

AtR1 ==
  /\ \A i \in 1..Len(signed'), r \in Registries \ {"r1"} :
       Cardinality({l \in signed'[i].legs : l[1] = r}) <= 1
  /\ \A r \in Registries \ {"r1"} :
       <<paused[r], wired[r], byProof[r]>>' = <<paused[r], wired[r], byProof[r]>>
  /\ applied' = applied => \A r \in Registries \ {"r1"} :
       <<nonce[r], slot[r], approval[r], repin[r]>>' = <<nonce[r], slot[r], approval[r], repin[r]>>

MCInit ==
  /\ family \in {"makers", "repins", "signed keys", "leaf keys"}
  /\ KeyMessagesInit
  /\ \A r \in Registries : wired[r] <=> (family = "signed keys" /\ r = "r1")

MCNext ==
  /\ KeyMessagesNext
  /\ AtR1
  /\ family = "makers" => MakersOnly
  /\ family = "repins" => RepinsOnly
  /\ family = "signed keys" => SignedKeys
  /\ family = "leaf keys" => LeafKeys
  /\ UNCHANGED family

MCSpec == MCInit /\ [][MCNext]_<<keyMessageVars, family>>
==============================================================================
