----------------------------- MODULE MCDiligent -----------------------------
(***************************************************************************)
(* The diligent bridger on the small bridge of MCBridge.  As in MCAdDenial *)
(* a run follows one way the maker's side refuses the payout: it halts,    *)
(* the verifier is rewired, or the keys move.  Levers move under an order  *)
(* both sides signed, and a behaviour ends where nothing can go wrong.     *)
(***************************************************************************)
EXTENDS DiligentBridge, MCBridge

VARIABLE focus

Agreed(o) == \E i \in SlotIds : <<o, i>> \in cosigned

mcVars == <<diligentVars, focus>>

\* The keys move on an order nobody disputes, and a slot the order may be
\* re-pinned to stays as it was registered.
KeysMove ==
  /\ UNCHANGED <<adConfig, halt, dispute>>
  /\ \A r \in Registries, s \in Signers, i \in SlotIds \ {0} :
       slot'[r][s][i] \in {slot[r][s][i], UnboundedSlot}

WiringMoves ==
  /\ UNCHANGED registryVars
  /\ focus = "halt" => UNCHANGED verifierChangedAt
  /\ focus = "verifier" => UNCHANGED halt

LeversMove ==
  \/ UNCHANGED <<adConfig, halt, registryVars>>
  \/ \E o \in Orders : adStatus[o] \in Live /\ Agreed(o)

Unsettled(o) ==
  \/ adStatus[o] \in Live \cup {"None"}
  \/ adStatus[o] # "Filled" /\ o \notin opNullifiers

MCInit ==
  /\ BridgeInit /\ shownAt = [o \in Orders |-> 0]
  /\ focus \in {"halt", "verifier", "keys"}

MCNext ==
  /\ DiligentNext
  /\ \A o \in Orders : Unsettled(o)
  /\ LeversMove
  /\ IF focus = "keys" THEN KeysMove ELSE WiringMoves
  /\ UNCHANGED focus

MCSpec == MCInit /\ [][MCNext]_mcVars
=============================================================================
