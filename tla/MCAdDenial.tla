----------------------------- MODULE MCAdDenial -----------------------------
(***************************************************************************)
(* The denial rule on the small ad chain of MCAdManager.  A run follows    *)
(* one of the two ways a payout is refused: the keys move (slots expire,   *)
(* are dropped, the order is re-pinned), or the escrow's wiring and the    *)
(* maker's halt do.  Both together multiply to more states than TLC holds. *)
(***************************************************************************)
EXTENDS AdDenial, MCAdManager

CONSTANTS
  MaxKeysTime,      \* bound: the clock where the keys move, past the grace
  MaxRepinTime,     \* bound: the same, once a re-pin was consented to
  MaxWiringTime     \* bound: the clock where the wiring does

VARIABLE focus          \* which of the two moves, chosen at the start

mcVars == <<denialVars, focus>>

\* The keys of the registry the escrow was deployed with move, nothing is
\* rewired and nobody halts.
KeysMove ==
  /\ UNCHANGED <<keyRegistry, adVerifier, verifierChangedAt, anchorDelay, halt>>
  /\ \A r \in Registries \ {HomeRegistry} :
       slot'[r] = slot[r] /\ nextSlot'[r] = nextSlot[r] /\ repin'[r] = repin[r]
  /\ adNow' <= IF \E o \in Orders : repin'[HomeRegistry][o].nonce # 0
                 THEN MaxRepinTime ELSE MaxKeysTime

WiringMoves ==
  /\ UNCHANGED <<slot, nextSlot, repin>>
  /\ adNow' <= MaxWiringTime

MCInit ==
  /\ DenialInit
  /\ focus \in {"keys", "wiring"}
  /\ focus = "keys" => anchorDelay = 0

\* A behaviour ends with its order: a denial is of a live one.
MCNext ==
  /\ DenialNext
  /\ \A o \in Orders : adStatus[o] \in Live \cup {"None"}
  /\ IF focus = "keys" THEN KeysMove ELSE WiringMoves
  /\ UNCHANGED focus

MCSpec == MCInit /\ [][MCNext]_mcVars
=============================================================================
