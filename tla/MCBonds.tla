------------------------------- MODULE MCBonds -------------------------------
(***************************************************************************)
(* An instance for TLC of the two stores of bonds: a device has a          *)
(* RamBondStore, and then everything that Pairing describes may happen to  *)
(* it, or a FlashBondStore and what FlashBond describes.                   *)
(***************************************************************************)
EXTENDS Pairing, FlashBond, TLC

CONSTANTS a1, a2, a3, k1, k2      \* addresses and keys

VARIABLE store      \* which of the two the device has

Either ==
    /\ store \in {"ram", "flash"}
    /\ Init /\ FlashInit

EitherNext ==
    \/ store = "ram"   /\ Next      /\ UNCHANGED <<flashVars, store>>
    \/ store = "flash" /\ FlashNext /\ UNCHANGED <<vars, store>>

EitherSpec == Either /\ [][EitherNext]_<<vars, flashVars, store>>

\* a1 is the peer of the connection; the others and the keys are alike.
Alike == Permutations({a2, a3}) \cup Permutations({k1, k2})
=============================================================================
