----------------------------- MODULE MCFrontend -----------------------------
(* Instances of Frontend for TLC.                                          *)
EXTENDS Frontend, TLC

(* Sound for the safety runs: no definition tells one ROM from another.    *)
RomSymmetry == Permutations(Roms)
=============================================================================
