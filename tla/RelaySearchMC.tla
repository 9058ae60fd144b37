---------------------------- MODULE RelaySearchMC ----------------------------
(* RelaySearch on an address space of eight granules, the target in each   *)
(* of them and at both ends of a granule.                                  *)
EXTENDS RelaySearch

MCTargets == 1 .. Top
MCGame == 3 .. 30
=============================================================================
