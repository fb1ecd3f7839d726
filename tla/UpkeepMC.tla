------------------------------ MODULE UpkeepMC ------------------------------
(* Instances of Upkeep for TLC.  Devices, entries and messages are each    *)
(* interchangeable, which the invariants may use.                          *)
EXTENDS Upkeep, TLC

Interchangeable ==
  Permutations(Devices) \cup Permutations(Ids) \cup Permutations(Bufs)

=============================================================================
