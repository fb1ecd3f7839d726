----------------------------- MODULE SessionsMC -----------------------------
(* Instances of Sessions for TLC.  Addresses are interchangeable, and so   *)
(* are clients.                                                            *)
EXTENDS Sessions, TLC

Interchangeable == Permutations(Bufs) \cup Permutations(Clients)

=============================================================================
