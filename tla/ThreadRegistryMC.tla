--------------------------- MODULE ThreadRegistryMC ---------------------------
(* Instances of ThreadRegistry for TLC.                                      *)
EXTENDS ThreadRegistry

CONSTANTS main, a, b, id1, id2

TwoThreads == {main, a}
ThreeThreads == {main, a, b}
TwoIds == {id1, id2}

=============================================================================
