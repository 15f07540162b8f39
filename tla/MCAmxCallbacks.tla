--------------------------- MODULE MCAmxCallbacks ---------------------------
(***************************************************************************)
(* Instances of AmxCallbacks for TLC: threads, VMs and functions as model  *)
(* values.                                                                 *)
(***************************************************************************)
EXTENDS AmxCallbacks, TLC

CONSTANTS t1, t2, v1, v2, f1, f2

TwoThreads == {t1, t2}
TwoVms == {v1, v2}
OneCip == {f1}
SomeCips == {0, f1, f2}

Symmetric ==
  Permutations(Threads) \cup Permutations(Vms) \cup Permutations(Cips \ {0})
=============================================================================
