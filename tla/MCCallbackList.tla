--------------------------- MODULE MCCallbackList ---------------------------
(***************************************************************************)
(* Instances of CallbackList for TLC: threads and cookies as model values. *)
(***************************************************************************)
EXTENDS CallbackList, TLC

CONSTANTS t1, t2, t3, c1, c2

ThreeThreads == {t1, t2, t3}
TwoCookies == {c1, c2}

Symmetric == Permutations(Threads) \cup Permutations(Cookies)
=============================================================================
