------------------------- MODULE MCResponseDispatch -------------------------
(* Small instances of ResponseDispatch for TLC: one transport thread in each
   of two agents, or two in the agent of the only device.                    *)
EXTENDS ResponseDispatch, TLC

CONSTANTS h1, h2, d1, d2, a1, t1, t2

OneThread  == (t1 :> d1)
TwoThreads == (t1 :> d1) @@ (t2 :> d1)

Interchangeable == Permutations(Handlers)
=============================================================================
