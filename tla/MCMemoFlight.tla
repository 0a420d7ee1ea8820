---------------------------- MODULE MCMemoFlight ----------------------------
(* MemoFlight for TLC: call cells, types and futures are interchangeable. *)
EXTENDS MemoFlight, TLC

Interchangeable ==
    Permutations(CallIds) \cup Permutations(Types) \cup Permutations(AsyncCallers)
=============================================================================
