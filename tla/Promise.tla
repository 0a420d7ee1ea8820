------------------------------- MODULE Promise -------------------------------
(* What a handle on background work promises: the work ends once, and       *)
(* whoever asks, however often, is told how it ended and never before it    *)
(* did, or is left without an answer for good.                              *)

VARIABLES
    outcome,    \* "pending", "ok" or "err"
    told        \* the last answer: "nothing" yet, "ok", "err", "unknown"

Init == outcome = "pending" /\ told = "nothing"

End == /\ outcome = "pending"
       /\ outcome' \in {"ok", "err"}
       /\ UNCHANGED told
Tell == /\ outcome # "pending"
        /\ told' = outcome
        /\ UNCHANGED outcome
Lose == /\ told' = "unknown"
        /\ UNCHANGED outcome
Next == End \/ (told # "unknown" /\ (Tell \/ Lose))

Spec == Init /\ [][Next]_<<outcome, told>>
=============================================================================
