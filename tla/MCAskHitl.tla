------------------------------- MODULE MCAskHitl ------------------------------
(***************************************************************************)
(* Small instances of AskHitl for TLC.                                     *)
(***************************************************************************)
EXTENDS AskHitl, TLC

CONSTANTS a1, a2, u1, u2, v1

Buttons(t) == [options |-> {v1}, allow_text |-> TRUE, allowed_users |-> {u1},
               multi_select |-> FALSE, timeout |-> t]
Menu(t) == [options |-> {v1}, allow_text |-> FALSE, allowed_users |-> {},
            multi_select |-> TRUE, timeout |-> t]

\* One question with buttons and free text that only u1 may answer.
OneRequest == (a1 :> Buttons(1))
\* The same beside an open select menu with a longer deadline.
TwoRequests == (a1 :> Buttons(1)) @@ (a2 :> Menu(2))

WaiterSymmetry == Permutations(Waiter)
===============================================================================
