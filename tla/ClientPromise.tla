--------------------------- MODULE ClientPromise ---------------------------
(***************************************************************************)
(* What a client transaction promises to the transaction user (TU) that    *)
(* hands it a request: the TU hears of exactly one outcome, the final      *)
(* response or a transaction error; an error is the last thing it hears;   *)
(* and a transaction that is closed has told its outcome.                  *)
(***************************************************************************)

VARIABLES stage,    \* "idle": no request yet, "open", "closed": released
          outcome   \* "none", or what the TU has been told

vars == <<stage, outcome>>

TypeOK == /\ stage \in {"idle", "open", "closed"}
          /\ outcome \in {"none", "final", "error"}

Init == stage = "idle" /\ outcome = "none"

\* The request is accepted, or refused at once.
Begin == /\ stage = "idle"
         /\ \/ stage' = "open"   /\ outcome' = "none"
            \/ stage' = "closed" /\ outcome' = "error"

\* The TU is told; a transaction that failed does not linger.
Settle == /\ stage = "open" /\ outcome = "none"
          /\ \/ outcome' = "final" /\ stage' \in {"open", "closed"}
             \/ outcome' = "error" /\ stage' = "closed"

\* A transaction that lingered to absorb repeated responses is released.
Close == /\ stage = "open" /\ outcome = "final"
         /\ stage' = "closed"
         /\ UNCHANGED outcome

Next == Begin \/ Settle \/ Close

Spec == Init /\ [][Next]_vars /\ WF_vars(Settle)
=============================================================================
