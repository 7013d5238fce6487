---------------------------- MODULE AtMostOnce ----------------------------
(***************************************************************************)
(* What a non-INVITE request between two nodes amounts to: the server's TU *)
(* executes it at most once, and the client's TU gets one result, which is *)
(* a response only if the request was executed.                            *)
(***************************************************************************)
EXTENDS Naturals

VARIABLES executions,  \* how often the server's TU was given the request
          result       \* what the client's TU has been told

vars == <<executions, result>>

Init == executions = 0 /\ result = "none"

Execute == executions = 0 /\ executions' = 1 /\ UNCHANGED result

Succeed == result = "none" /\ executions = 1 /\ result' = "final" /\ UNCHANGED executions

GiveUp == result = "none" /\ result' = "error" /\ UNCHANGED executions

Next == Execute \/ Succeed \/ GiveUp

Spec == Init /\ [][Next]_vars
===========================================================================
