----------------------------- MODULE SipTimer -----------------------------
(***************************************************************************)
(* The timers of a transaction.  A timer is running iff its id in the      *)
(* transaction is not 0, so the timers are the set of the running ones.    *)
(***************************************************************************)
EXTENDS Naturals

CONSTANTS T1,             \* SIP_TIMER_T1, the retransmission unit
          T2,             \* SIP_TIMER_T2, the cap of the retransmission interval
          TimersMayFail   \* whether osStartTimer may return 0

ASSUME TimerAssumption ==
    /\ T1 \in Nat \ {0}
    /\ T2 \in Nat \ {0}
    /\ TimersMayFail \in BOOLEAN

\* SIP_TIMER_B, SIP_TIMER_F, SIP_TIMER_H and SIP_TIMER_J
Timer64 == 64 * T1

MinInt(a, b) == IF a <= b THEN a ELSE b

\* sipTransStartTimer for timer t when the timers ts are running: t runs, or
\* the id is 0 and nothing has changed.
Started(ts, t) == {ts \cup {t}} \cup (IF TimersMayFail THEN {ts} ELSE {})
===========================================================================
