----------------------------- MODULE SmsServer -----------------------------
(***************************************************************************)
(* The SMS server, masSMS.c and masDb.c, on top of the registrar: a        *)
(* MESSAGE is forwarded to the called user or stored in the database, and  *)
(* what is stored is tried again by a poll and when the user registers.    *)
(*                                                                         *)
(* One application thread runs all of it, so that an action is one         *)
(* callback from its first line to its last.  The database outlives the    *)
(* process; each of its statements may fail, and what the callers do with  *)
(* the result is nothing.                                                  *)
(***************************************************************************)
EXTENDS Registrar, Integers

CONSTANTS Msgs,
          T1,         \* MAS_DB_SMS_TIMER_T1, the first interval between tries
          T2,         \* MAS_DB_SMS_TIMER_T2, the longest
          M,          \* MAS_DB_SMS_MAX_TIMER_M, how long a message is kept
          MaxLate,    \* bound: how late a poll is
          MaxCopies   \* bound: deliveries of a stored message at a time

ASSUME SmsAssumption ==
    /\ T1 \in Nat \ {0}
    /\ T2 \in Nat /\ T1 < T2
    /\ M \in Nat /\ T2 <= M
    /\ MaxLate \in Nat /\ MaxCopies \in Nat

VARIABLES
    to,       \* the user a message is for
    row,      \* its row in table sms, or NoRow
    b2b,      \* the messages being forwarded, masInfo_t of type B2B
    copies,   \* how many deliveries from the database are under way
    past      \* what has become of a message so far

mvars == <<to, row, b2b, copies, past>>
vars  == <<reg, to, row, b2b, copies, past>>

\* A row: timerN, and the times to expire and from there to dropTime.
Rows   == [timerN : 0 .. T2, wait : -MaxLate .. T2, room : 0 .. M]
NoRow  == [timerN |-> 0, wait |-> 0, room |-> 0]
NewRow == [timerN |-> T1, wait |-> T1, room |-> M - T1]

Events == {"accepted", "stored", "unstored", "unsent", "delivered", "dropped"}

Init ==
    /\ reg = NoUsers
    /\ to \in [Msgs -> Users]
    /\ row = [m \in Msgs |-> NoRow]
    /\ b2b = {}
    /\ copies = [m \in Msgs |-> 0]
    /\ past = [m \in Msgs |-> {}]

Stored(m) == row[m] # NoRow

\* What has become of message m now, in addition.
Happens(m, es) == past' = [past EXCEPT ![m] = @ \cup es]

\* masDbStoreSms, which may fail, with es what else happens to m.
StoreSms(m, es, ok) ==
    /\ row' = IF ok THEN [row EXCEPT ![m] = NewRow] ELSE row
    /\ Happens(m, es \cup {IF ok THEN "stored" ELSE "unstored"})

-----------------------------------------------------------------------------
\* A MESSAGE for a user who is not registered: it is stored, and whether that
\* worked or not, accepted.
SubmitStored(m, ok) ==
    /\ past[m] = {} /\ ~IsRegistered(to[m])
    /\ StoreSms(m, {"accepted"}, ok)
    /\ UNCHANGED <<reg, to, b2b, copies>>

\* A MESSAGE for one who is: it is forwarded, and accepted even if the
\* transaction layer has reported by then that it cannot be sent.
SubmitForwarded(m, caller, sent) ==
    /\ past[m] = {} /\ IsRegistered(to[m])
    /\ AddAppInfo(caller)
    /\ b2b' = IF sent THEN b2b \cup {m} ELSE b2b
    /\ Happens(m, {"accepted"} \cup IF sent THEN {} ELSE {"unsent"})
    /\ UNCHANGED <<to, row, copies>>

\* masSMS_onSipResponse, 2xx to a forwarded message.
ForwardDelivered(m) ==
    /\ m \in b2b
    /\ b2b' = b2b \ {m}
    /\ Happens(m, {"delivered"})
    /\ UNCHANGED <<reg, to, row, copies>>

\* Fault of ForwardRejected: it is not stored.
ForwardRejectedUnstored(m, ok) ==
    /\ m \in b2b
    /\ b2b' = b2b \ {m}
    /\ UNCHANGED <<reg, to, row, copies, past>>

\* 300 and above: it is stored.
ForwardRejected(m, ok) ==
    /\ m \in b2b
    /\ b2b' = b2b \ {m}
    /\ StoreSms(m, {}, ok)
    /\ UNCHANGED <<reg, to, copies>>

\* masSMS_onSipTransError: no answer in time, or the transport failed.
ForwardFailed(m) ==
    /\ m \in b2b
    /\ b2b' = b2b \ {m}
    /\ Happens(m, {"unsent"})
    /\ UNCHANGED <<reg, to, row, copies>>

-----------------------------------------------------------------------------
\* masDbSmsHandler for messages S: those of registered users are sent.
SendStored(S) ==
    /\ \A m \in S : Stored(m) /\ IsRegistered(to[m]) /\ copies[m] < MaxCopies
    /\ copies' = [m \in Msgs |-> IF m \in S THEN copies[m] + 1 ELSE copies[m]]

\* Fault of DeliveryFailed: the row is deleted whatever the answer was.
DeliveryFailedDeletes(m) ==
    /\ copies[m] > 0
    /\ copies' = [copies EXCEPT ![m] = @ - 1]
    /\ row' = [row EXCEPT ![m] = NoRow]
    /\ UNCHANGED <<reg, to, b2b, past>>

\* The delivery of a stored message was rejected, or failed: nothing is done,
\* the poll has set the next try.
DeliveryFailed(m) ==
    /\ copies[m] > 0
    /\ copies' = [copies EXCEPT ![m] = @ - 1]
    /\ UNCHANGED <<reg, to, row, b2b, past>>

\* 2xx: the row is deleted, if that works.
Delivered(m, ok) ==
    /\ copies[m] > 0
    /\ copies' = [copies EXCEPT ![m] = @ - 1]
    /\ row' = IF ok THEN [row EXCEPT ![m] = NoRow] ELSE row
    /\ Happens(m, {"delivered"})
    /\ UNCHANGED <<reg, to, b2b>>

\* The timer after a registration: masDbQuerySMSByUser sends what there is for
\* the user, due or not, and leaves the rows alone.  S is what could be sent.
SmsQueryTimer(u, S) ==
    /\ SmsQueried(u)
    /\ \A m \in S : to[m] = u
    /\ SendStored(S)
    /\ UNCHANGED <<to, row, b2b, past>>

NextTimerN(n) == IF n >= T2 THEN n ELSE IF 2 * n >= T2 THEN T2 ELSE 2 * n

\* Fault of IsLast: the interval is doubled before the test.
IsLastDoubled(r) == r.room <= 2 * r.timerN

\* The last try: the next would be at dropTime or after.
IsLast(r) == r.room <= r.timerN

\* Fault of UpdateSms: the interval is doubled before it is added.
UpdateSmsDoubled(r) ==
    IF IsLast(r) THEN NoRow
    ELSE [timerN |-> NextTimerN(r.timerN),
          wait   |-> r.wait + NextTimerN(r.timerN),
          room   |-> r.room - NextTimerN(r.timerN)]

\* masDbUpdateSms: the next try is timerN after the time of this one, however
\* late it is.
UpdateSms(r) ==
    IF IsLast(r) THEN NoRow
    ELSE [timerN |-> NextTimerN(r.timerN),
          wait   |-> r.wait + r.timerN,
          room   |-> r.room - r.timerN]

Due == {m \in Msgs : Stored(m) /\ row[m].wait <= 0}

\* Fault of Poll: only the rows that were sent are updated.
PollSentOnly(S, U) ==
    /\ SendStored(S)
    /\ row'  = [m \in Msgs |-> IF m \in S \cap U THEN UpdateSms(row[m]) ELSE row[m]]
    /\ past' = [m \in Msgs |-> IF m \in S \cap U /\ IsLast(row[m])
                               THEN past[m] \cup {"dropped"} ELSE past[m]]
    /\ UNCHANGED <<reg, to, b2b>>

\* masDbOnTimeout, every 2 s: the rows that are due are sent, S of them with
\* success, and updated, U of them with success.
Poll(S, U) ==
    /\ SendStored(S)
    /\ row'  = [m \in Msgs |-> IF m \in U THEN UpdateSms(row[m]) ELSE row[m]]
    /\ past' = [m \in Msgs |-> IF m \in U /\ IsLast(row[m])
                               THEN past[m] \cup {"dropped"} ELSE past[m]]
    /\ UNCHANGED <<reg, to, b2b>>

PollDue == Due # {} /\ \E S \in SUBSET Due : Poll(S, Due)

\* A unit of time passes for the rows that are not late beyond the bound.
Tick ==
    /\ \E m \in Msgs : Stored(m) /\ row[m].wait > -MaxLate
    /\ row' = [m \in Msgs |-> IF Stored(m) /\ row[m].wait > -MaxLate
                              THEN [row[m] EXCEPT !.wait = @ - 1] ELSE row[m]]
    /\ UNCHANGED <<reg, to, b2b, copies, past>>

\* The process ends and is started again.
Restart ==
    /\ reg' = NoUsers
    /\ b2b' = {}
    /\ copies' = [m \in Msgs |-> 0]
    /\ past' = [m \in Msgs |-> IF m \in b2b THEN past[m] \cup {"unsent"} ELSE past[m]]
    /\ UNCHANGED <<to, row>>

-----------------------------------------------------------------------------
Submit(m) ==
    \/ \E ok \in BOOLEAN : SubmitStored(m, ok)
    \/ \E caller \in Users, sent \in BOOLEAN : SubmitForwarded(m, caller, sent)

Answer(m) ==
    \/ ForwardDelivered(m)
    \/ \E ok \in BOOLEAN : ForwardRejected(m, ok) \/ Delivered(m, ok)
    \/ ForwardFailed(m)
    \/ DeliveryFailed(m)

Next ==
    \/ \E u \in Users : RegistrarStep(u) /\ UNCHANGED mvars
    \/ \E u \in Users, S \in SUBSET Msgs : SmsQueryTimer(u, S)
    \/ \E m \in Msgs : Submit(m) \/ Answer(m)
    \/ Due # {} /\ \E S, U \in SUBSET Due : Poll(S, U)
    \/ Tick
    \/ Restart

\* Time passes, and the poll that comes every 2 s meets a database that works
\* now and then.
Spec == Init /\ [][Next]_vars /\ WF_vars(Tick) /\ WF_vars(PollDue)

-----------------------------------------------------------------------------
\* Every variable keeps its type.
TypeOK ==
    /\ reg \in [Users -> Entries]
    /\ to \in [Msgs -> Users]
    /\ row \in [Msgs -> Rows]
    /\ b2b \subseteq Msgs
    /\ copies \in [Msgs -> 0 .. MaxCopies]
    /\ past \in [Msgs -> SUBSET Events]

\* A message that was accepted is on its way, is stored, has been received or
\* had its time; or else the database refused it, or nobody answered while it
\* was being forwarded.  In particular a forwarded message that is rejected is
\* stored.
AcceptedHasPlace ==
    \A m \in Msgs :
        "accepted" \in past[m] =>
            \/ m \in b2b
            \/ Stored(m)
            \/ past[m] \cap {"delivered", "dropped", "unstored", "unsent"} # {}

\* A message that made it into the database stays there until somebody has
\* received it or its time is over: rejected and failed deliveries, statements
\* that fail, deregistrations and restarts in between do not lose it.
StoredIsKept ==
    \A m \in Msgs :
        "stored" \in past[m] /\ ~Stored(m) => past[m] \cap {"delivered", "dropped"} # {}

\* The tries of a stored message follow each other in intervals that double
\* from T1 up to T2, so that before the cap the k-th is at a time the interval
\* alone tells, whatever polls came late or failed; and all are before dropTime.
Schedule ==
    \A m \in Msgs : Stored(m) =>
        /\ row[m].timerN \in T1 .. T2
        /\ row[m].timerN < T2 => row[m].room = M - row[m].timerN
        /\ row[m].room > 0

\* A message is given up only when less than the longest interval is left of
\* its time, and its row is deleted then.
NotDroppedEarly ==
    [][\A m \in Msgs : "dropped" \in past'[m] \ past[m] =>
           row[m].wait + row[m].room <= T2 /\ row'[m] = NoRow]_vars

\* The database does not fill up: every row is deleted some day.
RowsGo == \A m \in Msgs : Stored(m) ~> ~Stored(m)
=============================================================================
