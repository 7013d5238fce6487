--------------------------- MODULE InviteClient ---------------------------
(***************************************************************************)
(* One INVITE client transaction: sipTransInviteClient.c, with the ACK it  *)
(* sends for a final response other than 2xx.                              *)
(*                                                                         *)
(* An action is one call of sipTransInviteClient_onMsg that is not         *)
(* dropped, and an action that sends takes the answer o of                 *)
(* sipTransport_send as its parameter.  TU messages after the request and  *)
(* provisional responses leave no trace that is modelled here.             *)
(***************************************************************************)
EXTENDS SipTransport, SipTimer, Sequences

CONSTANT MaxTold   \* bound: the peer repeats final responses up to this often

VARIABLES
    state,          \* pTrans->state; "TERMINATED": the transaction is freed
    tpInfo,         \* pTrans->tpInfo
    timers,         \* the timers of sipTransICTimer with an id other than 0
    timerAEGValue,  \* pTrans->timerAEGValue
    clock,          \* when timer A was last started, counted from the start of B
    told,           \* the outcomes the TU has heard of, in order
    pending,        \* the connection manager holds this transaction's address
    out,            \* the request has been handed to the network
    ack,            \* how the last ACK was sent, "none" when there was none
    endedBy,        \* the msgType it was terminated with
    reqTcp, ackTcp  \* what the peer's configuration and the sizes choose

vars == <<state, tpInfo, timers, timerAEGValue, clock, told, pending, out,
          ack, endedBy, reqTcp, ackTcp>>

\* An ACK is no larger than its request, so that it may go by UDP when the
\* request did not.
Init == /\ state = "NONE"
        /\ tpInfo = NoFdTp("ANY")
        /\ timers = {}
        /\ timerAEGValue = 0
        /\ clock = 0
        /\ told = <<>>
        /\ pending = FALSE
        /\ out = FALSE
        /\ ack = "none"
        /\ endedBy = "none"
        /\ reqTcp \in BOOLEAN
        /\ ackTcp \in {FALSE, reqTcp}

-----------------------------------------------------------------------------
\* Fault of EnterTerminated: the timers survive a termination by the TU.
EnterTerminatedKeepsTimers(from, msgType, ts, td) ==
    /\ state' = "TERMINATED" /\ endedBy' = msgType
    /\ timers' = IF from = "CALLING" /\ msgType \in {"TX_FAILED", "INTERNAL_ERROR"}
                 THEN ts \ {"A", "B", "D"} ELSE ts \ {"D"}
    /\ told' = IF msgType \in {"TX_FAILED", "INTERNAL_ERROR"}
               THEN Append(td, "error") ELSE td

(***************************************************************************)
(* sipTransICEnterState(TERMINATED) from state from with the timers ts,    *)
(* when the TU has heard td.                                               *)
(***************************************************************************)
EnterTerminated(from, msgType, ts, td) ==
    /\ state' = "TERMINATED"
    /\ endedBy' = msgType
    /\ timers' = IF /\ from = "CALLING"
                    /\ msgType \in {"TX_FAILED", "INTERNAL_ERROR", "TU_FORCE_TERM_TRANS"}
                 THEN ts \ {"A", "B", "D"} ELSE ts \ {"D"}
    /\ told' = IF msgType \in {"TX_FAILED", "INTERNAL_ERROR"}
               THEN Append(td, "error") ELSE td

\* sipTransICEnterState(CALLING) after the INVITE was sent with answer o.
EnterCalling(o) ==
    IF Failed(o)
    THEN EnterTerminated("CALLING", "TX_FAILED", timers, told) /\ UNCHANGED timerAEGValue
    ELSE \E withB \in Started(timers, "B") :
         IF "B" \notin withB
         THEN /\ EnterTerminated("CALLING", "INTERNAL_ERROR", withB, told)
              /\ UNCHANGED timerAEGValue
         ELSE IF o.status = "UDP"
         THEN /\ timerAEGValue' = T1
              /\ \E withA \in Started(withB, "A") :
                    IF "A" \notin withA
                    THEN EnterTerminated("CALLING", "INTERNAL_ERROR", withA, told)
                    ELSE state' = "CALLING" /\ timers' = withA /\ UNCHANGED <<told, endedBy>>
         ELSE /\ state' = "CALLING" /\ timers' = withB
              /\ UNCHANGED <<told, endedBy, timerAEGValue>>

\* The TU's INVITE, in SIP_TRANS_STATE_NONE.
TURequest(o) ==
    /\ state = "NONE"
    /\ tpInfo' = o.tp
    /\ pending' = (o.status = "TCP_CONN")
    /\ out' = (o.status \in {"UDP", "TCP_OK"})
    /\ EnterCalling(o)
    /\ UNCHANGED <<clock, ack, reqTcp, ackTcp>>

(***************************************************************************)
(* Timer A: the INVITE again, after an interval that doubles without a     *)
(* cap; nobody looks at the result of starting A again.  tpType becomes    *)
(* UDP before the send.                                                    *)
(***************************************************************************)
TimerA(o) ==
    /\ state = "CALLING" /\ "A" \in timers
    /\ clock + timerAEGValue <= Timer64
    /\ tpInfo' = o.tp
    /\ IF Failed(o)
       THEN /\ EnterTerminated(state, "TX_FAILED", timers \ {"A"}, told)
            /\ UNCHANGED <<timerAEGValue, clock>>
       ELSE /\ timerAEGValue' = 2 * timerAEGValue
            /\ clock' = clock + timerAEGValue
            /\ timers' \in Started(timers \ {"A"}, "A")
            /\ UNCHANGED <<state, told, endedBy>>
    /\ UNCHANGED <<pending, out, ack, reqTcp, ackTcp>>

\* Fault of TimerB: the timeout is only noted.
TimerBIgnored ==
    /\ state = "CALLING" /\ "B" \in timers
    /\ "A" \in timers => clock + timerAEGValue >= Timer64
    /\ timers' = timers \ {"A", "B"}
    /\ UNCHANGED <<state, tpInfo, timerAEGValue, clock, told, pending, out, ack,
                   endedBy, reqTcp, ackTcp>>

\* Timer B: no response in time.  The TU is told here, not by EnterState.
TimerB ==
    /\ state = "CALLING" /\ "B" \in timers
    /\ "A" \in timers => clock + timerAEGValue >= Timer64
    /\ EnterTerminated(state, "TIMEOUT", timers \ {"A", "B"}, Append(told, "error"))
    /\ UNCHANGED <<tpInfo, timerAEGValue, clock, pending, out, ack, reqTcp, ackTcp>>

TimerD ==
    /\ state = "COMPLETED" /\ "D" \in timers
    /\ EnterTerminated(state, "TIMEOUT", timers \ {"D"}, told)
    /\ UNCHANGED <<tpInfo, timerAEGValue, clock, pending, out, ack, reqTcp, ackTcp>>

-----------------------------------------------------------------------------
\* Responses.  They stop A and B before anything else is looked at.

Answerable == out /\ state \in {"CALLING", "PROCEEDING"}

PeerProvisional ==
    /\ out /\ state = "CALLING"
    /\ state' = "PROCEEDING"
    /\ timers' = timers \ {"A", "B"}
    /\ UNCHANGED <<tpInfo, timerAEGValue, clock, told, pending, out, ack,
                   endedBy, reqTcp, ackTcp>>

\* 2xx: the TU acknowledges it.
PeerSuccess ==
    /\ Answerable
    /\ Len(told) < MaxTold
    /\ EnterTerminated(state, "PEER", timers \ {"A", "B"}, Append(told, "final"))
    /\ UNCHANGED <<tpInfo, timerAEGValue, clock, pending, out, ack, reqTcp, ackTcp>>

(***************************************************************************)
(* 3xx-6xx: the TU is told, the ACK is sent.  After UDP the transaction    *)
(* waits for repeated responses (starting D is not checked); after TCP it  *)
(* ends with TX_FAILED as if the send had failed; when the ACK has to wait *)
(* for a connection everything stays, without timers.                      *)
(***************************************************************************)
PeerError(o) ==
    /\ Answerable
    /\ Len(told) < MaxTold
    /\ tpInfo' = o.tp
    /\ ack' = o.status
    /\ pending' = (pending \/ o.status = "TCP_CONN")
    /\ LET ts == timers \ {"A", "B"}
           td == Append(told, "final")
       IN  \/ /\ o.status \in {"FAIL", "TCP_OK"}
              /\ EnterTerminated(state, "TX_FAILED", ts, td)
           \/ /\ o.status = "UDP"
              /\ state' = "COMPLETED"
              /\ timers' \in Started(ts, "D")
              /\ told' = td
              /\ UNCHANGED endedBy
           \/ /\ o.status = "TCP_CONN"
              /\ timers' = ts
              /\ told' = td
              /\ UNCHANGED <<state, endedBy>>
    /\ UNCHANGED <<timerAEGValue, clock, out, reqTcp, ackTcp>>

\* sipTransICBuildErrorACK returns NULL.
PeerErrorNoAck ==
    /\ Answerable
    /\ Len(told) < MaxTold
    /\ timers' = timers \ {"A", "B"}
    /\ told' = Append(told, "final")
    /\ UNCHANGED <<state, tpInfo, timerAEGValue, clock, pending, out, ack,
                   endedBy, reqTcp, ackTcp>>

\* Fault of PeerErrorAgain: the repeated response is passed to the TU.
PeerErrorAgainTellsTU(o) ==
    /\ state = "COMPLETED" /\ Len(told) < MaxTold
    /\ tpInfo' = o.tp
    /\ ack' = o.status
    /\ told' = Append(told, "final")
    /\ UNCHANGED <<state, timers, endedBy, timerAEGValue, clock, pending, out,
                   reqTcp, ackTcp>>

\* The response again: the same ACK again.
PeerErrorAgain(o) ==
    /\ state = "COMPLETED"
    /\ tpInfo' = o.tp
    /\ ack' = o.status
    /\ IF Failed(o)
       THEN EnterTerminated(state, "TX_FAILED", timers, told)
       ELSE UNCHANGED <<state, timers, told, endedBy>>
    /\ UNCHANGED <<timerAEGValue, clock, pending, out, reqTcp, ackTcp>>

-----------------------------------------------------------------------------
\* The connection manager calls back.  CALLING sends the request, also when
\* it was the ACK that waited; PROCEEDING ignores that a connection is there.

TxTcpReady(o) ==
    /\ state \in {"CALLING", "PROCEEDING"} /\ pending
    /\ pending' = FALSE
    /\ IF state = "PROCEEDING"
       THEN UNCHANGED <<state, tpInfo, timers, told, out, endedBy>>
       ELSE /\ tpInfo' = o.tp
            /\ IF Failed(o)
               THEN EnterTerminated(state, "TX_FAILED", timers, told) /\ UNCHANGED out
               ELSE out' = TRUE /\ UNCHANGED <<state, timers, told, endedBy>>
    /\ UNCHANGED <<timerAEGValue, clock, ack, reqTcp, ackTcp>>

\* Fault of TxFailed: the TU is told and the transaction stays.
TxFailedStays ==
    /\ state \in {"CALLING", "PROCEEDING"} /\ pending
    /\ pending' = FALSE
    /\ told' = Append(told, "error")
    /\ UNCHANGED <<state, timers, endedBy, tpInfo, timerAEGValue, clock, out, ack,
                   reqTcp, ackTcp>>

\* PROCEEDING tells the TU itself before EnterState does.
TxFailed ==
    /\ state \in {"CALLING", "PROCEEDING"} /\ pending
    /\ pending' = FALSE
    /\ EnterTerminated(state, "TX_FAILED", timers,
                       IF state = "PROCEEDING" THEN Append(told, "error") ELSE told)
    /\ UNCHANGED <<tpInfo, timerAEGValue, clock, out, ack, reqTcp, ackTcp>>

(***************************************************************************)
(* The TU terminates the transaction (timer C).  sipTransInviteClient_     *)
(* onMsg takes the TU's message for the transaction, so that the state it  *)
(* looks at is the message's sipMsgType, which the TU left uninitialized:  *)
(* any state's handler may be chosen, or none.                             *)
(***************************************************************************)
ForceTerm ==
    /\ state \in {"CALLING", "PROCEEDING", "COMPLETED"}
    /\ \E read \in {"NONE", "CALLING", "PROCEEDING", "COMPLETED", "TERMINATED"} :
          IF read \in {"CALLING", "PROCEEDING", "COMPLETED"}
          THEN EnterTerminated(state, "TU_FORCE_TERM_TRANS", timers, told)
          ELSE UNCHANGED <<state, timers, told, endedBy>>
    /\ UNCHANGED <<tpInfo, timerAEGValue, clock, pending, out, ack, reqTcp, ackTcp>>

-----------------------------------------------------------------------------
Expiry == \/ \E o \in SendOutcomes([tpInfo EXCEPT !.type = "UDP"], reqTcp) : TimerA(o)
          \/ TimerB
          \/ TimerD

\* What each state's handler makes of the messages it does not ignore.

FinalResponse == \/ PeerSuccess
                 \/ \E o \in SendOutcomes(tpInfo, ackTcp) : PeerError(o)
                 \/ PeerErrorNoAck

TxReport == TxFailed \/ \E o \in SendOutcomes(OnFdTp, reqTcp) : TxTcpReady(o)

StateCalling_onMsg ==
    /\ state = "CALLING"
    /\ \/ \E o \in SendOutcomes([tpInfo EXCEPT !.type = "UDP"], reqTcp) : TimerA(o)
       \/ TimerB
       \/ PeerProvisional \/ FinalResponse
       \/ TxReport

StateProceeding_onMsg == state = "PROCEEDING" /\ (FinalResponse \/ TxReport)

StateCompleted_onMsg ==
    /\ state = "COMPLETED"
    /\ TimerD \/ \E o \in SendOutcomes(tpInfo, ackTcp) : PeerErrorAgain(o)

Next == \/ \E o \in SendOutcomes(tpInfo, reqTcp) : TURequest(o)
        \/ StateCalling_onMsg \/ StateProceeding_onMsg \/ StateCompleted_onMsg
        \/ ForceTerm

\* A started timer expires; the peer, the connection and the TU owe nothing.
Spec == Init /\ [][Next]_vars /\ WF_vars(Expiry)

-----------------------------------------------------------------------------
\* Every variable keeps its type.
TypeOK ==
    /\ state \in {"NONE", "CALLING", "PROCEEDING", "COMPLETED", "TERMINATED"}
    /\ tpInfo \in TpInfos
    /\ timers \subseteq {"A", "B", "D"}
    /\ timerAEGValue \in Nat
    /\ clock \in Nat
    /\ told \in Seq({"final", "error"})
    /\ pending \in BOOLEAN
    /\ out \in BOOLEAN
    /\ ack \in Statuses \cup {"none"}
    /\ endedBy \in {"none", "TX_FAILED", "INTERNAL_ERROR", "TIMEOUT", "PEER",
                    "TU_FORCE_TERM_TRANS"}
    /\ reqTcp \in BOOLEAN
    /\ ackTcp \in BOOLEAN

\* A timer runs only in a state whose handler knows it; none outlives the
\* transaction.
TimersOfState ==
    timers \subseteq CASE state = "CALLING"   -> {"A", "B"}
                       [] state = "COMPLETED" -> {"D"}
                       [] OTHER               -> {}

\* The TU is not left without news: as long as nothing was heard in CALLING
\* timer B runs, and a transaction that is gone has told something, unless the
\* TU itself ended it.
NeverSilent ==
    /\ state = "CALLING" /\ told = <<>> => "B" \in timers
    /\ state = "TERMINATED" => told # <<>> \/ endedBy = "TU_FORCE_TERM_TRANS"

\* A transaction error is the end: the TU that was told of one gets no
\* response any more, and the transaction is gone.
ErrorIsEnd ==
    \A i \in 1..Len(told) :
        told[i] = "error" => /\ state = "TERMINATED"
                             /\ \A j \in i..Len(told) : told[j] = "error"

\* The TU hears of another final response only if no ACK has left for the one
\* before: the same response, repeated by a peer that was not acknowledged.
RepeatedOnlyIfUnacknowledged ==
    [][Len(told) > 0 /\ Len(told') > Len(told) /\ told'[Len(told')] = "final"
         => ack \in {"none", "TCP_CONN"}]_vars

\* The k-th repeat of the INVITE leaves (2^k - 1) * T1 after the first: A runs
\* only while nothing was heard, only over UDP, and always for the time that
\* has already passed and T1 more.
Doubling ==
    "A" \in timers => /\ told = <<>> /\ ~reqTcp /\ "B" \in timers
                      /\ timerAEGValue = clock + T1

\* Nobody waits for ever for a first response, even when timers cannot start; a
\* transaction that absorbs repeated responses is released if timer D did start.
Released ==
    /\ state = "CALLING" ~> state # "CALLING" \/ told # <<>>
    /\ state = "COMPLETED" /\ "D" \in timers ~> state = "TERMINATED"
=============================================================================
